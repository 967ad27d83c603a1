---------------------------- MODULE FrameChannel ----------------------------
(***************************************************************************)
(* The channel an authentication reads (class FrameChannel of              *)
(* mobile/src/frameChannel.ts) as a value: the frames that come in chunks, *)
(* and the ones put together and not yet read.                             *)
(*                                                                         *)
(* A chunk is the node it comes from, its frame, its index and its count.  *)
(* A frame put together is its parts, each the frame it was cut from; what *)
(* such a frame reads as is Readings.  The bytes are not modelled.         *)
(***************************************************************************)
EXTENDS Integers, Sequences, Functions

CONSTANTS
  Nodes,          \* nodes within reach of the radio
  MessageChunks,  \* kind of message -> number of chunks chunkFrame() cuts it into
  Garbled,        \* a frame whose parts are of different messages
  Null            \* null

ASSUME ChannelConstants == \A kind \in DOMAIN MessageChunks : MessageChunks[kind] \in Nat \ {0}

\* chunkFrame: the chunks of `message` as they leave node n.
Chunks(n, message) ==
  [peer : {n}, message : {message}, index : 0 .. MessageChunks[message.kind] - 1]

ChunkCount(chunk) == MessageChunks[chunk.message.kind]

NewChannel == [pending |-> [n \in Nodes |-> Null], complete |-> <<>>]

\* The set of the chunk's peer, begun anew when there is none of its count.
SetOf(channel, chunk) ==
  LET held == channel.pending[chunk.peer]
      indexes == 0 .. ChunkCount(chunk) - 1
  IN  IF held # Null /\ DOMAIN held = indexes THEN held ELSE [k \in indexes |-> Null]

\* A channel with one set for all peers.
AcceptedByAnyone(channel, chunk) ==
  LET indexes == 0 .. ChunkCount(chunk) - 1
      same == {n \in Nodes : channel.pending[n] # Null /\ DOMAIN channel.pending[n] = indexes}
      held == IF same = {} THEN [k \in indexes |-> Null]
              ELSE channel.pending[CHOOSE n \in same : TRUE]
      parts == [held EXCEPT ![chunk.index] = chunk.message]
  IN  IF Null \in Range(parts) THEN [channel EXCEPT !.pending = [n \in Nodes |-> parts]]
      ELSE [pending |-> [n \in Nodes |-> Null], complete |-> Append(channel.complete, parts)]

Accepted(channel, chunk) ==
  LET parts == [SetOf(channel, chunk) EXCEPT ![chunk.index] = chunk.message]
  IN  IF Null \in Range(parts) THEN [channel EXCEPT !.pending[chunk.peer] = parts]
      ELSE [pending |-> [channel.pending EXCEPT ![chunk.peer] = Null],
            complete |-> Append(channel.complete, parts)]

\* What the bytes of a frame may read as.  One message's parts read as that
\* message.  Parts of several identity messages read as the one all of whose
\* signed binding is among them, if there is one; other mixtures as nothing.
Readings(frame) ==
  IF \A m \in Range(frame) : m = frame[0] THEN {frame[0]}
  ELSE {Garbled} \cup {m \in Range(frame) : \A other \in Range(frame) : other.kind = "identity"}
=============================================================================
