---------------------------- MODULE MessageTypes ----------------------------
(***************************************************************************)
(* What a message is made of (src/types.ts): a string is the sequence of   *)
(* its UTF-8 bytes, the offset is left out since only the consumer's       *)
(* messages have one, and so is the topic, of which there is one.          *)
(***************************************************************************)
EXTENDS Integers, Sequences

CONSTANT Null       \* a field that is missing or null

ASSUME NullAssumption == Null \notin Int /\ Null \notin Seq(0..255)

Byte == 0..255
Text == {Null} \cup Seq(Byte)

Message ==
    [partition : {Null} \cup Nat, timestamp : {Null} \cup Int, key : Text, value : Text,
     headers : Seq(Seq(Byte) \X Seq(Byte))]
=============================================================================
