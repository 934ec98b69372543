--------------------------- MODULE MCGuestSession ---------------------------
(* Instances of GuestSession for TLC. *)
EXTENDS GuestSession

\* Capability calls: with or without text arguments, by the type of the result.
Plainly(r) == [text |-> FALSE, result |-> r]
WithText(r) == [text |-> TRUE, result |-> r]

MCReferenceCalls == {Plainly("scalar"), Plainly("string"), Plainly("bytes")}
MCTextCalls == {WithText("scalar"), Plainly("record")}
MCMixedCalls == {WithText("scalar"), WithText("string")}
MCScalarCalls == {Plainly("scalar")}
MCStringCalls == {Plainly("string")}
=============================================================================
