-------------------------- MODULE MC_CryptoBuffers --------------------------
(* A writer, a reader and a second reader, as in src/a2/test/test2.c. *)
EXTENDS CryptoBuffers, TLC

CONSTANTS fw, fr1, fr2

MC_Fds == {fw, fr1, fr2}
MC_FMode == (fw :> {"w"}) @@ (fr1 :> {"r"}) @@ (fr2 :> {"r"})

\* The registry without the record of the last call.
RegistryView == <<isopen, buf_id, bufs, detached, new_id, mapped, loaded, modref>>
=============================================================================
