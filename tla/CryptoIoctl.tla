---------------------------- MODULE CryptoIoctl ----------------------------
(***************************************************************************)
(* What src/a2/ioctl.h promises of the crypto device's buffer ioctls:     *)
(* CRYPTO_IOCCREATE, CRYPTO_IOCTDELETE, CRYPTO_IOCTATTACH and             *)
(* CRYPTO_IOCDETACH, with open(2) and close(2) of the device.  A buffer is *)
(* only its id; what matters is which ids exist and which open file is     *)
(* attached to which buffer.                                               *)
(*                                                                         *)
(* Where the header lists several errors that apply at once, any of them   *)
(* may be returned.  Every call "may" return -ENOMEM, and then changes     *)
(* nothing.  Two things the header leaves open are left open here:        *)
(* whether CREATE attaches the creating file, and whether a buffer        *)
(* outlives the last file that detaches from it.  The header does not      *)
(* list an error for CREATE from an attached file; like the driver, the    *)
(* abstract CREATE refuses it with -ENOTSUP.                               *)
(***************************************************************************)
EXTENDS Naturals

CONSTANTS
  Fds,     \* open file descriptions of the device
  FMode,   \* the read/write mode each was opened with
  MaxId    \* ids are 1..MaxId

VARIABLES
  opened,  \* the file is open
  live,    \* ids of the buffers that exist
  att,     \* att[f]: the buffer f is attached to, 0 for none
  last     \* the last ioctl: [fd, op, arg, ret]

vars == <<opened, live, att, last>>

Ids == 1..MaxId

\* Files other than f attached to buffer id.
Others(f, id) == {g \in Fds : g # f /\ opened[g] /\ att[g] = id}

\* f gives up buffer id: the buffer stays, or goes if no other file is
\* attached to it.
LastOut(f, id) ==
  \/ UNCHANGED live
  \/ Others(f, id) = {} /\ live' = live \ {id}

Returns(f, op, arg, errs) ==
  \E r \in errs : last' = [fd |-> f, op |-> op, arg |-> arg, ret |-> r]

\* Any ioctl: "-ENOMEM if no memory was available", with no effect.
NoMemory(f, op, arg) ==
  /\ opened[f]
  /\ Returns(f, op, arg, {"ENOMEM"})
  /\ UNCHANGED <<opened, live, att>>

Init ==
  /\ opened = [f \in Fds |-> FALSE]
  /\ live = {}
  /\ att = [f \in Fds |-> 0]
  /\ last = [fd |-> CHOOSE f \in Fds : TRUE, op |-> "none", arg |-> 0,
             ret |-> "ok"]

Open(f) ==
  /\ ~opened[f]
  /\ opened' = [opened EXCEPT ![f] = TRUE]
  /\ att' = [att EXCEPT ![f] = 0]
  /\ UNCHANGED <<live, last>>

\* close(2) gives up the file's attachment.
Close(f) ==
  /\ opened[f]
  /\ opened' = [opened EXCEPT ![f] = FALSE]
  /\ att' = [att EXCEPT ![f] = 0]
  /\ IF att[f] # 0 THEN LastOut(f, att[f]) ELSE UNCHANGED live
  /\ UNCHANGED last

\* CRYPTO_IOCCREATE: "> 0 on success (buffer id)", an id no buffer has.
Create(f) ==
  /\ opened[f]
  /\ \/ /\ att[f] # 0
        /\ Returns(f, "create", 0, {"ENOTSUP"})
        /\ UNCHANGED <<live, att>>
     \/ /\ att[f] = 0
        /\ \E id \in Ids \ live :
             /\ live' = live \cup {id}
             /\ att' \in {att, [att EXCEPT ![f] = id]}
             /\ Returns(f, "create", 0, {"ok"})
  /\ UNCHANGED opened

\* CRYPTO_IOCTDELETE: "-EINVAL if the buffer specified does not exist",
\* "-ENOTSUP if the buffer has a positive reference count (except if the
\* requesting fd is the only attached fd)".
Delete(f, id) ==
  /\ opened[f]
  /\ \/ /\ id \notin live
        /\ Returns(f, "delete", id, {"EINVAL"})
        /\ UNCHANGED <<live, att>>
     \/ /\ id \in live /\ Others(f, id) # {}
        /\ Returns(f, "delete", id, {"ENOTSUP"})
        /\ UNCHANGED <<live, att>>
     \/ /\ id \in live /\ Others(f, id) = {}
        /\ live' = live \ {id}
        /\ att' = [att EXCEPT ![f] = IF @ = id THEN 0 ELSE @]
        /\ Returns(f, "delete", id, {"ok"})
  /\ UNCHANGED opened

\* CRYPTO_IOCTATTACH: "-EINVAL if the buffer specified does not exist",
\* "-ENOTSUP if the fd is already attached to a buffer or there is already
\* a reader or writer attached (depending on requested mode)".
Attach(f, id) ==
  LET taken == \E g \in Others(f, id) : FMode[g] \cap FMode[f] # {}
      errs  == (IF id \notin live THEN {"EINVAL"} ELSE {})
               \cup (IF att[f] # 0 \/ taken THEN {"ENOTSUP"} ELSE {})
  IN /\ opened[f]
     /\ \/ /\ errs # {}
           /\ Returns(f, "attach", id, errs)
           /\ UNCHANGED <<live, att>>
        \/ /\ errs = {}
           /\ att' = [att EXCEPT ![f] = id]
           /\ Returns(f, "attach", id, {"ok"})
           /\ UNCHANGED live
     /\ UNCHANGED opened

\* CRYPTO_IOCDETACH: "-ENOTSUP if the fd is not attached to any buffer".
Detach(f) ==
  /\ opened[f]
  /\ \/ /\ att[f] = 0
        /\ Returns(f, "detach", 0, {"ENOTSUP"})
        /\ UNCHANGED <<live, att>>
     \/ /\ att[f] # 0
        /\ att' = [att EXCEPT ![f] = 0]
        /\ LastOut(f, att[f])
        /\ Returns(f, "detach", 0, {"ok"})
  /\ UNCHANGED opened

Next ==
  \E f \in Fds :
    \/ Open(f) \/ Close(f) \/ Create(f) \/ Detach(f)
    \/ \E id \in Ids : Delete(f, id) \/ Attach(f, id)
    \/ \E op \in {"create", "delete", "attach", "detach"}, arg \in 0..MaxId :
         NoMemory(f, op, arg)

Spec == Init /\ [][Next]_vars
=============================================================================
