--------------------------- MODULE CryptoBuffers ---------------------------
(***************************************************************************)
(* The buffer registry of the crypto character device, src/a2/fops.c:      *)
(* device_open, device_release, the CREATE, DELETE, ATTACH and DETACH      *)
(* ioctls, search_entry and freebuf.                                       *)
(*                                                                         *)
(* Buffers live in the list dev_buf_head (list_add puts a new one at the   *)
(* front); ids of freed buffers are pushed on detached_id_head and reused  *)
(* before new_id grows.  Each open file holds the id of the buffer it is   *)
(* attached to in its private data (0 for none), and its f_mode.  The      *)
(* buffer contents are the business of CryptoRing; here a buffer is its   *)
(* id, refcount and the read_ref/write_ref flags.                          *)
(*                                                                         *)
(* The ioctl entry point runs under the big kernel lock, so each call is   *)
(* one step; open and release are single steps too (nothing in them      *)
(* sleeps between reading and writing the shared lists).  Every           *)
(* allocation may fail when AllocFails is TRUE.                            *)
(*                                                                         *)
(* The module itself is loaded by init_module and removed by              *)
(* cleanup_module; the kernel removes it only when its reference count is *)
(* zero.  An open file holds two references: the kernel's, taken through  *)
(* the cdev owner before device_open and dropped after device_release (or *)
(* at once when device_open fails), and the driver's own try_module_get,  *)
(* which device_release drops with module_put.                            *)
(***************************************************************************)
EXTENDS Integers, Sequences, SequencesExt, FiniteSets

CONSTANTS
  Fds,         \* struct file objects, model values
  FMode,       \* f_mode of each: a non-empty subset of {"r", "w"}
  MaxId,       \* bound on new_id
  AllocFails   \* whether kzalloc/vmalloc may return NULL

ASSUME FMode \in [Fds -> SUBSET {"r", "w"} \ {{}}]
ASSUME MaxId \in Nat /\ AllocFails \in BOOLEAN

VARIABLES
  isopen,    \* the file is open (has private data)
  buf_id,    \* private_data->buf_id
  bufs,      \* dev_buf_head: <<[id, refcount, read_ref, write_ref], ...>>
  detached,  \* detached_id_head: ids to reuse, front first
  new_id,    \* static int new_id
  last,      \* the last ioctl: [fd, op, arg, ret]
  mapped,    \* mapped[f]: id of the buffer whose pages f's mapping shows
  loaded,    \* the module is inserted and its device registered
  modref     \* the module's reference count

vars == <<isopen, buf_id, bufs, detached, new_id, last, mapped, loaded, modref>>

Ops == {"none", "create", "delete", "attach", "detach"}
Rets == {"ok", "EINVAL", "ENOTSUP", "ENOMEM"}

TypeOK ==
  /\ isopen \in [Fds -> BOOLEAN]
  /\ buf_id \in [Fds -> 0..MaxId]
  /\ bufs \in Seq([id : 1..MaxId, refcount : Int, read_ref : 0..1, write_ref : 0..1])
  /\ detached \in Seq(1..MaxId)
  /\ new_id \in 1..(MaxId + 1)
  /\ last \in [fd : Fds, op : Ops, arg : 0..MaxId, ret : Rets]
  /\ mapped \in [Fds -> 0..MaxId]
  /\ loaded \in BOOLEAN /\ modref \in Nat

\* Outcomes of one kzalloc/vmalloc: TRUE when it returns memory.
Alloc == IF AllocFails THEN {TRUE, FALSE} ELSE {TRUE}

\* search_entry: the first entry with the id; on a miss the loop cursor is
\* left on the last entry visited (the assignment entry = NULL only clears
\* the local copy of the pointer), and stays NULL (0) on an empty list.
SearchEntry(id) ==
  IF \E i \in 1..Len(bufs) : bufs[i].id = id
    THEN CHOOSE i \in 1..Len(bufs) : bufs[i].id = id
                  /\ \A j \in 1..(i - 1) : bufs[j].id # id
    ELSE Len(bufs)

\* freebuf on entry i of the list lst: kzalloc an id node (on failure
\* nothing is freed), free the buffer, unlink it and push its id.
FreeBuf(lst, i, ok) ==
  IF ok
    THEN /\ bufs' = RemoveAt(lst, i)
         /\ detached' = <<lst[i].id>> \o detached
    ELSE /\ bufs' = lst
         /\ UNCHANGED detached

\* refcount-- on entry i (unsigned: -1 stands for UINT_MAX), then
\* freebuf if it reached 0.
Unref(lst, i) ==
  LET dec == [lst EXCEPT ![i].refcount = @ - 1] IN
  IF dec[i].refcount = 0
    THEN \E ok \in Alloc : FreeBuf(dec, i, ok)
    ELSE /\ bufs' = dec
         /\ UNCHANGED detached

Ret(f, op, arg, r) == last' = [fd |-> f, op |-> op, arg |-> arg, ret |-> r]

Bit(b) == IF b THEN 1 ELSE 0

(***************************************************************************)
(* File operations.                                                        *)
(***************************************************************************)

Init ==
  /\ isopen = [f \in Fds |-> FALSE]
  /\ buf_id = [f \in Fds |-> 0]
  /\ bufs = <<>>
  /\ detached = <<>>
  /\ new_id = 1
  /\ last = [fd |-> CHOOSE f \in Fds : TRUE, op |-> "none", arg |-> 0, ret |-> "ok"]
  /\ mapped = [f \in Fds |-> 0]
  /\ loaded = FALSE /\ modref = 0

\* init_module: alloc_chrdev_region and cdev_add, either of which may
\* fail and leave the module out; then the two lists are made empty.  A
\* load starts the module's statics afresh, new_id = 1 among them; the
\* nodes of a previous load's lists are not reachable any more.
InitModule ==
  /\ ~loaded
  /\ \E ok \in Alloc :
       IF ok THEN /\ loaded' = TRUE
                  /\ bufs' = <<>> /\ detached' = <<>> /\ new_id' = 1
             ELSE UNCHANGED <<loaded, bufs, detached, new_id>>
  /\ UNCHANGED <<isopen, buf_id, last, mapped, modref>>

\* cleanup_module: cdev_del and unregister_chrdev_region, when the kernel
\* lets the module go (its reference count is zero).  The lists are not
\* freed.
CleanupModule ==
  /\ loaded /\ modref = 0
  /\ loaded' = FALSE
  /\ UNCHANGED <<isopen, buf_id, bufs, detached, new_id, last, mapped, modref>>

\* Mutant: device_open does not call try_module_get.
DeviceOpenNoGet(f) ==
  /\ loaded /\ ~isopen[f]
  /\ \E ok \in Alloc :
       /\ isopen' = [isopen EXCEPT ![f] = ok]
       /\ buf_id' = [buf_id EXCEPT ![f] = 0]
       /\ modref' = modref + (IF ok THEN 1 ELSE 0)
  /\ UNCHANGED <<bufs, detached, new_id, last, mapped, loaded>>

\* device_open: try_module_get, then the private data with buf_id 0.  A
\* failed kzalloc fails the open: the kernel drops its reference, the
\* driver's stays.
DeviceOpen(f) ==
  /\ loaded /\ ~isopen[f]
  /\ \E ok \in Alloc :
       /\ isopen' = [isopen EXCEPT ![f] = ok]
       /\ buf_id' = [buf_id EXCEPT ![f] = 0]
       /\ modref' = modref + (IF ok THEN 2 ELSE 1)
  /\ UNCHANGED <<bufs, detached, new_id, last, mapped, loaded>>

\* device_release: drop the reference; read_ref/write_ref are left as
\* they are.  The file is gone whatever the return value.  A mapping holds
\* a reference to the file, so release runs only once it is unmapped.
DeviceRelease(f) ==
  /\ isopen[f] /\ mapped[f] = 0
  /\ isopen' = [isopen EXCEPT ![f] = FALSE]
  /\ modref' = modref - 2
  /\ LET i == SearchEntry(buf_id[f]) IN
     IF buf_id[f] # 0 /\ i # 0 THEN Unref(bufs, i)
     ELSE UNCHANGED <<bufs, detached>>
  /\ UNCHANGED <<buf_id, new_id, last, mapped, loaded>>

(***************************************************************************)
(* device_ioctl, one step per call under the big kernel lock.              *)
(***************************************************************************)

\* Mutant: a reused id is read from detached_id_head but not unlinked.
IoctlCreateKeepDetached(f) ==
  /\ isopen[f]
  /\ IF buf_id[f] # 0 THEN Ret(f, "create", 0, "ENOTSUP") /\ UNCHANGED <<buf_id, bufs, detached, new_id>>
     ELSE \E okbuf, okvm, oknode \in Alloc :
       IF ~okbuf \/ ~okvm THEN Ret(f, "create", 0, "ENOMEM") /\ UNCHANGED <<buf_id, bufs, detached, new_id>>
       ELSE
         LET id == IF detached = <<>> THEN new_id ELSE Head(detached) IN
         /\ detached = <<>> => new_id <= MaxId
         /\ new_id' = IF detached = <<>> THEN new_id + 1 ELSE new_id
         /\ UNCHANGED detached
         /\ buf_id' = [buf_id EXCEPT ![f] = id]
         /\ IF oknode
              THEN /\ bufs' = <<[id |-> id, refcount |-> 1,
                                 read_ref |-> Bit("r" \in FMode[f]),
                                 write_ref |-> Bit("w" \in FMode[f])]>> \o bufs
                   /\ Ret(f, "create", 0, "ok")
              ELSE /\ UNCHANGED bufs
                   /\ Ret(f, "create", 0, "ENOMEM")
  /\ UNCHANGED <<isopen, mapped, loaded, modref>>

\* CRYPTO_IOCCREATE: allocate the buffer, take a reused id or new_id++,
\* record it in the private data, then list_add the node.  A failed
\* allocation returns -ENOMEM wherever it happens; the last one leaves
\* the id in the private data and the buffer off the list.
IoctlCreate(f) ==
  /\ isopen[f]
  /\ IF buf_id[f] # 0 THEN Ret(f, "create", 0, "ENOTSUP") /\ UNCHANGED <<buf_id, bufs, detached, new_id>>
     ELSE \E okbuf, okvm, oknode \in Alloc :
       IF ~okbuf \/ ~okvm THEN Ret(f, "create", 0, "ENOMEM") /\ UNCHANGED <<buf_id, bufs, detached, new_id>>
       ELSE
         LET id == IF detached = <<>> THEN new_id ELSE Head(detached) IN
         /\ detached = <<>> => new_id <= MaxId
         /\ new_id' = IF detached = <<>> THEN new_id + 1 ELSE new_id
         /\ detached' = IF detached = <<>> THEN detached ELSE Tail(detached)
         /\ buf_id' = [buf_id EXCEPT ![f] = id]
         /\ IF oknode
              THEN /\ bufs' = <<[id |-> id, refcount |-> 1,
                                 read_ref |-> Bit("r" \in FMode[f]),
                                 write_ref |-> Bit("w" \in FMode[f])]>> \o bufs
                   /\ Ret(f, "create", 0, "ok")
              ELSE /\ UNCHANGED bufs
                   /\ Ret(f, "create", 0, "ENOMEM")
  /\ UNCHANGED <<isopen, mapped, loaded, modref>>

\* CRYPTO_IOCTDELETE: refused only when more than one file is attached;
\* the caller's own buf_id is cleared before freebuf.
IoctlDelete(f, id) ==
  /\ isopen[f]
  /\ LET i == SearchEntry(id) IN
     IF i = 0 THEN Ret(f, "delete", id, "EINVAL") /\ UNCHANGED <<buf_id, bufs, detached>>
     ELSE IF bufs[i].refcount > 1 THEN Ret(f, "delete", id, "ENOTSUP") /\ UNCHANGED <<buf_id, bufs, detached>>
     ELSE /\ buf_id' = [buf_id EXCEPT ![f] = 0]
          /\ \E ok \in Alloc :
               /\ FreeBuf(bufs, i, ok)
               /\ Ret(f, "delete", id, IF ok THEN "ok" ELSE "ENOMEM")
  /\ UNCHANGED <<isopen, new_id, mapped, loaded, modref>>

\* CRYPTO_IOCTATTACH: one reader and one writer per buffer.
IoctlAttach(f, id) ==
  /\ isopen[f]
  /\ LET i == SearchEntry(id)
         rd == "r" \in FMode[f]
         wr == "w" \in FMode[f]
     IN
     IF buf_id[f] # 0 THEN Ret(f, "attach", id, "ENOTSUP") /\ UNCHANGED <<buf_id, bufs>>
     ELSE IF i = 0 THEN Ret(f, "attach", id, "EINVAL") /\ UNCHANGED <<buf_id, bufs>>
     ELSE IF (rd /\ bufs[i].read_ref = 1) \/ (wr /\ bufs[i].write_ref = 1)
       THEN Ret(f, "attach", id, "ENOTSUP") /\ UNCHANGED <<buf_id, bufs>>
     ELSE /\ bufs' = [bufs EXCEPT ![i].read_ref = IF rd THEN 1 ELSE @,
                                  ![i].write_ref = IF wr THEN 1 ELSE @,
                                  ![i].refcount = @ + 1]
          /\ buf_id' = [buf_id EXCEPT ![f] = bufs[i].id]
          /\ Ret(f, "attach", id, "ok")
  /\ UNCHANGED <<isopen, detached, new_id, mapped, loaded, modref>>

\* CRYPTO_IOCDETACH: clear this file's flags, drop the reference.
IoctlDetach(f) ==
  /\ isopen[f]
  /\ LET i == SearchEntry(buf_id[f]) IN
     IF buf_id[f] = 0 THEN Ret(f, "detach", 0, "ENOTSUP") /\ UNCHANGED <<buf_id, bufs, detached>>
     ELSE IF i = 0 THEN Ret(f, "detach", 0, "EINVAL") /\ UNCHANGED <<buf_id, bufs, detached>>
     ELSE LET cleared == [bufs EXCEPT
                            ![i].read_ref = IF "r" \in FMode[f] THEN 0 ELSE @,
                            ![i].write_ref = IF "w" \in FMode[f] THEN 0 ELSE @]
          IN /\ buf_id' = [buf_id EXCEPT ![f] = 0]
             /\ Unref(cleared, i)
             /\ Ret(f, "detach", 0, IF bufs' = cleared THEN "ENOMEM" ELSE "ok")
  /\ UNCHANGED <<isopen, new_id, mapped, loaded, modref>>

(***************************************************************************)
(* device_mmap and munmap(2).  A size or offset the checks refuse, and a   *)
(* failed remap_pfn_range, leave no mapping.  The pages mapped are those   *)
(* of the entry search_entry returns for the file's buf_id.                *)
(***************************************************************************)
DeviceMmap(f) ==
  LET i == SearchEntry(buf_id[f]) IN
  /\ isopen[f] /\ mapped[f] = 0
  /\ buf_id[f] # 0 /\ i # 0
  /\ mapped' = [mapped EXCEPT ![f] = bufs[i].id]
  /\ UNCHANGED <<isopen, buf_id, bufs, detached, new_id, last, loaded, modref>>

Munmap(f) ==
  /\ mapped[f] # 0
  /\ mapped' = [mapped EXCEPT ![f] = 0]
  /\ UNCHANGED <<isopen, buf_id, bufs, detached, new_id, last, loaded, modref>>

Next ==
  \/ InitModule
  \/ CleanupModule
  \/ \E f \in Fds :
       \/ DeviceOpen(f)
       \/ DeviceRelease(f)
       \/ IoctlCreate(f)
       \/ \E id \in 1..MaxId : IoctlDelete(f, id) \/ IoctlAttach(f, id)
       \/ IoctlDetach(f)
       \/ DeviceMmap(f)
       \/ Munmap(f)

Spec == Init /\ [][Next]_vars

\* State constraint: refcount is an unsigned int that a decrement of a
\* zero count wraps to UINT_MAX (-1 here); states past one wrap are cut.
\* A failed open keeps its module reference; states with more than one
\* such leaked reference are cut as well.
RefBound ==
  /\ \A i \in 1..Len(bufs) : bufs[i].refcount \in -1..Cardinality(Fds)
  /\ modref <= 2 * Cardinality({f \in Fds : isopen[f]}) + 1

(***************************************************************************)
(* Properties.                                                             *)
(***************************************************************************)

LiveIds == {bufs[i].id : i \in 1..Len(bufs)}

\* Ids are never handed out twice: the live buffers and the reuse list
\* hold pairwise distinct ids, all below new_id, across creation, delete,
\* detach and release, including the paths where an allocation fails.
IdsUnique ==
  LET all == [i \in 1..(Len(bufs) + Len(detached)) |->
                IF i <= Len(bufs) THEN bufs[i].id ELSE detached[i - Len(bufs)]]
  IN /\ \A i, j \in DOMAIN all : i # j => all[i] # all[j]
     /\ \A i \in DOMAIN all : all[i] < new_id

\* The registry seen as ioctl.h describes it: the ids of the listed
\* buffers, and for each open file the buffer its private data names.
IoctlView == INSTANCE CryptoIoctl
               WITH opened <- isopen, live <- LiveIds,
                    att <- [f \in Fds |-> IF isopen[f] THEN buf_id[f] ELSE 0]

\* The driver implements ioctl.h: every open, close, CREATE, DELETE, ATTACH
\* and DETACH returns a value the header allows for the call and leaves the
\* buffers and attachments as the header says.  It is about search_entry's
\* result on a miss, DELETE's refcount test, and release keeping the
\* reader and writer flags.
IoctlRefinement == IoctlView!Spec

\* device_mmap maps the vmalloc'ed pages of the buffer into the process
\* without taking a reference on the buffer: a buffer whose pages are
\* mapped is never freed (by DELETE, DETACH or release) while the mapping
\* lasts.
MappedPagesLive ==
  [][\A f \in Fds : mapped[f] \in LiveIds => mapped[f] \in LiveIds']_vars


\* The module stays loaded while any file of the device is open (and so
\* while any of its buffers is mapped): the kernel removes a module only
\* at reference count zero, so device_release's module_put must be matched
\* by device_open's try_module_get on every open, or the puts of one
\* file's close release another file's references and cleanup_module
\* unregisters the device under an open file whose code is gone.
ModuleHeld == \A f \in Fds : isopen[f] => loaded
=============================================================================
