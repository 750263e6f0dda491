------------------------------- MODULE ImFile -------------------------------
(***************************************************************************)
(* One ext2 inode with the immediate-file extension and the /encrypt       *)
(* layer of src/a3/file.c, opened through several struct files.            *)
(*                                                                         *)
(* An immediate file keeps its bytes, NUL-terminated, in the 60-byte       *)
(* i_data array (D bytes here).  A write that would end past D converts    *)
(* the inode to a regular file: i_data is cleared, do_sync_write stores    *)
(* the data in the page cache and puts block pointers into i_data, and     *)
(* the mode is switched.  On the uniprocessor, non-preemptive kernel a     *)
(* call gives way to another process only where it sleeps: in kzalloc and  *)
(* inside do_sync_write.  A conversion is therefore split at those points  *)
(* (pc = "alloc", "sync", "mode"); every other call is one step.           *)
(*                                                                         *)
(* content and apos are ghosts: the file and the offsets POSIX read/write  *)
(* semantics give for the same calls, with a conversion taking effect in   *)
(* do_sync_write.  bad records a call that returned other than POSIX says; *)
(* corrupt records inode memory used for something it does not hold.       *)
(***************************************************************************)
EXTENDS Integers, Sequences, Bitwise

CONSTANTS
    Files,       \* open struct files of the inode
    Writers,     \* the files opened for writing (FMODE_WRITE)
    OAppend,     \* the files opened with O_APPEND
    InEncrypt,   \* the inode's directory is /encrypt
    Key,         \* the global key (file.c:32)
    D,           \* bytes of inline data (60 in the code)
    Texts,       \* user buffers a write may pass
    ReadLens,    \* lengths a read may ask for
    Serial,      \* clients take turns: no call starts while one sleeps
    CatReads,    \* reads as cat does: all from offset 0, then at the end
    OneWrite     \* a file writes once, at offset 0, and then only closes

ASSUME OAppend \subseteq Writers /\ Writers \subseteq Files /\ D \in Nat \ {0} /\ Key \in Nat

VARIABLES
    im,       \* S_ISIM(inode->i_mode)
    data,     \* ei->i_data as bytes
    blocks,   \* i_data holds the block pointers do_sync_write set up
    reg,      \* the regular file's bytes; i_size = Len(reg)
    pos,      \* filp->f_pos of each file
    pc,       \* "idle", or the sleep point a conversion is at
    txt,      \* the bytes a sleeping conversion hands to do_sync_write
    asize,    \* the size of the temp an O_APPEND conversion kzalloc'ed
    plain,    \* ghost: the plaintext of that write
    content,  \* ghost: the file POSIX semantics give
    apos,     \* ghost: the offsets POSIX semantics give
    wrote,    \* ghost: the file has written since it was opened
    bad,      \* ghost: some call returned other than POSIX says
    corrupt,  \* ghost: inode memory was misused
    overrun   \* ghost: the O_APPEND conversion wrote past its temp

vars == <<im, data, blocks, reg, pos, pc, txt, asize, plain, content, apos,
          wrote, bad, corrupt, overrun>>

Idx == 0 .. D - 1
Zeros(n) == [i \in 1 .. n |-> 0]
MinOf(a, b) == IF a < b THEN a ELSE b
MaxOf(a, b) == IF a > b THEN a ELSE b

\* strlen(data): the first NUL; D when there is none, and strlen then reads
\* past i_data.
Terminated(d) == \E i \in Idx : d[i] = 0
StrLen(d) ==
    IF Terminated(d)
    THEN CHOOSE i \in Idx : d[i] = 0 /\ \A j \in 0 .. i - 1 : d[j] # 0
    ELSE D

\* The first n inline bytes as a sequence.
Inline(d, n) == [i \in 1 .. n |-> d[i - 1]]

\* memset(data, 0, n)
Memset(d, n) == [i \in Idx |-> IF i < n THEN 0 ELSE d[i]]

\* The /encrypt loops: XOR every non-zero byte with the key.
XorNZ(s) == [i \in DOMAIN s |-> IF s[i] # 0 THEN s[i] ^^ Key ELSE 0]
Cipher(s) == IF InEncrypt THEN XorNZ(s) ELSE s

\* strncat(temp, buf, len) copies buf up to its first NUL.
UpToNul(s) ==
    IF \E i \in DOMAIN s : s[i] = 0
    THEN SubSeq(s, 1, (CHOOSE i \in DOMAIN s : s[i] = 0
                                 /\ \A j \in 1 .. i - 1 : s[j] # 0) - 1)
    ELSE s

\* What a write of t at offset p leaves in a file s: the hole is zero
\* filled.  This is do_sync_write's (and POSIX's) effect on the bytes.
WriteAt(s, p, t) ==
    [i \in 1 .. MaxOf(Len(s), p + Len(t)) |->
        IF p < i /\ i <= p + Len(t) THEN t[i - p]
        ELSE IF i <= Len(s) THEN s[i] ELSE 0]

\* The offset a write starts at: O_APPEND writes at i_size.
WritePos(f, size, p) == IF f \in OAppend THEN size ELSE p

\* The POSIX effect of a write of w by f on the ghosts.
PosixWrite(f, w) ==
    LET p == WritePos(f, Len(content), apos[f])
    IN  /\ content' = WriteAt(content, p, w)
        /\ apos' = [apos EXCEPT ![f] = p + Len(w)]

Available(f) == Len(content) - apos[f]

CanStart(f) ==
    /\ pc[f] = "idle"
    /\ Serial => \A g \in Files : pc[g] = "idle"
    /\ OneWrite => ~wrote[f]

Init ==
    /\ im = TRUE
    /\ data = [i \in Idx |-> 0]
    /\ blocks = FALSE
    /\ reg = <<>>
    /\ pos = [f \in Files |-> 0]
    /\ pc = [f \in Files |-> "idle"]
    /\ txt = [f \in Files |-> <<>>]
    /\ asize = [f \in Files |-> 0]
    /\ plain = [f \in Files |-> <<>>]
    /\ content = <<>>
    /\ apos = [f \in Files |-> 0]
    /\ wrote = [f \in Files |-> FALSE]
    /\ bad = FALSE
    /\ corrupt = FALSE
    /\ overrun = FALSE

(***************************************************************************)
(* close() and a new open(): ext2_release_file only discards the block     *)
(* reservation; generic_file_open gives a struct file at offset 0.         *)
(***************************************************************************)
Reopen(f) ==
    /\ pc[f] = "idle"
    /\ pos' = [pos EXCEPT ![f] = 0]
    /\ apos' = [apos EXCEPT ![f] = 0]
    /\ wrote' = [wrote EXCEPT ![f] = FALSE]
    /\ UNCHANGED <<im, data, blocks, reg, pc, txt, asize, plain, content, bad,
                   corrupt, overrun>>

(***************************************************************************)
(* ext3301_sync_write, with ext3301_im_write inlined.  The XOR loop runs   *)
(* first; then a regular file goes to do_sync_write, an immediate write    *)
(* ending within D is a memcpy to the start of i_data, and a longer one    *)
(* starts the conversion.  sync_write's "ppos += len" moves its local      *)
(* pointer only.                                                           *)
(***************************************************************************)
RegWrite(f, w, t) ==
    LET p == WritePos(f, Len(reg), pos[f])
    IN  /\ ~im
        /\ reg' = WriteAt(reg, p, t)
        /\ pos' = [pos EXCEPT ![f] = p + Len(t)]
        /\ PosixWrite(f, w)
        /\ UNCHANGED <<im, data, blocks, pc, txt, asize, plain, bad, corrupt,
                       overrun>>

ImWriteInline(f, w, t) ==
    /\ im
    /\ Len(t) + pos[f] <= D
    /\ data' = [i \in Idx |-> IF i < Len(t) THEN t[i + 1] ELSE data[i]]
    /\ corrupt' = (corrupt \/ blocks)
    /\ PosixWrite(f, w)
    /\ UNCHANGED <<im, blocks, reg, pos, pc, txt, asize, plain, bad, overrun>>

\* The branch of im_write's conversion: an O_APPEND write to a non-empty
\* file sleeps in kzalloc first; otherwise data is cleared at once.
ImWriteConvert(f, w, t) ==
    /\ im
    /\ Len(t) + pos[f] > D
    /\ IF StrLen(data) # 0 /\ f \in OAppend
       THEN /\ pc' = [pc EXCEPT ![f] = "alloc"]
            /\ asize' = [asize EXCEPT ![f] = StrLen(data) + Len(t)]
            /\ UNCHANGED data
       ELSE /\ data' = Memset(data, StrLen(data))
            /\ pc' = [pc EXCEPT ![f] = "sync"]
            /\ UNCHANGED asize
    /\ txt' = [txt EXCEPT ![f] = t]
    /\ plain' = [plain EXCEPT ![f] = w]
    /\ corrupt' = (corrupt \/ ~Terminated(data))
    /\ UNCHANGED <<im, blocks, reg, pos, content, apos, bad, overrun>>

SyncWrite(f, w) ==
    /\ f \in Writers /\ CanStart(f)
    /\ OneWrite => pos[f] = 0 /\ apos[f] = 0
    /\ wrote' = [wrote EXCEPT ![f] = TRUE]
    /\ \/ RegWrite(f, w, Cipher(w))
       \/ ImWriteInline(f, w, Cipher(w))
       \/ ImWriteConvert(f, w, Cipher(w))

\* Mutant: all strlen(data) old bytes are kept, not strlen(data) - 1.
ConvAppendWholeData(f) ==
    LET n    == StrLen(data)
        temp == Inline(data, n) \o UpToNul(txt[f])
    IN  /\ pc[f] = "alloc"
        /\ data' = Memset(data, n)
        /\ txt' = [txt EXCEPT ![f] = temp \o <<0>>]
        /\ pc' = [pc EXCEPT ![f] = "sync"]
        /\ corrupt' = (corrupt \/ n = 0 \/ ~Terminated(data))
        /\ overrun' = (overrun \/ n = 0 \/ Len(temp) + 1 > asize[f])
        /\ UNCHANGED <<im, blocks, reg, pos, asize, plain, content, apos,
                       wrote, bad>>

\* After kzalloc: temp = data without its last byte, then the new bytes up
\* to their first NUL; data is cleared and temp with its NUL is written.
\* strlen(data) is evaluated again here; if another conversion emptied
\* data meanwhile, strlen(data) - 1 wraps and memcpy runs off temp; if
\* an inline write lengthened it, memcpy and strncat run past the
\* kzalloc'ed size.
ConvAppend(f) ==
    LET n    == StrLen(data)
        temp == Inline(data, MaxOf(n - 1, 0)) \o UpToNul(txt[f])
    IN  /\ pc[f] = "alloc"
        /\ data' = Memset(data, n)
        /\ txt' = [txt EXCEPT ![f] = temp \o <<0>>]
        /\ pc' = [pc EXCEPT ![f] = "sync"]
        /\ corrupt' = (corrupt \/ n = 0 \/ ~Terminated(data))
        /\ overrun' = (overrun \/ n = 0 \/ Len(temp) + 1 > asize[f])
        /\ UNCHANGED <<im, blocks, reg, pos, asize, plain, content, apos,
                       wrote, bad>>

\* do_sync_write from im_write: the bytes go to the page cache, ext2's
\* get_block reads i_data as the block map, so a byte memset left behind is
\* taken as a block pointer, and i_data ends up holding block pointers.
ConvSync(f) ==
    LET p == WritePos(f, Len(reg), pos[f])
    IN  /\ pc[f] = "sync"
        /\ reg' = WriteAt(reg, p, txt[f])
        /\ pos' = [pos EXCEPT ![f] = p + Len(txt[f])]
        /\ corrupt' = (corrupt \/ \E i \in Idx : data[i] # 0)
        /\ data' = [i \in Idx |-> 0]
        /\ blocks' = TRUE
        /\ PosixWrite(f, plain[f])
        /\ pc' = [pc EXCEPT ![f] = "mode"]
        /\ UNCHANGED <<im, txt, asize, plain, wrote, bad, overrun>>

\* i_mode = S_IFREG | (i_mode ^ S_IFIM), then the directory entry's type.
\* S_IFIM is not defined in the source: toggling an already regular mode
\* may make the inode immediate again.  The write returns what
\* do_sync_write wrote, which POSIX says must be the length asked for.
ConvMode(f) ==
    /\ pc[f] = "mode"
    /\ im' \in IF im THEN {FALSE} ELSE {FALSE, TRUE}
    /\ bad' = (bad \/ Len(txt[f]) # Len(plain[f]))
    /\ pc' = [pc EXCEPT ![f] = "idle"]
    /\ UNCHANGED <<data, blocks, reg, pos, txt, asize, plain, content, apos,
                   wrote, corrupt, overrun>>

(***************************************************************************)
(* ext3301_sync_read with ext3301_im_read inlined: the bytes the reader    *)
(* gets and the new offset.  im_read copies only when ppos + len reaches   *)
(* strlen, always from the start of i_data; otherwise the buffer keeps     *)
(* what it held (zeros: kzalloc'd temp, or the caller's zeroed buffer).    *)
(* In /encrypt the whole temp is XORed back.                               *)
(***************************************************************************)
ImRead(f, len) ==
    LET n == StrLen(data)
    IN  IF pos[f] >= n THEN [got |-> <<>>, off |-> pos[f]]
        ELSE IF pos[f] + len >= n
             THEN [got |-> Inline(data, n - pos[f]), off |-> n]
             ELSE [got |-> Zeros(len), off |-> pos[f] + len]

RegRead(f, len) ==
    LET n == MaxOf(0, MinOf(len, Len(reg) - pos[f]))
    IN  [got |-> SubSeq(reg, pos[f] + 1, pos[f] + n), off |-> pos[f] + n]

SyncRead(f, len) ==
    LET r        == IF im THEN ImRead(f, len) ELSE RegRead(f, len)
        n        == MaxOf(0, MinOf(len, Available(f)))
        expected == SubSeq(content, apos[f] + 1, apos[f] + n)
    IN  /\ CanStart(f)
        /\ CatReads => len >= Available(f) /\ (apos[f] = 0 \/ Available(f) = 0)
        /\ pos' = [pos EXCEPT ![f] = r.off]
        /\ apos' = [apos EXCEPT ![f] = apos[f] + n]
        /\ bad' = (bad \/ Cipher(r.got) # expected \/ (im /\ blocks))
        /\ corrupt' = (corrupt \/ (im /\ ~Terminated(data)))
        /\ UNCHANGED <<im, data, blocks, reg, pc, txt, asize, plain, content,
                       wrote, overrun>>

Next ==
    \E f \in Files :
        \/ Reopen(f)
        \/ \E w \in Texts : SyncWrite(f, w)
        \/ ConvAppend(f)
        \/ ConvSync(f)
        \/ ConvMode(f)
        \/ \E len \in ReadLens : SyncRead(f, len)

Spec == Init /\ [][Next]_vars

-----------------------------------------------------------------------------

TypeOK ==
    /\ im \in BOOLEAN /\ blocks \in BOOLEAN
    /\ data \in [Idx -> Nat]
    /\ reg \in Seq(Nat) /\ content \in Seq(Nat)
    /\ pos \in [Files -> Nat] /\ apos \in [Files -> Nat]
    /\ pc \in [Files -> {"idle", "alloc", "sync", "mode"}]
    /\ txt \in [Files -> Seq(Nat)] /\ asize \in [Files -> Nat] /\ plain \in [Files -> Seq(Nat)]
    /\ wrote \in [Files -> BOOLEAN]
    /\ bad \in BOOLEAN /\ corrupt \in BOOLEAN /\ overrun \in BOOLEAN

\* File semantics: every read hands the caller the bytes written at its
\* offset, as many as the file has up to the length asked for, and every
\* write returns the length asked for, whether the file is immediate,
\* regular or being converted, and whether /encrypt ciphers it.
FileSemantics == ~bad

\* Inode integrity: i_data is only ever read or written as what it holds.
\* No strlen runs past it, no byte of inline data survives into the block
\* map, and no inline write lands on block pointers.
InodeIntact == ~corrupt

\* The O_APPEND conversion's temp: kzalloc(strlen(data) + len) must hold
\* the strlen(data) - 1 old bytes memcpy keeps, the up to len bytes
\* strncat adds and strncat's NUL, which the one old byte dropped makes
\* room for; strlen(data) is evaluated again after kzalloc sleeps, while
\* other files read and reopen, and the inline bytes may be the key's
\* zero or fill i_data with no NUL.
TempFits == ~overrun

=============================================================================
