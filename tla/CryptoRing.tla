----------------------------- MODULE CryptoRing -----------------------------
(***************************************************************************)
(* One buffer of the crypto character device, src/a2/fops.c, with a       *)
(* writer file and a reader file attached to it as in test/test2.c:        *)
(* device_write, device_read, the CRYPTO_IOCSMODE ioctl, substr, encrypt  *)
(* and decrypt.                                                            *)
(*                                                                         *)
(* read and write take no lock.  On the uniprocessor, non-preemptive       *)
(* kernel the driver was written for, another process runs only where a    *)
(* call sleeps: at vmalloc and at copy_to_user/copy_from_user.  So a write *)
(* is two steps (checks and vmalloc; then copy, encrypt, store, count) and *)
(* a read is three (checks and vmalloc; copy, crypt, copy_to_user; count   *)
(* and readoff), and the other file's steps interleave between them.       *)
(*                                                                         *)
(* Data: XOR acts on each bit of a char independently, so one bit lane     *)
(* (Bits = 0..1) shows everything the chaining does.  Sizes: size_t and    *)
(* unsigned int values are kept as integers; a negative value stands for   *)
(* the huge number the unsigned wrap produces.  vmalloc of 0 or of a huge  *)
(* size returns NULL.  A copy outside temp or the buffer is undefined      *)
(* behaviour: the model records it in oob and stops.                       *)
(***************************************************************************)
EXTENDS Integers, Sequences, SequencesExt

CONSTANTS
  N,              \* BUF_SIZE
  Lens,           \* len arguments of read(2) and write(2)
  Keys,           \* smode.key values (one bit lane of the unsigned char)
  ClientChecksSpace, \* the writer asks for at most N - Reserve - count bytes
  Reserve,
  ReadsWithinEnd  \* the reader never asks past the end of the ring

Bits == 0..1
Xor(a, b) == (a + b) % 2

Modes == {"pass", "enc", "dec"}
Procs == {"writer", "reader"}

VARIABLES
  buf, readoff, writeoff, count, enc_last, dec_last,  \* struct dev_buf
  smode,     \* smode[p]: writesmode of the writer, readsmode of the reader
  wpc, wloc, \* writer: program point and locals of device_write
  rpc, rloc, \* reader: program point and locals of device_read
  ret,       \* last return value of each process
  started,   \* the process has moved data (ghost)
  expect,    \* plaintext written and not yet consumed (ghost)
  corrupt,   \* the reader has been handed other plaintext (ghost)
  cprev,     \* the ciphertext byte the unread ciphertext chains from, -1
             \* for the key (ghost)
  ccorrupt,  \* the reader has been handed other ciphertext (ghost)
  oob        \* an out-of-bounds copy happened (ghost)

ring == <<buf, readoff, writeoff, count, enc_last, dec_last>>
vars == <<ring, smode, wpc, wloc, rpc, rloc, ret, started, expect, corrupt,
          cprev, ccorrupt, oob>>

Rets == {"none", "ok", "ENOBUFS", "ENOMEM"}

TypeOK ==
  /\ buf \in [0..(N - 1) -> Bits]
  /\ readoff \in 0..(N - 1) /\ writeoff \in 0..(N - 1) /\ count \in Int
  /\ enc_last \in -1..(N - 1) /\ dec_last \in -1..(N - 1)
  /\ smode \in [Procs -> [mode : Modes, key : Keys]]
  /\ wpc \in {"idle", "alloc"} /\ rpc \in {"idle", "alloc", "copied"}
  /\ ret \in [Procs -> Rets]
  /\ expect \in Seq(Bits) /\ corrupt \in BOOLEAN /\ oob \in BOOLEAN
  /\ cprev \in Bits \cup {-1} /\ ccorrupt \in BOOLEAN

\* C's % on an int that is -1 or more.
CMod(x) == IF x < 0 THEN x ELSE x % N

\* vmalloc(size) returns memory.
Allocates(size) == size > 0

\* encrypt: XOR each byte with the previous ciphertext byte; the first
\* with buf[enc_last], or the key when nothing was encrypted yet.
RECURSIVE EncryptSeq(_, _)
EncryptSeq(p, first) ==
  IF p = <<>> THEN <<>>
  ELSE LET c1 == Xor(Head(p), first) IN <<c1>> \o EncryptSeq(Tail(p), c1)

\* Mutant: every write restarts the chain from the key, as if enc_last
\* were never consulted.
EncryptFromKey(p, key) == EncryptSeq(p, key)

Encrypt(p, key) ==
  EncryptSeq(p, IF enc_last # -1 THEN buf[enc_last] ELSE key)

\* Mutant: the chain carries the byte just decrypted instead of the
\* ciphertext byte (previous = cipher[i] after the assignment).
RECURSIVE DecryptSeqPlain(_, _)
DecryptSeqPlain(c, prev) ==
  IF c = <<>> THEN <<>>
  ELSE LET p1 == Xor(Head(c), prev) IN <<p1>> \o DecryptSeqPlain(Tail(c), p1)

\* decrypt: XOR each byte with the previous ciphertext byte; the first
\* with buf[dec_last], or the key when nothing was decrypted yet.
RECURSIVE DecryptSeq(_, _)
DecryptSeq(c, prev) ==
  IF c = <<>> THEN <<>>
  ELSE <<Xor(Head(c), prev)>> \o DecryptSeq(Tail(c), Head(c))

Decrypt(c, key) ==
  DecryptSeq(c, IF dec_last # -1 THEN buf[dec_last] ELSE key)

\* The switch on smode.mode in device_read and device_write: the
\* transformed temp, and the new enc_last and dec_last.
Crypt(sm, t) ==
  CASE sm.mode = "enc" -> [out |-> Encrypt(t, sm.key),
                           enc |-> CMod(enc_last + Len(t)), dec |-> dec_last]
    [] sm.mode = "dec" -> [out |-> Decrypt(t, sm.key),
                           enc |-> enc_last, dec |-> CMod(dec_last + Len(t))]
    [] OTHER           -> [out |-> t, enc |-> enc_last, dec |-> dec_last]

\* substr(buf, temp, off, 0, n): n bytes of the ring from off.
Slice(off, n) == [i \in 1..n |-> buf[off + i - 1]]

\* test1.c's modes: the writer encrypts, the reader reads the ciphertext.
CipherOut ==
  smode["writer"].mode = "enc" /\ smode["reader"].mode = "pass"

\* The reader's mode undoes the writer's: test2.c's ENC and DEC with one key.
Matching ==
  \/ smode["writer"].mode = "pass" /\ smode["reader"].mode = "pass"
  \/ /\ smode["writer"].mode = "enc" /\ smode["reader"].mode = "dec"
     /\ smode["writer"].key = smode["reader"].key

(***************************************************************************)
(* Steps.                                                                  *)
(***************************************************************************)

\* CRYPTO_IOCCREATE: offsets and count zero, enc_last and dec_last -1; the
\* vmalloc'ed bytes are whatever they are.  Both files in passthrough.
Init ==
  /\ buf \in [0..(N - 1) -> Bits]
  /\ readoff = 0 /\ writeoff = 0 /\ count = 0
  /\ enc_last = -1 /\ dec_last = -1
  /\ smode = [p \in Procs |-> [mode |-> "pass", key |-> 0]]
  /\ wpc = "idle" /\ rpc = "idle"
  /\ wloc = [l |-> 0, wl |-> 0, err |-> FALSE]
  /\ rloc = [l |-> 0, wl |-> 0, err |-> FALSE]
  /\ ret = [p \in Procs |-> "none"]
  /\ started = [p \in Procs |-> FALSE]
  /\ expect = <<>> /\ corrupt = FALSE /\ oob = FALSE
  /\ cprev = -1 /\ ccorrupt = FALSE

\* CRYPTO_IOCSMODE for the direction the file uses, set before it moves
\* any data (test2.c sets the mode before its read and its write).
IoctlSmode(p, m, k) ==
  /\ ~started[p] /\ ~oob
  /\ IF p = "writer" THEN wpc = "idle" ELSE rpc = "idle"
  /\ smode' = [smode EXCEPT ![p] = [mode |-> m, key |-> k]]
  /\ UNCHANGED <<ring, wpc, wloc, rpc, rloc, ret, started, expect, corrupt, cprev, ccorrupt, oob>>

\* device_write up to vmalloc: the full check (count > 0 and
\* writeoff + len >= readoff + BUF_SIZE cuts len to
\* BUF_SIZE - writeoff - readoff), the wrap split, then vmalloc.
Write1(L) ==
  /\ wpc = "idle" /\ ~oob
  /\ ClientChecksSpace => L + count + Reserve <= N
  /\ LET full == count > 0 /\ writeoff + L >= readoff + N
         l0 == IF full THEN N - writeoff - readoff ELSE L
         wrap == writeoff + l0 > N
     IN IF ~Allocates(l0)
          THEN /\ ret' = [ret EXCEPT !["writer"] = "ENOMEM"]
               /\ UNCHANGED <<wpc, wloc>>
          ELSE /\ wpc' = "alloc"
               /\ wloc' = [l |-> IF wrap THEN N - writeoff ELSE l0,
                           wl |-> IF wrap THEN writeoff + l0 - N ELSE 0,
                           err |-> full]
               /\ UNCHANGED ret
  /\ UNCHANGED <<ring, smode, rpc, rloc, started, expect, corrupt, cprev, ccorrupt, oob>>

\* Mutant: count grows by len only, not by len + wraplen.
Write2NoWrapCount ==
  /\ wpc = "alloc"
  /\ \E data \in [1..(wloc.l + wloc.wl) -> Bits] :
       LET cr == Crypt(smode["writer"], data) IN
       /\ buf' = [i \in 0..(N - 1) |->
                    IF i < wloc.wl THEN cr.out[wloc.l + i + 1]
                    ELSE IF writeoff <= i /\ i < writeoff + wloc.l
                      THEN cr.out[i - writeoff + 1] ELSE buf[i]]
       /\ oob' = (wloc.wl > N)
       /\ enc_last' = cr.enc /\ dec_last' = cr.dec
       /\ count' = count + wloc.l
       /\ writeoff' = (writeoff + wloc.l + wloc.wl) % N
       /\ expect' = expect \o data
  /\ started' = [started EXCEPT !["writer"] = TRUE]
  /\ ret' = [ret EXCEPT !["writer"] = IF wloc.err THEN "ENOBUFS" ELSE "ok"]
  /\ wpc' = "idle"
  /\ UNCHANGED <<readoff, smode, wloc, rpc, rloc, corrupt, cprev, ccorrupt>>

\* device_write after vmalloc: copy_from_user, encrypt or decrypt, the two
\* substr calls into the ring (the wrapped part last), count and writeoff.
Write2 ==
  /\ wpc = "alloc"
  /\ \E data \in [1..(wloc.l + wloc.wl) -> Bits] :
       LET cr == Crypt(smode["writer"], data) IN
       /\ buf' = [i \in 0..(N - 1) |->
                    IF i < wloc.wl THEN cr.out[wloc.l + i + 1]
                    ELSE IF writeoff <= i /\ i < writeoff + wloc.l
                      THEN cr.out[i - writeoff + 1] ELSE buf[i]]
       /\ oob' = (wloc.wl > N)
       /\ enc_last' = cr.enc /\ dec_last' = cr.dec
       /\ count' = count + wloc.l + wloc.wl
       /\ writeoff' = (writeoff + wloc.l + wloc.wl) % N
       /\ expect' = expect \o data
  /\ started' = [started EXCEPT !["writer"] = TRUE]
  /\ ret' = [ret EXCEPT !["writer"] = IF wloc.err THEN "ENOBUFS" ELSE "ok"]
  /\ wpc' = "idle"
  /\ UNCHANGED <<readoff, smode, wloc, rpc, rloc, corrupt, cprev, ccorrupt>>

\* device_read up to vmalloc: len is cut to count (and the call will
\* return -ENOBUFS); a read past the end splits with
\* wraplen = (len - BUF_SIZE) - readoff, which is negative (huge) unless
\* count exceeds the ring, so len + wraplen = len - 2 * readoff.
Read1(L) ==
  /\ rpc = "idle" /\ ~oob
  /\ LET err == L > count
         len0 == IF err THEN count ELSE L
         wrap == readoff + len0 > N
         l == IF wrap THEN N - readoff ELSE len0
         wl == IF wrap THEN (len0 - N) - readoff ELSE 0
     IN /\ ReadsWithinEnd => ~wrap
        /\ IF ~Allocates(l + wl)
             THEN /\ ret' = [ret EXCEPT !["reader"] = "ENOMEM"]
                  /\ UNCHANGED <<rpc, rloc>>
             ELSE /\ rpc' = "alloc"
                  /\ rloc' = [l |-> l, wl |-> wl, err |-> err]
                  /\ UNCHANGED ret
  /\ UNCHANGED <<ring, smode, wpc, wloc, started, expect, corrupt, cprev, ccorrupt, oob>>

\* device_read after vmalloc: substr len bytes from readoff into temp, then
\* the wrapped part (nothing when the int wraplen is negative), encrypt or
\* decrypt len + wraplen bytes, copy_to_user of len bytes.  temp holds
\* len + wraplen bytes: a negative wraplen makes the first substr write
\* past it, and a wraplen over BUF_SIZE makes the second read past buf.
Read2 ==
  /\ rpc = "alloc"
  /\ LET l == rloc.l
         wl == rloc.wl
     IN IF wl < 0 \/ wl > N
          THEN /\ oob' = TRUE
               /\ UNCHANGED <<ring, smode, wpc, wloc, rpc, rloc, ret, started,
                              expect, corrupt, cprev, ccorrupt>>
          ELSE LET cr == Crypt(smode["reader"], Slice(readoff, l) \o Slice(0, wl))
                   delivered == SubSeq(cr.out, 1, l)
               IN /\ enc_last' = cr.enc /\ dec_last' = cr.dec
                  /\ corrupt' = (corrupt \/ Len(expect) < l
                                         \/ delivered # SubSeq(expect, 1, l))
                  /\ LET n  == IF Len(expect) < l + wl THEN Len(expect) ELSE l + wl
                         ce == EncryptSeq(SubSeq(expect, 1, n),
                                 IF cprev = -1 THEN smode["writer"].key ELSE cprev)
                     IN /\ ccorrupt' = (ccorrupt \/ Len(expect) < l
                                                 \/ delivered # SubSeq(ce, 1, l))
                        /\ cprev' = IF n = 0 THEN cprev ELSE ce[n]
                  /\ expect' = IF Len(expect) <= l + wl THEN <<>>
                               ELSE SubSeq(expect, l + wl + 1, Len(expect))
                  /\ started' = [started EXCEPT !["reader"] = TRUE]
                  /\ rpc' = "copied"
                  /\ UNCHANGED <<buf, readoff, writeoff, count, smode, wpc, wloc,
                                 rloc, ret, oob>>

\* device_read after copy_to_user: count and readoff move by
\* len + wraplen; -ENOBUFS if len was cut.
Read3 ==
  /\ rpc = "copied"
  /\ count' = count - (rloc.l + rloc.wl)
  /\ readoff' = (readoff + rloc.l + rloc.wl) % N
  /\ ret' = [ret EXCEPT !["reader"] = IF rloc.err THEN "ENOBUFS" ELSE "ok"]
  /\ rpc' = "idle"
  /\ UNCHANGED <<buf, writeoff, enc_last, dec_last, smode, wpc, wloc, rloc,
                 started, expect, corrupt, cprev, ccorrupt, oob>>

Next ==
  \/ \E p \in Procs, m \in Modes, k \in Keys : IoctlSmode(p, m, k)
  \/ \E L \in Lens : Write1(L) \/ Read1(L)
  \/ Write2 \/ Read2 \/ Read3

Spec == Init /\ [][Next]_vars

(***************************************************************************)
(* Properties.                                                             *)
(***************************************************************************)

\* test2.c: "the device should yield the plaintext that was originally
\* written": with matching modes, each read(2) hands the reader the next
\* bytes the writer wrote, across the sleeps of both calls and the wrap of
\* the ring, and through the decrypt chain's use of buf[dec_last].
RoundTrip == Matching => ~corrupt

\* count is the number of unread bytes: at most BUF_SIZE, and it is the
\* distance from readoff to writeoff.  Writes cut to the free space and
\* the read and write updates of count, readoff and writeoff keep it so.
CountWithinBuffer ==
  /\ count \in 0..N
  /\ (readoff + count) % N = writeoff

\* test1.c: the writer encrypts and the reader "should then read back the
\* encrypted ciphertext": the bytes read are the plaintext written,
\* encrypted as one chain from the key, each byte XORed with the ciphertext
\* byte before it, across separate writes, the wrap of the ring and reads
\* that interleave with the writes.  It is about encrypt chaining from
\* buf[enc_last] and enc_last following the writer around the ring.
CipherStream == CipherOut => ~ccorrupt

\* substr never touches memory outside temp or the ring.
NoOutOfBounds == ~oob
=============================================================================
