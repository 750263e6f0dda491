------------------------------- MODULE Shell -------------------------------
(***************************************************************************)
(* The line-oriented shell of src/a0/shell.c: the read loop of main,       *)
(* parseline and clear, and the built-ins ls, cp and rm, on a small file   *)
(* tree.                                                                   *)
(*                                                                         *)
(* The shell is one sequential process.  A loop iteration of main is one   *)
(* step, with ls and rm inside it; cp's read/write loop is a step per      *)
(* read(2) and per write(2), since short writes are what that loop is for. *)
(*                                                                         *)
(* Input is a sequence of lines, each abstracted to its command word, its  *)
(* argument paths, whether it ends in a newline and whether it is longer   *)
(* than fgets' MAX_CHAR - 1 bytes.  Output wording is left out.  A system  *)
(* call that the file tree cannot refuse may still fail when IoErrors      *)
(* holds (EMFILE, EIO, ENOSPC, ...).  fds counts descriptors left open.    *)
(***************************************************************************)
EXTENDS Integers, Sequences

CONSTANTS
    Paths,      \* names in the tree
    ParentOf,   \* ParentOf[p]: the directory holding p, or Root
    Root,
    NoArg,      \* an argument buffer holding no existing path
    Cmds,       \* command words: "ls", "cp", "rm", "" and others
    Inputs,     \* the possible inputs: sequences of lines
    InitKinds,  \* the possible initial trees: [Paths -> kind]
    InitData,   \* and their file contents
    CountInit,  \* values the uninitialised int count may hold
    Buf,        \* BUF_SIZE
    IoErrors    \* calls may fail for reasons the tree does not show

Kinds == {"none", "reg", "dir"}

VARIABLES
    input,     \* what stdin has not delivered yet
    eof,       \* stdin's end-of-file indicator
    line,      \* main's line buffer: the last line fgets stored, or Uninit
    count,     \* main's count
    kind,      \* the tree: kind of each path
    data,      \* and the bytes of each regular file
    pc,        \* "loop", "cp" (inside cp's copy loop) or "exit"
    cp,        \* cp's locals: src, dest, read offset, bytes read not written
    fds,       \* descriptors opened and not closed
    cpsrc,     \* ghost: the source bytes when cp opened its files
    cpbad      \* ghost: a cp returned with a wrong copy

vars == <<input, eof, line, count, kind, data, pc, cp, fds, cpsrc, cpbad>>

\* parseline: tokens of the line; clear: count back to zero.
Words(l) == IF l.cmd = "" THEN 0 ELSE 1 + Len(l.args)
Arg(l, i) == IF i <= Len(l.args) THEN l.args[i] ELSE NoArg

Exists(p) == p # NoArg /\ kind[p] # "none"
Entries(d) == {p \in Paths : ParentOf[p] = d /\ kind[p] # "none"}
CanCreate(p) == p # NoArg /\ (ParentOf[p] = Root \/ kind[ParentOf[p]] = "dir")

\* The line buffer before the first fgets stores anything in it.
Uninit == [cmd |-> "uninit", args |-> <<>>, nl |-> FALSE, long |-> FALSE]

\* A call the tree allows fails anyway.
Fails == IF IoErrors THEN BOOLEAN ELSE {FALSE}

Init ==
    /\ input \in Inputs
    /\ eof = FALSE
    /\ line = Uninit
    /\ count \in CountInit
    /\ kind \in InitKinds
    /\ data \in InitData
    /\ pc = "loop"
    /\ cp = [src |-> NoArg, dest |-> NoArg, off |-> 0, pend |-> <<>>]
    /\ fds = 0
    /\ cpsrc = <<>> /\ cpbad = FALSE

(***************************************************************************)
(* ls(count, arg): lists a file or a directory and changes no file.  A     *)
(* getdents or per-entry lstat failure returns without close(fd).  The     *)
(* result is the set of possible descriptor counts afterwards.             *)
(***************************************************************************)
Ls(c, arg) ==
    IF c > 2 \/ (c > 1 /\ (~Exists(arg) \/ kind[arg] # "dir"))
    THEN {fds}
    ELSE {fds} \cup (IF IoErrors THEN {fds + 1} ELSE {})

(***************************************************************************)
(* rm(count, filedir): unlink a file; for a directory unlink each entry    *)
(* of one getdents batch, in an order the file system chooses, then        *)
(* rmdir.  unlink of a sub-directory fails.  Every error return after      *)
(* open leaves the descriptor open.  The result is the set of possible     *)
(* [tree, descriptor count] outcomes.                                      *)
(***************************************************************************)
RmOutcomes(c, p) ==
    LET regs    == {e \in Entries(p) : kind[e] = "reg"}
        gone(S) == [q \in Paths |-> IF q \in S THEN "none" ELSE kind[q]]
        failed  == {[k |-> gone(S), fds |-> fds + 1] : S \in SUBSET regs}
    IN  IF c # 2 \/ ~Exists(p) THEN {[k |-> kind, fds |-> fds]}
        ELSE IF kind[p] = "reg"
        THEN {[k |-> gone({p}), fds |-> fds]}
             \cup (IF IoErrors THEN {[k |-> kind, fds |-> fds]} \cup failed
                   ELSE {})
        ELSE IF regs = Entries(p)
        THEN {[k |-> gone(regs \cup {p}), fds |-> fds]}
             \cup (IF IoErrors THEN {[k |-> kind, fds |-> fds]} \cup failed
                   ELSE {})
        ELSE failed

(***************************************************************************)
(* cp(count, src, dest) up to its copy loop: open src, lstat, the regular  *)
(* file check, open dest with O_CREAT | O_TRUNC.  The returns after the    *)
(* first open leave src's descriptor open.                                 *)
(***************************************************************************)
CpOpen(src, dest) ==
    LET srcOk  == Exists(src)
        regOk  == srcOk /\ kind[src] = "reg"
        destOk == CanCreate(dest) /\ kind[dest] # "dir"
    IN  \E fail \in Fails :
          IF ~srcOk \/ fail
          THEN /\ count' = 0
               /\ UNCHANGED <<kind, data, pc, cp, fds, cpsrc>>
          ELSE IF ~regOk \/ ~destOk
          THEN /\ fds' = fds + 1
               /\ count' = 0
               /\ UNCHANGED <<kind, data, pc, cp, cpsrc>>
          ELSE /\ kind' = [kind EXCEPT ![dest] = "reg"]
               /\ data' = [data EXCEPT ![dest] = <<>>]
               /\ fds' = fds + 2
               /\ cp' = [src |-> src, dest |-> dest, off |-> 0, pend |-> <<>>]
               /\ cpsrc' = data[src]
               /\ pc' = "cp"
               /\ UNCHANGED count

\* main dispatches the parsed line l with the counted words c, then clear.
\* The empty command continues without clear.
Dispatch(l, c) ==
    \/ /\ l.cmd = "cp" /\ c = 3
       /\ CpOpen(Arg(l, 1), Arg(l, 2))
    \/ /\ l.cmd = "ls"
       /\ fds' \in Ls(c, Arg(l, 1))
       /\ count' = 0
       /\ UNCHANGED <<kind, data, pc, cp, cpsrc>>
    \/ /\ l.cmd = "rm"
       /\ \E o \in RmOutcomes(c, Arg(l, 1)) : kind' = o.k /\ fds' = o.fds
       /\ count' = 0
       /\ UNCHANGED <<data, pc, cp, cpsrc>>
    \/ /\ l.cmd = "" /\ count' = c
       /\ UNCHANGED <<kind, data, pc, cp, fds, cpsrc>>
    \/ /\ \/ l.cmd \notin {"cp", "ls", "rm", ""}
          \/ l.cmd = "cp" /\ c # 3
       /\ count' = 0
       /\ UNCHANGED <<kind, data, pc, cp, fds, cpsrc>>

Loop ==
    /\ pc = "loop"
    /\ IF eof
       THEN /\ pc' = "exit"
            /\ UNCHANGED <<input, eof, line, count, kind, data, cp, fds, cpsrc>>
       ELSE IF input # <<>>
       THEN LET l == Head(input) IN
            /\ input' = Tail(input)
            /\ eof' = ~l.nl
            /\ line' = l
            /\ IF l.long
               THEN UNCHANGED <<count, kind, data, pc, cp, fds, cpsrc>>
               ELSE Dispatch(l, count + Words(l))
       ELSE /\ line # Uninit
            /\ eof' = TRUE
            /\ Dispatch(line, count + Words(line))
            /\ UNCHANGED <<input, line>>
    /\ UNCHANGED cpbad

(***************************************************************************)
(* cp's copy loop.  read(sfd, buffer, BUF_SIZE); at 0 both files are       *)
(* closed.  Then write(dfd, bufferptr, numread) until numread is 0, each   *)
(* write taking what it can.  A failed read or write returns with both     *)
(* descriptors open.                                                       *)
(***************************************************************************)
CpRead ==
    LET rest == Len(data[cp.src]) - cp.off
        n    == IF rest < Buf THEN rest ELSE Buf
    IN  /\ pc = "cp" /\ cp.pend = <<>>
        /\ \E fail \in Fails :
             IF fail
             THEN /\ pc' = "loop" /\ count' = 0
                  /\ UNCHANGED <<fds, cp, cpbad>>
             ELSE IF n <= 0
             THEN /\ pc' = "loop" /\ count' = 0
                  /\ fds' = fds - 2
                  /\ cpbad' = (cpbad \/ data[cp.dest] # cpsrc)
                  /\ UNCHANGED cp
             ELSE /\ cp' = [cp EXCEPT !.off = @ + n,
                               !.pend = SubSeq(data[cp.src], cp.off + 1,
                                               cp.off + n)]
                  /\ UNCHANGED <<pc, count, fds, cpbad>>
        /\ UNCHANGED <<input, eof, line, kind, data, cpsrc>>

\* Mutant: bufferptr is not advanced after a short write.
CpWriteNoAdvance ==
    /\ pc = "cp" /\ cp.pend # <<>>
    /\ \E fail \in Fails :
         IF fail
         THEN /\ pc' = "loop" /\ count' = 0
              /\ UNCHANGED <<data, cp>>
         ELSE \E k \in (IF IoErrors THEN 1 .. Len(cp.pend)
                        ELSE {Len(cp.pend)}) :
              /\ data' = [data EXCEPT ![cp.dest] =
                             @ \o SubSeq(cp.pend, 1, k)]
              /\ cp' = [cp EXCEPT !.pend = SubSeq(@, 1, Len(@) - k)]
              /\ UNCHANGED <<pc, count>>
    /\ UNCHANGED <<input, eof, line, kind, fds, cpsrc, cpbad>>

\* dfd's offset is the end of dest, which O_TRUNC emptied.
CpWrite ==
    /\ pc = "cp" /\ cp.pend # <<>>
    /\ \E fail \in Fails :
         IF fail
         THEN /\ pc' = "loop" /\ count' = 0
              /\ UNCHANGED <<data, cp>>
         ELSE \E k \in (IF IoErrors THEN 1 .. Len(cp.pend)
                        ELSE {Len(cp.pend)}) :
              /\ data' = [data EXCEPT ![cp.dest] =
                             @ \o SubSeq(cp.pend, 1, k)]
              /\ cp' = [cp EXCEPT !.pend = SubSeq(@, k + 1, Len(@))]
              /\ UNCHANGED <<pc, count>>
    /\ UNCHANGED <<input, eof, line, kind, fds, cpsrc, cpbad>>

Next == Loop \/ CpRead \/ CpWrite

Spec == Init /\ [][Next]_vars

\* The shell is one process: while it can take a step the scheduler runs it,
\* and every system call it makes returns.
FairSpec == Spec /\ WF_vars(Next)

-----------------------------------------------------------------------------

TypeOK ==
    /\ eof \in BOOLEAN
    /\ kind \in [Paths -> Kinds]
    /\ data \in [Paths -> Seq(Nat)]
    /\ pc \in {"loop", "cp", "exit"}
    /\ fds \in Nat
    /\ cpbad \in BOOLEAN

\* cp copies: when cp's loop reaches the end of the source and closes both
\* files, the destination holds the bytes the source held when cp opened
\* it, whatever short writes the loop met.
CpCopies == ~cpbad

====
