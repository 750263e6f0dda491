------------------------------ MODULE MC_ImFile ------------------------------
EXTENDS ImFile

\* Write lengths: short ones stay inline and leave a NUL, exactly D fills
\* i_data with no NUL (an echo of 59 characters and its newline), D + 1
\* converts.
WriteLensShort == {1, 2, D - 1, D + 1}
WriteLensAll == 1 .. D + 1

\* Text bytes other than the key (Key = 1), and the same with the key,
\* which /encrypt stores as 0.
TextOf(bytes, lens) == UNION {[1 .. n -> bytes] : n \in lens}
MCTexts == TextOf({2, 3}, WriteLensShort)
MCTextsWithKey == TextOf({1, 2}, WriteLensAll)

\* Bound on file size and offsets once writes may land past the end.
MaxSize == 2 * (D + 1)
FileBound ==
    /\ Len(reg) <= MaxSize /\ Len(content) <= MaxSize
    /\ \A f \in Files : pos[f] <= MaxSize /\ apos[f] <= MaxSize
\* The inode and the files without the POSIX ghosts, which neither
\* InodeIntact nor TempFits reads.
InodeView == <<im, data, blocks, reg, pos, pc, txt, asize, wrote, corrupt,
               overrun>>
=============================================================================
