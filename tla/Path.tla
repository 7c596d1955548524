-------------------------------- MODULE Path --------------------------------
(***************************************************************************)
(* path.c: from the name of an attachment to the path file_write opens.    *)
(* munge_fname splits the name, escapes what a file name should not hold   *)
(* and joins the pieces; file_write puts the output directory before.      *)
(* A character is known by the classes path.c tells apart.                 *)
(***************************************************************************)
EXTENDS Naturals, Sequences

CONSTANTS
  Char,
  Slash, Backslash, Percent,
  Control,      \* iscntrl
  Unsanitary,   \* unsanitary_windows_chars
  NonAscii,     \* not isascii
  Unsavory,     \* unsavory_unix_chars
  Hi, Lo,       \* the two hexadecimal digits of a character
  Slop,         \* SLOP, room for the terminating NUL
  Names,        \* the names attachments may have
  Directories,  \* what --directory may be, NULL when it is not given
  DefaultName,  \* TNEF_DEFAULT_FILENAME
  AllocLimit,   \* --maxsize, 0 for none
  NULL

Forbidden == Control \cup Unsanitary \cup NonAscii \cup Unsavory

ASSUME PathAssumption ==
  /\ {Slash, Backslash} \subseteq Unsanitary
  /\ Percent \in Char /\ Forbidden \subseteq Char
  /\ Percent \notin Forbidden
  /\ Hi \in [Char -> Char \ Forbidden] /\ Lo \in [Char -> Char \ Forbidden]
  /\ \A c, d \in Char : Hi[c] = Hi[d] /\ Lo[c] = Lo[d] => c = d
  /\ Slop \in Nat \ {0} /\ AllocLimit \in Nat
  /\ Names \subseteq Seq(Char)
  /\ Directories \subseteq Seq(Char) \cup {NULL}
  /\ NULL \notin Seq(Char)
  /\ DefaultName \in Seq(Char) \ {<<>>}
  /\ \A i \in DOMAIN DefaultName : DefaultName[i] # Slash

VARIABLES
  pc,         \* "split", "strip", "sanitize", "place", "done" or "fail"
  flags,      \* --use-paths, --unix-paths, --allow-absolute-paths
  directory,
  fname,      \* the name of the attachment
  dir, base,  \* its two parts
  cp,         \* characters of base sanitized
  buf,        \* what they became
  path        \* what munge_fname returns, then the path opened

vars == <<pc, flags, directory, fname, dir, base, cp, buf, path>>

Str == Seq(Char)

(* An empty directory part is NULL. *)
TypeOK ==
  /\ pc \in {"split", "strip", "sanitize", "place", "done", "fail"}
  /\ flags \in [usePaths : BOOLEAN, unixFs : BOOLEAN, absoluteOk : BOOLEAN]
  /\ directory \in Directories
  /\ fname \in Names
  /\ dir \in Str \cup {NULL} /\ (pc # "strip" => dir # <<>>)
  /\ base \in Str /\ buf \in Str
  /\ cp \in 0 .. Len(base)
  /\ path \in Str \cup {NULL}

Init ==
  /\ pc = "split"
  /\ flags \in [usePaths : BOOLEAN, unixFs : BOOLEAN, absoluteOk : BOOLEAN]
  /\ directory \in Directories
  /\ fname \in Names
  /\ dir = NULL /\ base = <<>>
  /\ cp = 0 /\ buf = <<>>
  /\ path = NULL

Fits(size) == AllocLimit = 0 \/ size <= AllocLimit

(* Without its trailing slashes. *)
Trim(s) ==
  SubSeq(s, 1, CHOOSE n \in 0 .. Len(s) :
                 /\ \A j \in n + 1 .. Len(s) : s[j] = Slash
                 /\ n > 0 => s[n] # Slash)

concat_fname(fname1, fname2) ==
  LET Ends  == fname1[Len(fname1)] = Slash
      Opens == fname2 # <<>> /\ fname2[1] = Slash
      whole == IF fname1 \in {NULL, <<>>} THEN fname2
               ELSE IF Ends \/ Opens THEN fname1 \o fname2
               ELSE fname1 \o <<Slash>> \o fname2
  IN  IF Trim(whole) = <<>> THEN NULL ELSE Trim(whole)

(* The allocation of concat_fname, made when there is a first part. *)
ConcatFits(fname1, fname2) ==
  fname1 \notin {NULL, <<>>} => Fits(Len(fname1) + Len(fname2) + 2)

(* Mutant: a trailing backslash is a path separator like any other. *)
could_be_a_windows_path_MutTrailing(f) ==
  /\ \E i \in DOMAIN f : f[i] = Backslash
  /\ \A i \in DOMAIN f : f[i] \notin Control \cup (Unsanitary \ {Backslash})

could_be_a_windows_path(f) ==
  /\ \E i \in DOMAIN f : f[i] = Backslash
  /\ f[Len(f)] # Backslash
  /\ \A i \in DOMAIN f : f[i] \notin Control \cup (Unsanitary \ {Backslash})

-----------------------------------------------------------------------------
(* munge_fname *)

GiveUp ==
  /\ pc = "split" /\ fname = <<>>
  /\ pc' = "place"
  /\ UNCHANGED <<flags, directory, fname, dir, base, cp, buf, path>>

SplitBase ==
  /\ pc = "split" /\ fname # <<>>
  /\ ~(flags.usePaths /\ could_be_a_windows_path(fname))
  /\ base' = fname
  /\ pc' = "sanitize"
  /\ UNCHANGED <<flags, directory, fname, dir, cp, buf, path>>

(* Mutant: an absolute path is taken as it is. *)
SplitPath_MutAbsolute ==
  /\ pc = "split" /\ fname # <<>>
  /\ flags.usePaths /\ could_be_a_windows_path(fname)
  /\ \E k \in DOMAIN fname :
       /\ fname[k] = Backslash
       /\ \A j \in k + 1 .. Len(fname) : fname[j] # Backslash
       /\ dir' = [i \in 1 .. k |-> IF fname[i] = Backslash THEN Slash ELSE fname[i]]
       /\ base' = SubSeq(fname, k + 1, Len(fname))
       /\ pc' = "sanitize"
  /\ UNCHANGED <<flags, directory, fname, cp, buf, path>>

(* The name is split after its last backslash, the separators flipped. *)
SplitPath ==
  /\ pc = "split" /\ fname # <<>>
  /\ flags.usePaths /\ could_be_a_windows_path(fname)
  /\ \E k \in DOMAIN fname :
       /\ fname[k] = Backslash
       /\ \A j \in k + 1 .. Len(fname) : fname[j] # Backslash
       /\ dir' = [i \in 1 .. k |-> IF fname[i] = Backslash THEN Slash ELSE fname[i]]
       /\ base' = SubSeq(fname, k + 1, Len(fname))
       /\ pc' = IF dir'[1] = Slash /\ ~flags.absoluteOk
                THEN "strip" ELSE "sanitize"
  /\ UNCHANGED <<flags, directory, fname, cp, buf, path>>

Strip ==
  /\ pc = "strip"
  /\ \/ /\ dir # <<>> /\ dir[1] = Slash
        /\ dir' = Tail(dir)
        /\ UNCHANGED pc
     \/ /\ dir # <<>> => dir[1] # Slash
        /\ dir' = IF dir = <<>> THEN NULL ELSE dir
        /\ pc' = "sanitize"
  /\ UNCHANGED <<flags, directory, fname, base, cp, buf, path>>

(* Mutant: the escape character is kept as it is. *)
Escaped_MutNoPercent(c) ==
  \/ c \in Control \cup Unsanitary
  \/ flags.unixFs /\ c \in NonAscii \cup Unsavory

(* Mutant: separators are left to the split. *)
Escaped_MutSlash(c) ==
  \/ c \in Control \cup (Unsanitary \ {Slash}) \cup {Percent}
  \/ flags.unixFs /\ c \in NonAscii \cup Unsavory

Escaped(c) ==
  \/ c \in Control \cup Unsanitary \cup {Percent}
  \/ flags.unixFs /\ c \in NonAscii \cup Unsavory

(* Mutant: two characters for each of the name. *)
Capacity_MutTwo == 2 * Len(base) + Slop

(* The length of sanitize_filename's buffer. *)
Capacity == 3 * Len(base) + Slop

Sanitize ==
  /\ pc = "sanitize" /\ cp < Len(base) /\ Fits(Capacity)
  /\ LET c == base[cp + 1] IN
       buf' = buf \o (IF Escaped(c) THEN <<Percent, Hi[c], Lo[c]>> ELSE <<c>>)
  /\ cp' = cp + 1
  /\ UNCHANGED <<pc, flags, directory, fname, dir, base, path>>

Join ==
  /\ pc = "sanitize" /\ cp = Len(base) /\ ConcatFits(dir, buf)
  /\ path' = concat_fname(dir, buf)
  /\ pc' = "place"
  /\ UNCHANGED <<flags, directory, fname, dir, base, cp, buf>>

(* file_write: the default name where there is none, then the directory. *)
Local == IF path = NULL THEN DefaultName ELSE path

Place ==
  /\ pc = "place" /\ ConcatFits(directory, Local)
  /\ path' = IF concat_fname(directory, Local) = NULL
             THEN DefaultName ELSE concat_fname(directory, Local)
  /\ pc' = "done"
  /\ UNCHANGED <<flags, directory, fname, dir, base, cp, buf>>

OverLimit ==
  /\ \/ pc = "sanitize" /\ cp = 0 /\ ~Fits(Capacity)
     \/ pc = "sanitize" /\ cp = Len(base) /\ ~ConcatFits(dir, buf)
     \/ pc = "place" /\ ~ConcatFits(directory, Local)
  /\ pc' = "fail"
  /\ UNCHANGED <<flags, directory, fname, dir, base, cp, buf, path>>

Next == GiveUp \/ SplitBase \/ SplitPath \/ Strip \/ Sanitize \/ Join \/ Place
          \/ OverLimit

Spec == Init /\ [][Next]_vars

-----------------------------------------------------------------------------
(* Properties *)

(* sanitize_filename stays within its buffer, the NUL included. *)
BufferFits == Len(buf) + 1 <= Capacity

(* What is made of the last part of a name holds no separator, no control  *)
(* character and nothing else the options promise to escape; without       *)
(* --use-paths that is the whole of what is put behind the directory.      *)
Sanitary ==
  /\ \A i \in DOMAIN buf :
       /\ buf[i] \notin Control \cup Unsanitary
       /\ flags.unixFs => buf[i] \notin NonAscii \cup Unsavory
  /\ pc = "place" /\ path # NULL /\ ~flags.usePaths => path = buf

(* Where the part of the path behind the output directory begins: at 1     *)
(* when there is none, else behind the slash at its end or put there.      *)
AfterDirectory ==
  IF directory \in {NULL, <<>>} THEN 1
  ELSE IF directory[Len(directory)] = Slash THEN Len(directory) + 1
  ELSE Len(directory) + 2

(* The path opened begins with the output directory, or is relative when   *)
(* there is none, unless absolute paths are allowed.  Without --use-paths  *)
(* a single name follows the directory, whatever separators the attachment *)
(* has in its own.  With --use-paths the directory part of that name comes *)
(* between, its ".." included: such a path begins with the directory and   *)
(* may yet lead out of it.                                                 *)
BeginsWithDirectory ==
  pc = "done" =>
    /\ IF directory \in {NULL, <<>>}
       THEN flags.absoluteOk \/ path[1] # Slash
       ELSE LET n == Len(directory) IN
            /\ Len(path) > n
            /\ SubSeq(path, 1, n) = directory
            /\ directory[n] = Slash \/ path[n + 1] = Slash
    /\ flags.usePaths \/ \A i \in AfterDirectory .. Len(path) : path[i] # Slash

(* Only the empty name is given the default name. *)
NamedUnlessEmpty == pc = "place" => (path = NULL <=> fname = <<>>)

(* What an escaped text stands for. *)
Decoded(s) ==
  LET escaped(i) ==
        {c \in Char : /\ s[i] = Percent /\ i + 2 <= Len(s)
                      /\ s[i + 1] = Hi[c] /\ s[i + 2] = Lo[c]}
      from[i \in 1 .. Len(s) + 3] ==
        IF i > Len(s) THEN <<>>
        ELSE IF escaped(i) = {} THEN <<s[i]>> \o from[i + 1]
        ELSE <<CHOOSE c \in escaped(i) : TRUE>> \o from[i + 3]
  IN  from[1]

(* Escaping loses nothing: the name can be read off what it becomes, so    *)
(* without --use-paths two attachments share a path only if they have the  *)
(* same name, or one has none and the other is called like the default.    *)
Reversible == Decoded(buf) = SubSeq(base, 1, cp)
=============================================================================
