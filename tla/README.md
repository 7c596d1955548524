# A verification of tnef in TLA+

`tnef` (src/src) unpacks a TNEF stream, the `winmail.dat` that Outlook
attaches to mail: it reads a file of attributes once, front to back, and writes
the attachments and, if asked, the message bodies into a directory. It is one
sequential C program. What is hard about it is state
that lives across a long, untrusted sequence of attributes (one `File` object
used for all attachments, three lists of bodies), exits and asserts in the
middle of it, names that collide in a directory other files live in and other
runs write into, walks over nested counts and lengths that come from the
stream, and a decompressor with a circular dictionary.

## The system

| Part | Source | State | Operations | What makes it correct |
|---|---|---|---|---|
| Extraction | `tnef.c` | the current `File`, `MessageBody`, the loop counters of the body section | `parse_file`, `get_body_files`, `get_text_data`, `get_html_data`, `data_left` | attachments are written in order, each with its own fields; bodies follow `--body-pref`; the run ends |
| File objects | `file.c` | name, path, data, date, MIME type, content id | `file_add_attr`, `file_add_mapi_attrs`, `file_write`, `file_free` | nothing is left over from the attachment before; the last assignment wins |
| Output directory | `file.c`, `path.c` | the files that exist | `file_exists`, `find_free_number`, `fopen`, `fwrite` | nothing is overwritten without `--overwrite`; `--number-backups` keeps everything; what other runs do at the same time loses nothing but in the window between `stat` and `fopen` |
| RTF | `rtf.c` | dictionary, offsets, counters | `get_rtf_data`, `decompress_rtf_data` | no overrun of either buffer; the output is what the stream means; the loop ends |
| Attribute stream | `attr.c` | file position | `attr_read`, `check_checksum`, `copy_date_from_attr` | a bad checksum or a short attribute ends the run; what is handed over is what was read; a good end leaves less than the shortest attribute undecoded |
| MAPI parser | `mapi_attr.c` | index into the buffer | `mapi_attr_read` | never reads past the buffer, fills the array of values from the first slot on, does no more work than there are bytes |
| Paths | `path.c` | none | `munge_fname`, `sanitize_filename`, `concat_fname` | a path begins with the output directory and, without `--use-paths`, one name follows it; different names lead to different paths |
| Allocation | `alloc.c` | `alloc_limit` | `checked_xmalloc`, `checked_xcalloc` | no allocation above `--maxsize`, no overflow of a product |
| UTF-16, byte order | `util.c` | none | `unicode_to_utf8`, `GETINT*`, `getbuf` | the text is the same, the buffer large enough |
| Command line | `main.c`, `options.c` | `g_flags` and four settings | `parse_cmdline`, `validate_body_pref` | each option sets what it says |
| Dates | `date.c` | none | `date_read`, `date_to_str` | |
| Debug output, name tables, vendored code | `debug.c`, `write.c`, `*.data`, `replace/` | none | | not modelled |

How they interact: `main` folds the command line into flags and calls
`parse_file` once. `parse_file` calls `attr_read` for each attribute, passes
attachment attributes to `file_add_attr`, message attributes to its own lists
(by way of `mapi_attr_read` and `get_rtf_data`), and calls `file_write`
whenever an attachment is complete. All share `g_flags` and the allocation
limit, which never change after `main`. Any of them may `exit` or `assert`;
nothing is cleaned up then, and the files written so far stay.

The hard behaviours, each with its line, are the "hazards" of PROJECT.json.

## The modules

```
OutputDir       the directory and file_write, an abstract specification (DirSpec)
  Extract         parse_file, file.c's object, the outcomes of attr.c, mapi_attr.c
    ExtractProps    what the user is owed, from the attributes read
      MCExtract       small instances (four .cfg files)
      ExtractProofs   theorems of all three, among them Extract => DirSpec
FileWrite       file_write call by call, several runs in one directory
  FileWriteAtomic   a run that is alone implements OutputDir
    MCFileWrite       a small instance
    FileWriteProofs   theorems of FileWrite, and of a lone run => DirSpec
Alloc           the outcomes of an allocation (alloc.c)
  Mapi            mapi_attr_read and unicode_to_utf8
    MCMapi          small instances (two .cfg files)
    MapiProofs      theorems of Mapi
  AttrStream      data_left, read_object, attr_read, attr_dump
    MCAttrStream    a small instance
    AttrStreamProofs  theorems of AttrStream
Lz              the meaning of a compressed stream (LzSpec)
Rtf             rtf.c
  MCRtf           a small instance
  RtfProofs       theorems of Rtf, among them Rtf => LzSpec
Path            munge_fname and what file_write makes of its result
  MCPath          a small instance
  PathProofs      theorems of Path
Cmdline         parse_cmdline and main's tests before parse_file
  MCCmdline       small instances (two .cfg files)
  CmdlineProofs   theorems of Cmdline
DataInduction   what FlattenSeq and FoldSeq compute, for every sequence;
                what Max takes, for every bounded set
```

The three stages of a run follow each other: `Cmdline` ends where `Extract`
begins, and its `PrefUsable` is what `ExtractAssumption` says of a preference.
`Path` is what happens inside one `file_write`: `OutputDir`'s constant `Munge`
stands for the whole of it, as a function of the name. `Rtf` is one call of
`get_rtf_data`, of which `Extract` knows the result, `RtfDecode`. `AttrStream`
is what `Extract` calls reading an attribute: where one begins and ends, and when
it is `Accepted`. `Mapi` is one call of `mapi_attr_read`, of which `Extract` knows
whether it returns a list. `FileWrite` opens up the one step that `file_write`
is in `OutputDir`.

Operators bear the names of the C functions they model; an operator ending in
`_Mut...` is the definition that follows it with a bug put in. The properties
are run against each of them to see that they notice.

**OutputDir.** `fs` maps each existing path to its content, and `log` is a
history of the calls of `file_write` that came to an end. `file_write` is one
step with nine outcomes, one operator each: the path exceeds `--maxsize`; it lists the file, or aborts in
the date it should list; the user declines it; it refuses because the file
exists; it stores the file at the path or at its first free number; the number
does not fit the buffer of `find_free_number`; the path cannot be opened; the
disk is full. The last is torn twice over: a short `fwrite` exits, but what
stdio buffers is lost in `fclose`, whose result is ignored. `Munge` (the
sanitised path of a name) and `Numbered` (`p.n`) are constants, and nothing is
assumed of them beyond their range: two names may lead to one path, and a
name may lead to the numbered path of another.

**Extract.** One action per step of `parse_file`: the signature, each kind of
attribute, each MAPI property of an attribute, the last attachment, each turn
of the loops over body kinds and files. An attribute is a record of level,
name, length, whether its checksum holds, and a value from the range its name
allows; a property list is a sequence of named and typed values, or one the
parser asserts against or does not know. What C leaves undefined is a choice:
the character behind a short `body_pref`, the name and the MIME type of a
second body of a kind (freed with the first), whether the second `free` is
noticed. Whether an intermediate allocation exceeds `--maxsize` is a choice
too, where its size is not in the model.

**ExtractProps** states what the run owes without the variables of the code:
the attributes of an attachment are found by position in `input`, the files by
position in `log`.

**Rtf** follows `decompress_rtf_data` a token or, in a reference, a byte at a
time; compressed bytes are chosen when they are read, so every stream is
covered. **Lz** is what the format means: bytes, and repeats from a fixed
distance back, over the infinite past of zeros and the preset text. The
refinement mapping takes `roff` to its distance behind `woff`. This states
precisely what a circular dictionary is for, and would fail for a wrap in the
wrong place or a reference that overtakes its source.

**Path** takes a name through `munge_fname` and `file_write`'s join, a
character of the last part at a time. Characters are known by the classes
the code tells apart (separators, control, unsanitary for Windows, unsavory for
Unix, not ASCII, the escape); an escape is the percent sign and two digits,
`Hi` and `Lo`. Strings are sequences, and the allocations are measured against
the limit where the code asks for them.

**FileWrite** takes `file_write` through the calls of the C library it makes:
the user's answer, `stat`, one `stat` for each round of `find_free_number`, `fopen`,
a write for each block, `fclose`. Several runs do this at once; `dir` is shared,
all else is local to a run. A run that has its file open writes at its
own offset, so that a file another run truncates meanwhile gets a hole. A run may
be killed between any two calls, and what it has written stays. `--list` and
`--maxsize` are left out, since neither opens more files, and so is
the file's way to its path (`Path`). `contended` collects the paths
opened while another run had found them free: the window in which the code can
be wrong. **FileWriteAtomic** maps a run to `OutputDir`: the directory with the
file being written as it was before, a torn file as `Torn`, a killed run as
failed. The mapping is indexed by the run.

**Alloc** gives for each allocator the set of outcomes: `"ok"`, `"exit"` for the
limit, `"abort"`, and `"null"`, which only `xcalloc` returns. `MayRunOut` says
whether memory may run out. The order of the tests is the code's: the limit is
compared before the extra byte for a NUL is added.

**Mapi** walks the buffer as `mapi_attr_read` does. What matters of the buffer are the
counts, lengths and types, chosen as they are read; `idx`, the cursor, moves
as in the code, padding included, and may pass the end. `access` is what the last
step read of the buffer. A property starts with type and name, may have a GUID and
names, then a count and values; `v`, the pointer to the slot of the next value,
is advanced by some of the cases only. `unicode_to_utf8` goes a unit at a
time, with the room its `malloc` gave it. Sums of an index and a 32-bit length are
taken as those of a 64-bit `size_t`, which do not wrap; the 32-bit build is not
claimed. With `--debug` each value is followed by `mapi_attr_dump`, which is
not modelled.

**AttrStream** reads the input in units: level, name, type, length and checksum
take one each, the data one per byte. Its end is known
(`size`), its bytes are chosen as they are read and kept in `bytes`. `data_left`
distinguishes the standard input (never asked), a file, and a name that cannot be
seeked, for which `st_size - ftell` is 1. An attribute is allocated, read, summed,
with `--debug` dumped, and handed over. A dump first demands what its type
asserts (`Demands`), then reads the spans of the buffer in `Reads`.

**Cmdline** folds the words of a command line into the flags and settings. A
word is an option with its argument, as `getopt_long` returns it, or an operand,
which `getopt_long` moves behind the options (the environment variable
`POSIXLY_CORRECT`, which turns this off, is taken as unset). How many
values an `int32` and a `size_t` have are constants.

## What the runs check

| Run | Instance | Properties |
|---|---|---|
| `names` | 5 attributes out of RENDDATA, two titles, two contents; 4 directories; 8 command lines; full disk | `NoClobber`, `NumberedKeepsAll`, `DirExplained`, `AttachmentsInOrder` |
| `stream` | 4 attributes out of 20: every field, wrong types, checksum, sizes, dates, bodies of every kind; 10 command lines | `AttachmentsInOrder`, `BodiesFollowPreference`, `OnlyForward`, `Terminates` |
| `file_write` | 2 runs, 3 settings each, 3 lists of files of 0 to 2 blocks; 2 directories; a kill anywhere | `IntactUnlessContended`, `OldFilesKept`, `NoRunThrownBack`, `EveryRunEnds`, `LoneRunIsAtomic` |
| `mapi` | buffers up to 52 bytes; counts 0, 1, 2, 200, 255; a word of 8 bits; limits; memory that runs out | `TypeOK`, `ReadsInBuffer`, `Utf8Fits`, `SlotsFilled`, `WorkBounded`, `StepsBounded`, `Terminates` |
| `attrs` | inputs of 0 to 12 bytes, attributes of 0 to 7; 9 types; 6 settings | `AttributesAsRead`, `LittleLeftUndecoded`, `DumpInBuffer`, `StepsBounded`, `Terminates` |
| `rtf` | dictionary of 5, preset of 2, 3 byte values, up to 8 bytes in and 7 out | `TypeOK`, `InBounds`, `DictIsWindow`, `ReferenceBehind`, `Decompresses`, `StepsBounded`, `Terminates` |
| `paths` | every name of up to 3 of 6 characters, 6 longer ones; all path options; 5 directories; buffer slack 1, limit 12 | `BufferFits`, `Sanitary`, `BeginsWithDirectory`, `NamedUnlessEmpty`, `Reversible` |
| `cmdline` | every command line of up to 3 of 23 words | `SettingsAsAsked`, `PrefUsable`, `AnswersApart` |
| `maxsize_cut` | one word, every size from the least negative to the greatest | one message, violated |
| `one_letter`, `shared_name` | the bodies of `stream`, one command line | one statement of the manual each, violated |
| `mapi_guid` | as `mapi` | one assertion of the code, violated |

Every module with variables of the code has a type invariant, which `Typed` (`DirTyped` in
`OutputDir`) proves for every value of the constants (see below). It is checked
on a run only in `mapi` and `rtf`, where the ranges say something of the code: how far `idx`
passes the end of a buffer, that both offsets stay in the dictionary.

Why these bounds are enough. A fault in the hand-over from one attachment
to the next needs two `RENDDATA` with an attribute before, between and after
them: five. Collisions need two names, of which one is the other's first
backup, and a directory with a gap in the numbers. `MaxNumber` is 4, one more
than an instance can use; `SafeNumber`, 99999 in the code, is 2, so that a
number may fail to fit. The bodies need two lists and a third attribute that
replaces one of them. In `rtf`, seven bytes of output wrap the write offset
of a dictionary of five, starting at 2, and runs of up to 4 overlap it from
either side; the header has 4 bytes rather than 16 and a control byte
announces 2 tokens rather than 8. In `paths`, three characters suffice for a
separator at the start, in the middle and at the end, and for an escape that is
already in the name (`%5C`); the longer names have several leading separators,
`..`, control and non-ASCII characters; the slack is 1, the least that leaves
room for the NUL, so that a buffer one byte too small is noticed. In
`cmdline`, three words give each setting twice with another between; int32
has 8 values and size_t 64, so that a number can be negative in the low bits
only. In `file_write` two runs
suffice for every race of `stat` and `fopen`, the names lead to one path and its
first backup, which may exist, and `MaxNumber`, 6, is more than two runs can
number. In `mapi` the lengths put the end of the buffer at, before
and behind the end of each field and its padding, a property with names and a
GUID, or two properties; a word has 256 values and size_t 4096, so that
counts overflow products. In `attrs` the header is 4 units and
the checksum 1, `MINIMUM_ATTR_LENGTH` 3 (8 of 11 in the code); 12 bytes hold two short
attributes, or one with the longest dump and a remainder; a triple's numbers take
4, a date 3, and the greatest day of the week is 0. CHECK_DEADLOCK is off
because the program ends.

The passing runs show that, for these instances: a run without `--overwrite`
changes no existing file; with `--number-backups` it loses none; every file
holds what the last writer wrote; however the run stops, the attachments
handed over are those of the stream, in order and complete, at most the newest
missing; the bodies written are those of the first preferred kind the stream
has; and the run ends. A step of the decompressor, of the parser of property lists
or of the reader of the stream always uses up bytes, so their sizes bound the
work (`StepsBounded`). A path begins with the output
directory. Without `--use-paths` exactly one name follows it, and different names
(not empty) lead to different paths. With `--use-paths` the directory part of the name
stands between, and a `..` in it may lead out of the output directory: the code does not
look for one (`BeginsWithDirectory` is about the text of the path).
`parse_file` is called with what the command line asks for in whatever order, but for `--maxsize`. Two runs
at once keep the older files, and each keeps what it wrote but for a path that
one opened while the other had found it free; a run that is alone, even if killed,
cannot tell `file_write` from one step; and none sets the other back, even when
it takes the name the other has just found free (`NoRunThrownBack`). The parser of property lists reads
nothing behind its buffer but in one case (`mapi_guid`); the conversion fits
its buffer; no value is lost of the types that come with several. A run that
comes to the bodies has left at most `Minimum - 1` bytes of a file undecoded, and
nothing of stdin. Those bytes may be garbage or the beginning of an attribute: a file cut one
to seven bytes into an attribute, or between two, ends as a good one, since
`data_left` takes the bytes left over for garbage. Of an input that is a name but cannot be seeked nothing is
promised: `data_left` takes it for one byte of garbage, and tnef ends with status 0 and
nothing read.

### Where the code and what is said of it disagree

The violation runs check statements of `doc/tnef.1.in`, a message and an assertion:

- *"which of the possibly three message body formats will be saved"*: with a
  preference of one letter the loop reads `body_pref[2]`, behind the string,
  and may save another (`one_letter`). `BodiesFollowPreference`
  leaves that case out and holds for all others.
- *"written to a file named message"*: only the first value of a
  list is; the others use a freed name (`shared_name`).
- *"Ignoring negative value given"* (main.c:288): from 2147483648 on, sizes
  are cut to 32 bits and taken for negative (`maxsize_cut`).
- `assert (len >= 16)` (mapi_attr.c:49) is asked about `len-idx`. When the padding of
  a name has moved `idx` past `len`, the difference wraps and the assert holds of
  a buffer that has ended (`mapi_guid`, a list of 33 bytes). `ReadsInBuffer` leaves
  that case out, a single CLSID value of a named property, and holds for all others.

Three more show in the model without a run of their own. The manual says of
`--maxsize` "limit maximum size of extracted archive", and the limit is per
allocation (`OverLimit`). It says of `--body-pref` "the first type found will be
saved", and the loop stops at the first kind that has a list, even when nothing in
it decoded (`Wanted` and `Readable` in `ExtractProps` say what is saved). It
still describes `--save-rtf FILE` (doc/tnef.1.in:91-93, "Equivalent to --save-body=FILE
--body-pref=r"), which the option table of `main.c` no longer has: `getopt_long`
reports it as an unknown option, and the run ends with status 1 (`Leave`).

### Fairness

`WF_vars(Next)`, in `Extract` and `Rtf`, and only for `Terminates`: the process
is scheduled, and its input, a finite stream, arrives. No choice is
assumed fair: the loops end whatever is read. For Rtf and Mapi not even input
is waited for, the data being in memory. `AttrStream` is as `Extract`. In
`FileWrite` each run has its own `WF_vars(Step(p))`: the operating system
schedules every run, its user answers, and the directory has room for only so many
names (`MaxNumber`); a kill (`Death`) is never owed.

## What is proved

For every value of the constants that satisfies the named assumptions
(`OutputDirAssumption`, `ExtractAssumption`, `RtfAssumption`, `PathAssumption`,
`MapiAssumption`, `FileWriteAssumption`, `FileWriteAtomicAssumption`,
`AttrStreamAssumption`, `CmdlineAssumption`): every set of names and paths, any `Munge` and `Numbered`,
streams of any length, any dictionary size, preset text, lengths and data, any
counts and lengths in a property list, any number of runs in a directory, any
sizes of an attribute and its parts, any number of words on a command line. Those
of the assumptions that are not types say what the code's constants and tables
give: an attribute has a least length that is not zero, a SHORT has one or two
units, an int32 no more values than a size_t, the letters of the body kinds are
lower case, and what stands for an older file or for nothing is no file's data.

- **Directory** (ExtractProofs): `DirTyped`; `DirKeepsFiles`, that `NoClobber`
  holds; `DirIsExplained`; `DirKeepsAll`. `DirExplained` is inductive together
  with the type invariant: each outcome of `file_write` appends at
  most one entry to `log`, and only `Put` changes `fs`, at the path of that
  entry. `NumberedKeepsAll` needs `DirExplained`, since "no two writes share a
  path" follows from the target not existing and every write's path existing.
- **Extraction** (ExtractProofs): `Typed`, and `Implements`, that `Spec`
  implies `DirSpec`. The invariant is `IInv`, the conjunction of `TypeOK` and
  `Filling`, which says what each place of the code may rely on: a `File` object exists while properties are
  applied to it, what is in `props` is well-typed there, and a body kind
  has been chosen and its list exists while its files are written. Without it the file given to `file_write`
  could not be shown to be a `File`. The theorems of the directory carry
  over: `RunKeepsFiles`, `RunIsExplained`, `RunKeepsAll`.
- **What the user is owed** (ExtractProofs): `InStreamOrder` (that
  `AttachmentsInOrder` holds) and `BodiesFollow` (`BodiesFollowPreference`), for
  streams of any length and lists of any number of properties and values. Each
  compares what the code gathers as it goes with a definition that looks
  at the whole of `input`, so each needs an invariant that says what a part of
  the work comes to.
  - `InOrder`: the RENDDATA attributes have the ranks 1, 2, and so on; the first
    `d` attachments are in `log`, in that order and complete (`Finished`); and
    `Stage` says how far `d` is at each place: one short while a `File` object exists, not
    short once `last` has been passed. `Gathered` is what makes the next one right: the fields of
    the newest attachment are those of `file` after the properties still in
    `props` are applied (`Left`). The next attribute changes fields of the newest
    attachment only (`FieldGrows`), and of those before it nothing (`AttachmentKept`).
  - `Held`: the same of `MessageBody` and the bodies of the stream.
  - `Out`: what is in `log` behind the attachments is what the first `bi` kinds of the
    preference owe (`OwedTo`), and, while a body is being written, its first `bj` values.
    That the search stops at the first kind found is `OwedSame`: the kinds after it
    owe nothing. It rests on `FlattenAppend` of DataInduction. `Out` is where a preference of one letter is left out.
- **RTF** (RtfProofs): `Typed`, `StaysInBounds`, `DictionaryIsWindow`,
  `StaysBehind`, and `Implements`, that the output is what the stream means. The invariant
  adds `Loop` (the counters are zero before the loop, a reference is being
  copied exactly when bytes of it are left, `endflag` ends the loop) to the
  properties. The argument is by age: writing a byte makes every other slot one
  older (`AgeStep`) and every byte one further back (`BackStep`), so the
  dictionary stays the window, and source and target advance together, so the
  distance of a reference stays what it was. `ReferenceBehind` is what makes
  the distance at least 1.

- **Paths** (PathProofs): `Typed`, `StaysInBuffer`, `NamesAreSanitary`,
  `PathsBegin`, `NamesAreKept`, `EscapingIsReversible`, for names of any
  length over any alphabet. The invariant adds `Parts`, what each place relies on: the last
  part of a name that was split is not empty, the directory part is relative by
  the time it is used, each character adds one to three (`cp <= Len(buf)` and
  `Len(buf) <= 3 * cp`), and what is joined does not end in a slash. The last
  gives `Concat`: stripping trailing slashes strips nothing, so the directory
  stays the beginning of the path (`TrimNothing` is its core), and `ConcatJoins` that
  joining adds one slash and nothing else: a base name without a slash stays one name. That escaping is
  `Reversible` goes over a relation that needs no recursion: `Spells` says
  where in the text each character of the name ends (`Marks`) and that it stands there as itself,
  not being `%`, or as its escape. It survives each character added (`SpellsMore`), and
  `SpellingDecoded` shows, from the end of the text to its start, that a text
  decodes to what it spells. That the two hexadecimal digits tell the characters
  apart is part of `PathAssumption`: they are the halves of a byte (`hex_digits`).

- **Properties** (MapiProofs): `Typed`, `StaysInBuffer`, `FitsUtf8`,
  `FillsSlots`, `BoundedWork`, for buffers of any length, any counts and any
  limit. The code lets `idx` pass the end of the buffer and relies on a later
  read to notice, so the invariant says where it may be past it: `Cursor` that
  it is not where a GUID is about to be read (but for the case `GuidInBuffer`
  is about) and that a string being converted lies in the buffer, `Overrun` by
  how much it may be past it elsewhere. `Utf8Room` keeps what is left to convert
  within what is left of the UTF-8 buffer: two bytes more take three more
  (`Growing`), and the last byte is for the NUL. `SlotsInTurn` ties the slot `v`
  to the value `j` for the types that advance it.

- **Runs in one directory** (FileWriteProofs): `Typed`, `OldKept` (that
  `OldFilesKept` holds), `Intact` (`IntactUnlessContended`) and
  `RefinesOutputDir` (`LoneRunIsAtomic`), for any number of runs, settings,
  files and blocks. Three invariants, one for each.
  `Truncates`: a file being written is no longer an old one, since
  `fopen` has truncated it. `NoOldClaimed`: a run without `--overwrite`
  that has found a path free and not yet opened it (`Claims`) finds no old file
  there when it opens it; it holds because nothing ever turns a file into an old one. `AllSound`: at each path that
  is not spoilt (overwritten, or opened in the window) at most one run
  writes or has written, it has written there what `dir` holds, and one that is about to open
  it finds nothing there. That is a property of paths rather than of the entries of `log`, as
  the interference is: a run disturbs another's file through
  its path only, so `SoundElsewhere` disposes of all steps but `fopen` and
  the write of a block. The refinement needs `LoneOnCourse`: the
  names a run that is alone has tried are taken in the directory it sees (`Seen`),
  so that the path it opens is the one that `find_free_number` gives when
  it is asked at once, and the blocks written so far are the first of its data.

- **Data** (DataInduction), lemmas the other proofs rest on and about no code of
  their own: `FlattenAppend`, that a sequence of sequences
  grown at its end flattens to what it did before and the new part, and
  `FoldRemainder`, that a sum reduced at each step is the
  remainder of the whole sum. No operator can be passed to the library's
  induction theorems here, so induction goes over the set of the numbers
  (or of the subsets of a finite set) that have a property: `NatSets`,
  `SubsetInduction`. A recursive function (`Decoded` in Path too) is a `CHOOSE`, of which nothing is
  known until a function with its equation is shown to exist (`JoinExists`,
  `SumTableExists`) and, where two are compared, shown to be unique.

- **Attribute stream** (AttrStreamProofs): `Typed`, `AsRead`, `LittleLeft`,
  `InBuffer`, for an input of any length. The invariant adds `Consumed` to
  `TypeOK`: the bytes read are the signature, the attributes handed over
  encoded one after the other, and the part of the next that its place
  in the code says (nothing, a header, all of it). `AttributesAsRead` is that at two of
  the places. `AllSummed` carries the checksums, `Ended` that a good end leaves less than
  an attribute, `Dumped` that what was dumped is the last attribute handed
  over. `KindsApart` and `StepCases` say that a step hands over
  one attribute, decodes one part, or ends.

- **Command line** (CmdlineProofs): `Typed`, `AsAsked`, `Preference`,
  `Answers`, for any number of words. The invariant `SoFar` is
  `SettingsAsAsked` for the words before `optind`, in place of all; a word
  more changes the last of its own name and of no other (`OneMore`). `Usable` holds
  of the preference in force at every word, since `parse_cmdline` exits at one that
  `validate_body_pref` refuses.

- **How long it takes**: `WorkIsBounded` (that `StepsBounded` holds) in RtfProofs,
  MapiProofs and AttrStreamProofs, `GoesForward` (`OnlyForward`) in ExtractProofs,
  `RunsGetOn` (`NoRunThrownBack`) in FileWriteProofs. They are the safety half of
  termination: a measure in the naturals that every step makes smaller.
  The decompressor takes two steps for a byte of input, which may be a control
  byte, and one for a byte of output; the property list one for a byte that `idx`
  can still pass or that is left of a string, and a few to end a property; the stream three for a
  byte. In `Extract` and `FileWrite`, where a step may fetch more work (an
  attribute, a file), the measure is lexicographic: the attributes read or files left, the
  place in the code (`Ahead`), the turns left of its loop (`Turns`). That the last is a natural
  number needs what bounds the loop counters: `Walking` (no more of a list of bodies
  written than it holds) and `Searching` (the number tried is at most one more than
  the largest). The proofs sort the steps by what they do to the measure
  (`KindsOfStep`); `OthersStay` is the half of `NoRunThrownBack` about the
  other runs.

Only model-checked, and why: that a run ends (`Terminates`, `EveryRunEnds`), since
fairness and `ENABLED` are beyond the prover (that each step leaves less to do
is proved; that one is taken as long as there is something to do is not); and the
violations, which are about one behaviour each.

## What is not modelled

- The numbers and characters themselves: byte order, the CRC, what a UTF-16 unit
  turns into (its width is modelled). They are data no control depends on, but
  for the outcomes, which are choices.
- Uncompressed RTF, copied from the start of its header whatever the length, has
  only its outcome.
- `mapi_attr_dump`, `mapi_attr_free` and the print functions (`write.c`,
  `debug.c`): they change no state but stdout and the heap.
- Listing formats, the generated tables and `replace/`.
- Writers other than tnef in the output directory. `FileWrite` bounds what they could
  see and do by another run of tnef with `--overwrite`.

## Plan

1. `TnefRun`: `Cmdline`, `Extract` and `Path` composed, `Munge` replaced by what
   `Path` computes, so that the theorems about the directory speak of names.
2. `mapi_attr_dump` in `Mapi`, as `attr_dump` is in `AttrStream`.
