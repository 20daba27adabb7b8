------------------------------ MODULE Archives ------------------------------
(***************************************************************************)
(* What the tools do to the bytes of an attachment, and what it is called  *)
(* on disk: packages/tool-runtime/src zip.ts, stream-io.ts, safe-name.ts.  *)
(*                                                                         *)
(* A file is a number of bytes. Where the code reads in windows of 64 KiB, *)
(* 256 KiB or more, the size of the window is an argument here.            *)
(***************************************************************************)
EXTENDS Naturals, Sequences, SequencesExt, FiniteSets, FiniteSetsExt

(* ExtractOptions without maxDepth, which extractZipFromFile never reads.   *)
ExtractOptions == [maxFiles : Nat, maxExpandedBytes : Nat, maxSingleFile : Nat]

(* ZipEntry: parts is its name between slashes; stored is method 0 and      *)
(* packed the compressed size; declared is what the directory says the      *)
(* entry expands to and real what it does expand to.                        *)
ZipEntry ==
  [parts : Seq(STRING), isDirectory : BOOLEAN, encrypted : BOOLEAN, method : {0, 8, 9},
   packed : Nat, declared : Nat, real : Nat]

DeclaredUpTo(entries, i) == FoldLeft(LAMBDA acc, e : acc + e.declared, 0, SubSeq(entries, 1, i))

AssertZipBudget(entries, o) ==
  /\ Len(entries) <= o.maxFiles
  /\ \A i \in DOMAIN entries :
       /\ ~entries[i].encrypted
       /\ entries[i].declared <= o.maxSingleFile
       /\ DeclaredUpTo(entries, i) <= o.maxExpandedBytes

(* safeEntryPath: the parts that are left, where none of them leads out;    *)
(* "c:" stands for all that begin with a letter and a colon.                *)
Outside == {"..", "c:"}
EntryPath(e) == SelectSeq(e.parts, LAMBDA p : p \notin {"", "."})
SafeEntry(e) == Outside \cap Range(EntryPath(e)) = {}

(* inflateEntryToFile: its counter stops the pipeline before the chunk that *)
(* is too much; what came before, remaining bytes at most, is on disk.      *)
(* createReadStream is told to read to Max(dataStart, dataEnd) inclusive:   *)
(* one byte of an entry that has none.                                      *)
InflateEntryToFile(e, remaining) ==
  LET bytes == IF e.method = 0 /\ e.packed = 0 THEN 1 ELSE e.real
  IN  CASE e.method = 9 -> [ok |-> FALSE, written |-> 0]
        [] e.method # 9 /\ bytes > remaining -> [ok |-> FALSE, written |-> remaining]
        [] OTHER -> [ok |-> TRUE, written |-> bytes]

(* A file stands where a directory of the path would be, or a directory     *)
(* where its file would: mkdirSync or the write stream throws.              *)
Collides(files, path) ==
  \E f \in files : IsStrictPrefix(f.path, path) \/ IsStrictPrefix(path, f.path)

(* createWriteStream truncates the file that has the path.                  *)
Overwritten(files, path, size) == {f \in files : f.path # path} \cup {[path |-> path, size |-> size]}

(* extractZipFromFile: ok is FALSE where it throws; files is on disk either *)
(* way, the part of an entry that failed included; total counts all writes. *)
ExtractStep(o, s, e) ==
  LET rel == EntryPath(e)
      named == ~e.isDirectory /\ rel # <<>>
      r == InflateEntryToFile(e, Min({o.maxSingleFile, o.maxExpandedBytes - s.total}))
  IN  CASE ~s.ok -> s
        [] s.ok /\ (~SafeEntry(e) \/ (named /\ Collides(s.files, rel))) -> [s EXCEPT !.ok = FALSE]
        [] s.ok /\ SafeEntry(e) /\ ~named -> s
        [] OTHER -> [ok |-> r.ok, total |-> s.total + r.written, files |-> Overwritten(s.files, rel, r.written)]

ExtractZipFromFile(entries, o) ==
  LET none == [ok |-> AssertZipBudget(entries, o), total |-> 0, files |-> {}]
  IN  FoldLeft(LAMBDA s, e : ExtractStep(o, s, e), none, entries)
-----------------------------------------------------------------------------
(* sampleFileWindows: the bytes [from, to) of each window, and whether the  *)
(* inspection calls itself partial.                                         *)
Window(from, length, size) == from..(Min({from + length, size}) - 1)

(* Mutant of SampleFileWindows: the middle is only read of three windows.   *)
SampleTwoEnds(size, window) ==
  LET head == Window(0, window, size)
      tail == IF size > window THEN Window(size - window, window, size) ELSE {}
  IN  [seen |-> head \cup tail,
       partial |-> size > Cardinality(head) + Cardinality(tail) + (IF size > 2 * window THEN window ELSE 0)]

SampleFileWindows(size, window) ==
  LET head == Window(0, window, size)
      mid == IF size > 2 * window THEN Window((size \div 2) - (window \div 2), window, size) ELSE {}
      tail == IF size > window THEN Window(size - window, window, size) ELSE {}
  IN  [seen |-> head \cup mid \cup tail,
       partial |-> size > Cardinality(head) + Cardinality(mid) + Cardinality(tail)]
-----------------------------------------------------------------------------
(* A name on disk: its stem, whether it is written in capitals, and the     *)
(* numbers after it: f is <<>>, f__2 is <<2>>, f__2__2 is <<2, 2>>.         *)
DiskName == [stem : STRING, capital : BOOLEAN, marks : Seq(Nat)]

Lower(name) == [name EXCEPT !.capital = FALSE]

Numbered(name, n) == [name EXCEPT !.marks = Append(@, n)]

UniqueAttachmentFilename(name, used) ==
  IF Lower(name) \notin used THEN name
  ELSE Numbered(name, Min({n \in 2..Cardinality(used) + 2 : Lower(Numbered(name, n)) \notin used}))

GiveName(s, name) ==
  LET given == UniqueAttachmentFilename(name, s.used)
  IN  [given |-> Append(s.given, given), used |-> s.used \cup {Lower(given)}]

(* The names the attachments of one challenge get, one after the other.     *)
DiskNames(names) == FoldLeft(GiveName, [given |-> <<>>, used |-> {}], names).given
=============================================================================
