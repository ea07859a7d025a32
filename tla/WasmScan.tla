------------------------------- MODULE WasmScan -------------------------------
(***************************************************************************)
(* definedTableCount of web/wasm-polyfill.js: how many tables a module     *)
(* defines, found by walking its section headers, and the modules it is    *)
(* asked about.                                                            *)
(*                                                                         *)
(* A guest's module is described by its sections, from which its bytes are *)
(* made here; what the scan reads off the bytes can then be compared with  *)
(* the description.  The eight bytes of magic and version are `head'.      *)
(***************************************************************************)
EXTENDS Integers, Sequences, FiniteSets, SequencesExt

TableSection == 4

\* A number below 128 in LEB128, or the same with a byte of padding.
Leb(n, padded) == IF padded THEN <<n + 128, 0>> ELSE <<n>>

\* What stands before the table section: nothing, types, or a custom section whose
\* content looks like a table section, with a short or a padded length.
Custom(p) == [id |-> 0, padded |-> p, content |-> <<TableSection, 1, 2>>, tables |-> 0]
Leading == { <<>>, <<[id |-> 1, padded |-> FALSE, content |-> <<0>>, tables |-> 0]>> }
              \cup { <<Custom(p)>> : p \in BOOLEAN }

\* A table section with 0 to 2 tables, its length and its count short or padded; or
\* none; or two, which no well-formed module has: a small one first, or a large one.
TableSections(n, p) ==
  <<[id |-> TableSection, padded |-> p, content |-> Leb(n, p) \o <<112, 0, 1>>, tables |-> n]>>
OneTableSection == {TableSections(n, p) : n \in 0..2, p \in BOOLEAN}
TwoTableSections == {TableSections(n, FALSE) \o TableSections(3 - n, FALSE) : n \in 1..2}
Rest == {<<>>} \cup OneTableSection \cup TwoTableSections
SectionLists == {p \o r : p \in Leading, r \in Rest}

SectionBytes(s) == <<s.id>> \o Leb(Len(s.content), s.padded) \o s.content
Bytes(sections) == FlattenSeq([i \in DOMAIN sections |-> SectionBytes(sections[i])])

\* What the guest passes: the head, the sections, how many bytes are missing at
\* the end, and whether the code in it is fine, uses what wasm2js does not
\* translate, or is invalid.  A module is cut off anywhere in its last section.
Whole ==
  [head : {"v1"}, sections : SectionLists, cut : {0},
   code : {"fine", "untranslatable", "invalid"}]
Truncated ==
  {m \in [head : {"v1"}, sections : SectionLists \ {<<>>}, cut : 1..7, code : {"fine"}] :
     m.cut < Len(SectionBytes(m.sections[Len(m.sections)]))}
Heads ==
  [head : {"v1", "no magic", "other version"}, sections : {<<>>}, cut : {0}, code : {"fine"}]
Modules == Whole \cup Truncated \cup Heads

Body(m) == LET b == Bytes(m.sections) IN SubSeq(b, 1, Len(b) - m.cut)

\* The reference.  Well-formed is an uncut module whose sections stand in order, one
\* of a kind.
WellFormed(m) ==
  /\ m.head = "v1" /\ m.cut = 0
  /\ \A i, j \in DOMAIN m.sections :
       (i < j /\ m.sections[i].id # 0 /\ m.sections[j].id # 0)
         => m.sections[i].id < m.sections[j].id
\* The tables that the bytes list, whatever else is wrong with them: the count of the
\* first table section, unless the bytes end before it.
Listed(m, i) ==
  /\ m.sections[i].id = TableSection
  /\ i = Len(m.sections) => m.cut < Len(m.sections[i].content)
Tables(m) ==
  LET at == {i \in DOMAIN m.sections : Listed(m, i)}
  IN IF at = {} THEN 0 ELSE m.sections[Min(at)].tables

-----------------------------------------------------------------------------
(* The scan.  Positions count from 0, as the code's do. *)

\* bytes[p], where a byte past the end is undefined and counts as 0.
ByteAt(bytes, p) == IF p < Len(bytes) THEN bytes[p + 1] ELSE 0

\* A wrong form of the next: one byte, whatever its top bit says.
OneByte(bytes, p) == [value |-> ByteAt(bytes, p) % 128, next |-> p + 1]
\* The LEB128 number at p and the position after it (as long as the bytes of
\* Modules have them: two, so the 32 bits of the code are never left).
U32(bytes, p) ==
  IF ByteAt(bytes, p) < 128 THEN [value |-> ByteAt(bytes, p), next |-> p + 1]
  ELSE [value |-> (ByteAt(bytes, p) % 128) + 128 * (ByteAt(bytes, p + 1) % 128),
        next |-> p + 2]

\* A section is skipped by its length.
AfterContent(len) == len.next + len.value

\* What the scan says at position p, if scan says it of the positions after p.
ScanStep(bytes, scan, p) ==
  IF p = Len(bytes) THEN 0
  ELSE LET len == U32(bytes, p + 1)
           end == AfterContent(len)
       IN IF bytes[p + 1] = TableSection THEN U32(bytes, len.next).value
          ELSE IF end > Len(bytes) THEN 0 ELSE scan[end]

ScanFrom(bytes) ==
  LET scan[p \in 0..Len(bytes)] == ScanStep(bytes, scan, p) IN scan[0]

\* -1: not a module of version 1.
definedTableCount(m) == IF m.head # "v1" THEN -1 ELSE ScanFrom(Body(m))
=============================================================================
