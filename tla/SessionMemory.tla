--------------------------- MODULE SessionMemory ---------------------------
(***************************************************************************)
(* The tool `resurface` of crates/b3-cli/src/mcp/session_memory.rs: it     *)
(* reads a range of lines out of the file a coding session is recorded in, *)
(* filters and samples them, and shows each with its line number.  The     *)
(* file may be that of the session in progress, so its agent may append to *)
(* it between any two steps of the tool.  A line is the number of its      *)
(* bytes, newline included, and what it records; the last line may still   *)
(* lack its end.  Long ranges are found by a seek to a byte the tool       *)
(* computes from the average length of a line.                             *)
(***************************************************************************)
EXTENDS Integers, Sequences, FiniteSets, SequencesExt

CONSTANTS
  LineKind,       \* "said", "marker" (of a compaction), "result", "call", "blank"
  LineSize,       \* bytes of a whole line
  StartLine,      \* the start_line, end_line and record_type asked for,
  EndLine,        \* and frac_sample in percent, 100 if it is left out
  RecordType,
  Percent,
  SeekThreshold,  \* SEEK_THRESHOLD, SAFETY_MARGIN, and the last bytes a seek
  SafetyMargin,   \* keeps away from: 5000, 500 and 1024 in the code
  SeekTail,
  MaxLines        \* bound: the lines ever written

ASSUME SessionMemoryAssumption ==
  /\ LineKind \subseteq {"said", "marker", "result", "call", "blank"}
  /\ LineSize \subseteq Nat \ {0, 1}
  /\ StartLine \subseteq Int /\ EndLine \subseteq Int /\ Percent \subseteq 1 .. 100
  /\ {SeekThreshold, SafetyMargin, MaxLines} \subseteq Nat /\ SeekTail \in Nat \ {0}

VARIABLES
  recorded, torn,          \* the file, and whether its last line lacks its end
  resurface_at,            \* the tool's next step
  request,                 \* its arguments
  file_len, total_lines,   \* what it found the file to be
  sought,                  \* whether it reads from the byte of a seek
  raw_lines, truncated,    \* the lines it read, up to one it could not read
  moments                  \* the answer: lines with the numbers they are shown under

transcriptVars == <<recorded, torn>>
askVars == <<request, file_len, total_lines>>
rangeVars == <<sought, raw_lines, truncated>>
memoryVars == <<transcriptVars, resurface_at, askVars, rangeVars, moments>>

----------------------------------------------------------------------------
(* The file *)

\* The bytes of its first n lines, each named by its line and its place there.
Bytes(n) == UNION {{i} \X (1 .. recorded[i].size) : i \in 1 .. n}
BytesOf(n) == Cardinality(Bytes(n))

\* What is added after the range was read the tool does not see: left out.
Unread == resurface_at \in {"idle", "count", "read"}

\* The agent begins a line; one byte of it can be seen.
BeginLine ==
  /\ Unread /\ ~torn /\ Len(recorded) < MaxLines
  /\ torn' = TRUE
  /\ \E kind \in LineKind : recorded' = Append(recorded, [size |-> 1, kind |-> kind])
  /\ UNCHANGED <<resurface_at, askVars, rangeVars, moments>>

FinishLine ==
  /\ Unread /\ torn /\ torn' = FALSE
  /\ \E size \in LineSize : recorded' = [recorded EXCEPT ![Len(recorded)].size = size]
  /\ UNCHANGED <<resurface_at, askVars, rangeVars, moments>>

----------------------------------------------------------------------------
(* Finding the range *)

ToolAt(here, next) == resurface_at = here /\ resurface_at' = next

\* The tool is called; it takes the length of the file.
Ask ==
  /\ ToolAt("idle", "count")
  /\ request' \in [start : StartLine, end : EndLine, type : RecordType, percent : Percent]
  /\ file_len' = BytesOf(Len(recorded))
  /\ UNCHANGED <<transcriptVars, total_lines, rangeVars, moments>>

\* count_lines_in_file counts the ends of lines.
CountLines ==
  /\ ToolAt("count", "read")
  /\ total_lines' = Len(recorded) - (IF torn THEN 1 ELSE 0)
  /\ UNCHANGED <<transcriptVars, request, file_len, rangeVars, moments>>

AtLeast1(n) == IF n < 1 THEN 1 ELSE n

\* Mutant: the last line is not counted.
AbsStartShort ==
  IF request.start > 0 THEN request.start ELSE AtLeast1(total_lines + request.start)

\* Negative numbers count from the end; -1 is the last line as a start, and as
\* an end all lines.
AbsStart ==
  IF request.start > 0 THEN request.start ELSE AtLeast1(total_lines + request.start + 1)

AbsEnd ==
  CASE request.end > 0  -> request.end
    [] request.end = -1 -> total_lines
    [] OTHER            -> AtLeast1(total_lines + request.end)

\* A range far from the beginning is looked for at the byte where its first line
\* less the margin should be, ...
Seeks ==
  /\ AbsStart > SeekThreshold + SafetyMargin
  /\ total_lines > SafetyMargin
  /\ file_len > SeekTail
ScanStart == AbsStart - SafetyMargin
SeekTo == Min({ScanStart * (file_len \div total_lines), file_len - SeekTail})

\* ... and read from the next line that begins there: the rest of the one the
\* byte is in is dropped.
LineAfter(byte) == 1 + Min({n \in 1 .. Len(recorded) : BytesOf(n) > byte})

\* A line as it is read now.
LineAt(n) ==
  [at |-> n, kind |-> IF torn /\ n = Len(recorded) THEN "torn" ELSE recorded[n].kind]

\* read_line_range: the lines from first on are numbered from scan_from_line on,
\* and those with a number in the range are taken, up to one that cannot be read;
\* there may be none.
ReadRange ==
  /\ ToolAt("read", "show")
  /\ sought' = (Seeks /\ SeekTo > 0)
  /\ LET first == IF sought' THEN LineAfter(SeekTo) ELSE 1
         scan_from_line == IF sought' THEN ScanStart ELSE 1
         from == first + AbsStart - scan_from_line
         to == Min({first + AbsEnd - scan_from_line, Len(recorded)})
     IN \E last \in {from - 1} \cup (from .. to) :
          /\ raw_lines' = [i \in 1 .. last - from + 1 |-> LineAt(from + i - 1)]
          /\ truncated' = (last < to)
  /\ UNCHANGED <<transcriptVars, askVars, moments>>

----------------------------------------------------------------------------
(* What is shown of it *)

KindAt(i) == raw_lines[i].kind

\* The indices that remain: no blank lines, results only when all is asked for,
\* markers always.
Kept ==
  {i \in DOMAIN raw_lines :
     \/ KindAt(i) \in {"marker", "said", "call", "torn"}
     \/ KindAt(i) = "result" /\ request.type = "all"}
Markers == {i \in Kept : KindAt(i) = "marker"}

\* Mutant: markers are sampled like any other line.
SamplesOfAll ==
  LET keep == AtLeast1((Cardinality(Kept) * request.percent) \div 100)
  IN IF request.percent = 100 \/ Cardinality(Kept) <= keep THEN {Kept}
                                                          ELSE kSubset(keep, Kept)

\* The sets of indices the sampling may come to.
Samples ==
  LET share == (Cardinality(Kept) * request.percent) \div 100
      keep == AtLeast1(share - Cardinality(Markers))
      available == Kept \ Markers
  IN IF request.percent = 100 \/ Cardinality(available) <= keep
       THEN {Kept}
       ELSE {Markers \cup s : s \in kSubset(keep, available)}

\* What record_type lets through; half a line is no JSON.
Shown(i) ==
  CASE request.type = "conversation" -> KindAt(i) \in {"said", "marker"}
    [] request.type = "tool_use"     -> KindAt(i) = "call"
    [] OTHER                         -> KindAt(i) # "torn"

\* The indices S in order: a set of one walk.
Walks(S) ==
  {w \in [1 .. Cardinality(S) -> S] : \A k, l \in DOMAIN w : k < l => w[k] < w[l]}

\* The answer: the sampled lines, each labelled with its place in the range.
Answer ==
  /\ ToolAt("show", "answered")
  /\ \E sampled \in Samples : \E shown \in Walks({i \in sampled : Shown(i)}) :
       moments' = [k \in DOMAIN shown |-> [label |-> AbsStart + shown[k] - 1,
                                          line |-> raw_lines[shown[k]]]]
  /\ UNCHANGED <<transcriptVars, askVars, rangeVars>>

----------------------------------------------------------------------------

MemoryInit ==
  /\ recorded = <<>> /\ torn = FALSE
  /\ resurface_at = "idle"
  /\ request = [start |-> 1, end |-> -1, type |-> "conversation", percent |-> 100]
  /\ file_len = 0 /\ total_lines = 0
  /\ sought = FALSE /\ raw_lines = <<>> /\ truncated = FALSE
  /\ moments = <<>>

MemoryNext ==
  \/ BeginLine \/ FinishLine
  \/ Ask \/ CountLines \/ ReadRange \/ Answer

MemorySpec == MemoryInit /\ [][MemoryNext]_memoryVars

----------------------------------------------------------------------------
(* Properties *)

\* The type invariant.
MemoryTypeOK ==
  /\ recorded \in Seq([size : {1} \cup LineSize, kind : LineKind])
  /\ torn \in BOOLEAN /\ (torn => recorded # <<>>)
  /\ resurface_at \in {"idle", "count", "read", "show", "answered"}
  /\ file_len \in Nat /\ total_lines \in 0 .. MaxLines
  /\ sought \in BOOLEAN /\ truncated \in BOOLEAN
  /\ raw_lines \in Seq([at : 1 .. MaxLines, kind : LineKind \cup {"torn"}])
  /\ moments \in Seq([label : Nat, line : [at : 1 .. MaxLines, kind : LineKind]])

\* The lines the request means, if total lines were counted: "Negative = from end
\* (e.g. -1000 = last 1000 lines)".
Meant ==
  IF request.start < 0 /\ request.end = -1
    THEN {n \in 1 .. total_lines : n > total_lines + request.start}
    ELSE {n \in 1 .. MaxLines : AbsStart <= n /\ n <= AbsEnd}

\* What resurface shows is what was asked for, though lines are added meanwhile:
\* without a seek it reads the lines that were meant, all that were counted unless
\* it says that it stopped early, and shows each under its number; with or without,
\* sampling loses no marker of a compaction, and nothing is shown twice or out of
\* order.
ResurfacedAsAsked ==
  resurface_at = "answered" =>
    /\ LET read == {raw_lines[i].at : i \in DOMAIN raw_lines}
       IN ~sought => /\ read \subseteq Meant
                     /\ truncated \/ Meant \cap 1 .. total_lines \subseteq read
                     /\ \A k \in DOMAIN moments : moments[k].label = moments[k].line.at
    /\ request.type = "conversation" =>
         \A i \in DOMAIN raw_lines :
           raw_lines[i].kind = "marker"
             => \E k \in DOMAIN moments : moments[k].line = raw_lines[i]
    /\ \A k \in DOMAIN moments : \A l \in 1 .. k - 1 :
         moments[l].label < moments[k].label /\ moments[l].line.at < moments[k].line.at

\* read_line_range: "Read lines abs_start..=abs_end (1-indexed) from a file", and
\* the margin "ensures we land before abs_start": every line is shown under its
\* number.
LabelsTrue ==
  resurface_at = "answered" =>
    \A k \in DOMAIN moments : moments[k].label = moments[k].line.at

=============================================================================
