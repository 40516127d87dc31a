---------------------------- MODULE BatchDocument ----------------------------
(***************************************************************************)
(* The documents of the batch queue: how a file is cut into segments and   *)
(* put together again (batch/batch_file_handler.cpp), where its output     *)
(* goes, and the text format of the queue file with its startup repairs    *)
(* (batch/batch_store.cpp, BatchController::loadPersistedEntries()).       *)
(*                                                                         *)
(* The store keeps nothing in memory: every operation reads the file,      *)
(* changes it and writes it back.  BatchController has the order of these  *)
(* operations, and the reads of a file that does not open; that a file     *)
(* which opens is read as the queue that was saved is taken for granted    *)
(* there, and a property here, of documents that are sequences of tokens.  *)
(***************************************************************************)
EXTENDS Naturals, Sequences, SequencesExt, FiniteSets, FiniteSetsExt, TLC

CONSTANTS
    Document,       \* bound: the documents of a first entry, sequences of tokens
    Further,        \* bound: the documents of further entries
    Translation,    \* bound: the translations of a segment
    Stem,           \* the file names without their extension
    Legacy,         \* bound: the queues older versions have left behind
    MaxEntries      \* bound: the files that are added

VARIABLES
    disk,      \* the records of the queue file, none when there is no file
    meant,     \* history: the queue as it was last given to the store
    original,  \* history: the file of each id, its type and text
    serial,    \* id_seq_, and the clock: no id is given twice
    outputs,   \* the output files: for each path the entry and the text
    pc         \* "startup", "running", or "torn" once a write was cut short

vars == <<disk, meant, original, serial, outputs, pc>>

-----------------------------------------------------------------------------
(* Documents.                                                              *)

\* std::isspace() of the content of a line; a newline is never in it.
Space == {"sp", "cr"}

\* line_spans(): the line that begins at b; a CR in front of the newline belongs
\* to the end of the line, any other one to its content.
LineSpan(text, b) ==
    LET newlines == {i \in b .. Len(text) : text[i] = "nl"}
        n        == Min(newlines)
    IN  IF newlines = {} THEN [begin |-> b, content |-> Len(text) + 1]
        ELSE [begin |-> b, content |-> IF n > b /\ text[n - 1] = "cr" THEN n - 1 ELSE n]

LineSpans(text) ==
    LET begins == SetToSortSeq({i \in DOMAIN text : i = 1 \/ text[i - 1] = "nl"}, <)
    IN  [k \in DOMAIN begins |-> LineSpan(text, begins[k])]

Content(text, line) == SubSeq(text, line.begin, line.content - 1)

Blank(text, line) == ToSet(Content(text, line)) \subseteq Space

\* Mistake: the last line is never looked at.
Mut_Runs(text, lines) ==
    LET filled == {k \in DOMAIN lines : k < Len(lines) /\ ~Blank(text, lines[k])}
        firsts == {k \in filled : k - 1 \notin filled}
        LastOf(k) == Max({m \in filled : \A x \in k .. m : x \in filled})
        order  == SetToSortSeq(firsts, <)
    IN  [i \in DOMAIN order |-> <<order[i], LastOf(order[i])>>]

\* The longest runs of lines that are not blank, as <<first, last>>.
Runs(text, lines) ==
    LET filled == {k \in DOMAIN lines : ~Blank(text, lines[k])}
        firsts == {k \in filled : k - 1 \notin filled}
        LastOf(k) == Max({m \in filled : \A x \in k .. m : x \in filled})
        order  == SetToSortSeq(firsts, <)
    IN  [i \in DOMAIN order |-> <<order[i], LastOf(order[i])>>]

\* append_segment() for each of the line ranges, and the trailing text.
Cut(text, lines, ranges) ==
    LET Cursor(i) == IF i = 0 THEN 1 ELSE lines[ranges[i][2]].content
        Begin(i)  == lines[ranges[i][1]].begin
    IN  [segments |-> [i \in DOMAIN ranges |->
            [index  |-> ToString(i - 1),
             prefix |-> SubSeq(text, Cursor(i - 1), Begin(i) - 1),
             source |-> SubSeq(text, Begin(i), Cursor(i) - 1),
             state  |-> "Pending",
             text   |-> <<>>]],
         trailing |-> SubSeq(text, Cursor(Len(ranges)), Len(text))]

\* PlainTextHandler::parse(): the paragraphs.
ParsePlain(text) == Cut(text, LineSpans(text), Runs(text, LineSpans(text)))

NoSegments == [segments |-> <<>>, trailing |-> <<>>]

\* SrtHandler::parse(): of each block all but the index and the timing line; a
\* block without a timing line or a text fails the file.
ParseSrt(text) ==
    LET lines  == LineSpans(text)
        blocks == Runs(text, lines)
        IsSrt(b) == /\ b[2] >= b[1] + 2
                    /\ "-->" \in ToSet(Content(text, lines[b[1] + 1]))
    IN  IF \A i \in DOMAIN blocks : IsSrt(blocks[i])
          THEN Cut(text, lines, [i \in DOMAIN blocks |-> <<blocks[i][1] + 2, blocks[i][2]>>])
          ELSE NoSegments

\* parse_batch_file(), by the extension of the file.
Parse(type, text) == IF type = "Srt" THEN ParseSrt(text) ELSE ParsePlain(text)

\* assemble_document()
Assembled(e) ==
    FlattenSeq([i \in DOMAIN e.segments |->
        e.segments[i].prefix \o
        (IF e.segments[i].state = "Completed" THEN e.segments[i].text ELSE e.segments[i].source)])
      \o e.trailing

-----------------------------------------------------------------------------
(* The text of the queue file.  A record is a line <<key, value>>; the     *)
(* fields that nothing here depends on are left out.                       *)

Escape(v) ==
    FlattenSeq([i \in DOMAIN v |-> CASE v[i] = "\\" -> <<"\\", "\\">>
                                     [] v[i] = "nl" -> <<"\\", "n">>
                                     [] OTHER       -> <<v[i]>>])

\* A backslash in front of anything else, or at the end, stands for itself.
Unescape(v) ==
    LET Pair(c) == CASE c = "n"  -> <<"nl">>
                     [] c = "\\" -> <<"\\">>
                     [] OTHER    -> <<"\\", c>>
        Add(a, c) == IF a.open THEN [out |-> a.out \o Pair(c), open |-> FALSE]
                     ELSE IF c = "\\" THEN [a EXCEPT !.open = TRUE]
                     ELSE [a EXCEPT !.out = Append(@, c)]
        end == FoldLeft(Add, [out |-> <<>>, open |-> FALSE], v)
    IN  IF end.open THEN Append(end.out, "\\") ELSE end.out

BlankLine == <<"", <<>>>>

\* make_kv() of a text that is only written when there is one.
Field(key, v) == IF v = <<>> THEN <<>> ELSE <<<<key, Escape(v)>>>>

SegmentRecords(s) ==
    <<<<"s", <<s.index, s.state>>>>>>
      \o Field("ss", s.source) \o Field("st", s.text) \o Field("sl", s.prefix)

EntryRecords(e) ==
    <<<<"id", Escape(e.id)>>, <<"stem", <<e.stem>>>>>>
      \o Field("output_path", e.path)
      \o <<<<"_segments", <<ToString(Len(e.segments))>>>>>>
      \o Field("trailing", e.trailing)
      \o FlattenSeq([i \in DOMAIN e.segments |-> SegmentRecords(e.segments[i])])

\* serialize()
Serialize(q) ==
    <<<<"qtrans_batch", <<"2">>>>>>
      \o FlattenSeq([i \in DOMAIN q |-> <<BlankLine>> \o EntryRecords(q[i])])

NoEntry == [id |-> <<>>, stem |-> "", path |-> <<>>, segments |-> <<>>, trailing |-> <<>>]

Reading == [entries |-> <<>>, entry |-> NoEntry, expected |-> <<>>, failed |-> FALSE]

\* Mistake: the announced number of segments is not looked at.
Mut_FlushEntry(r) ==
    [Reading EXCEPT !.failed = r.failed,
                    !.entries = IF r.entry.id = <<>> THEN r.entries
                                ELSE Append(r.entries, r.entry)]

\* flush_entry()
FlushEntry(r) ==
    [Reading EXCEPT !.failed = r.failed \/ (r.entry.id # <<>> /\ r.expected # <<ToString(Len(r.entry.segments))>>),
                    !.entries = IF r.entry.id = <<>> THEN r.entries
                                ELSE Append(r.entries, r.entry)]

\* One line of deserialize().  An entry is open once it has its id: one whose id
\* is empty is never kept.
ReadRecord(r, record) ==
    LET key   == record[1]
        value == Unescape(record[2])
        segs  == r.entry.segments
        In    == r.entry.id # <<>>
        OnLast(f, v) == [r EXCEPT !.entry.segments = [segs EXCEPT ![Len(segs)] =
                                                         [@ EXCEPT ![f] = v]]]
    IN  IF r.failed THEN r
        ELSE IF record = BlankLine THEN FlushEntry(r)
        ELSE IF key = "qtrans_batch" THEN [r EXCEPT !.failed = (value = <<>>)]
        ELSE IF key = "id" THEN [FlushEntry(r) EXCEPT !.entry.id = value]
        ELSE IF ~In \/ (key \in {"ss", "st", "sl"} /\ segs = <<>>) THEN r
        ELSE
        CASE key = "stem"       -> [r EXCEPT !.entry.stem = IF value = <<>> THEN "" ELSE value[1]]
          [] key = "output_path" -> [r EXCEPT !.entry.path = value]
          [] key = "_segments"  -> [r EXCEPT !.expected = value, !.failed = (value = <<>>)]
          [] key = "trailing"   -> [r EXCEPT !.entry.trailing = value]
          [] key = "s"          -> [r EXCEPT !.entry.segments = Append(@,
                                      [index  |-> IF value = <<>> THEN "0" ELSE value[1],
                                       prefix |-> <<>>, source |-> <<>>, text |-> <<>>,
                                       state  |-> IF Len(value) < 2 THEN "Pending" ELSE value[2]])]
          [] key = "ss"         -> OnLast("source", value)
          [] key = "st"         -> OnLast("text", value)
          [] key = "sl"         -> OnLast("prefix", value)

\* deserialize(): the entries, or that it throws; no file is an empty queue.
Deserialize(file) == FlushEntry(FoldLeft(ReadRecord, Reading, file))

-----------------------------------------------------------------------------
(* Names.                                                                  *)

\* Mistake: every occurrence of an id gets the same new one.
Mut_RepairDuplicateIds(q) ==
    [i \in DOMAIN q |->
        IF \E k \in 1 .. i - 1 : q[k].id = q[i].id THEN [q[i] EXCEPT !.id = @ \o <<"_dup">>]
        ELSE q[i]]

\* repair_duplicate_ids(): a second entry of an id gets the first free name that
\* follows from it.
RepairDuplicateIds(q) ==
    LET Name(id, k) == IF k = 0 THEN id
                       ELSE id \o (IF k = 1 THEN <<"_dup">> ELSE <<"_dup", ToString(k)>>)
        Add(done, e) ==
            LET free == {k \in 0 .. Len(done) : Name(e.id, k) \notin {d.id : d \in ToSet(done)}}
            IN  Append(done, [e EXCEPT !.id = Name(@, Min(free))])
    IN  FoldLeft(Add, <<>>, q)

\* output_path_for(): the path with no number.
OutputPathFor(stem) == <<stem, ToString(1)>>

\* Mistake: only the reserved paths are avoided.
Mut_AllocateOutputPath(stem, reserved) ==
    <<stem, ToString(Min({k \in 1 .. Cardinality(reserved) + 1 : <<stem, ToString(k)>> \notin reserved}))>>

\* allocate_output_path(): the first number that is neither a file nor reserved.
AllocateOutputPath(stem, reserved) ==
    LET free == {k \in 1 .. Cardinality(reserved \cup DOMAIN outputs) + 1 :
                    <<stem, ToString(k)>> \notin reserved \cup DOMAIN outputs}
    IN  <<stem, ToString(Min(free))>>

\* loadPersistedEntries(): paths for the entries of older versions.
Migrated(q) ==
    LET Add(done, e) ==
            LET reserved == {d.path : d \in ToSet(done)}
                legacy   == OutputPathFor(e.stem)
                path     == IF e.path # <<>> THEN e.path
                            ELSE IF legacy \in reserved THEN AllocateOutputPath(e.stem, reserved)
                            ELSE legacy
            IN  Append(done, [e EXCEPT !.path = path])
    IN  FoldLeft(Add, <<>>, q)

-----------------------------------------------------------------------------
Save(q) == disk' = Serialize(q) /\ meant' = q

Queue == Deserialize(disk).entries

Init ==
    /\ \/ disk = <<>> /\ meant = <<>>
       \/ \E q \in Legacy : disk = Serialize(q) /\ meant = q
    /\ serial = 0 /\ original = <<>>
    /\ outputs = <<>>
    /\ pc = "startup"

\* loadPersistedEntries(), for a queue file that can be read.
LoadPersistedEntries ==
    /\ pc = "startup" /\ pc' = "running"
    /\ LET repaired == Migrated(RepairDuplicateIds(Queue)) IN
       IF repaired = Queue THEN UNCHANGED <<disk, meant>> ELSE Save(repaired)
    /\ UNCHANGED <<original, serial, outputs>>

\* BatchController::addFile(), whose ids are new.
AddFile(stem, type, text) ==
    LET parsed == Parse(type, text)
        queue  == Queue
        id     == <<stem, ToString(serial)>>
    IN
    /\ pc = "running" /\ serial < MaxEntries /\ serial' = serial + 1
    /\ parsed.segments # <<>>
    /\ Save(Append(queue,
            [id |-> id, stem |-> stem,
             path |-> AllocateOutputPath(stem, {e.path : e \in ToSet(queue)}),
             segments |-> parsed.segments, trailing |-> parsed.trailing]))
    /\ original' = (id :> [type |-> type, text |-> text]) @@ original
    /\ UNCHANGED <<outputs, pc>>

\* The translation of a segment (onTranslationFinished()).
SegmentTranslated(queue, i, s, t) ==
    /\ pc = "running" /\ queue[i].segments[s].state = "Pending"
    /\ Save([queue EXCEPT ![i] = [@ EXCEPT !.segments = [@ EXCEPT ![s] =
                [@ EXCEPT !.state = "Completed", !.text = t]]]])
    /\ UNCHANGED <<original, serial, outputs, pc>>

\* write_batch_output_atomic(), for an entry that is completed.
WriteOutput(e) ==
    /\ pc = "running" /\ \A s \in ToSet(e.segments) : s.state = "Completed"
    /\ outputs' = [p \in DOMAIN outputs \cup {e.path} |->
                      IF p = e.path THEN [owner |-> e.id, text |-> Assembled(e)] ELSE outputs[p]]
    /\ UNCHANGED <<disk, meant, original, serial, pc>>

\* removeEntry(); the output of the entry stays.
RemoveEntry(queue, i) ==
    /\ pc = "running"
    /\ Save(RemoveAt(queue, i))
    /\ UNCHANGED <<original, serial, outputs, pc>>

\* The process stops in the middle of the first write ever: only then is a file
\* that was cut short used (BatchStore::load()), behind record n and the first c
\* tokens of the value of the next one.
Torn(n, c) ==
    /\ pc = "running" /\ Len(meant) = 1 /\ \A s \in ToSet(meant[1].segments) : s.state = "Pending"
    /\ pc' = "torn"
    /\ disk' = SubSeq(disk, 1, n) \o (IF c = 0 THEN <<>>
                                      ELSE <<<<disk[n + 1][1], SubSeq(disk[n + 1][2], 1, c - 1)>>>>)
    /\ UNCHANGED <<meant, original, serial, outputs>>

Next ==
    \/ LoadPersistedEntries
    \/ \E stem \in Stem, type \in {"Txt", "Srt"},
          text \in (IF disk = <<>> THEN Document ELSE Further) : AddFile(stem, type, text)
    \/ LET queue == Queue IN \E i \in DOMAIN queue :
          \/ WriteOutput(queue[i])
          \/ RemoveEntry(queue, i)
          \/ \E s \in DOMAIN queue[i].segments, t \in Translation :
                SegmentTranslated(queue, i, s, t)
    \/ \E n \in 0 .. Len(disk) - 1 : \E c \in 0 .. Len(disk[n + 1][2]) : Torn(n, c)

Spec == Init /\ [][Next]_vars

-----------------------------------------------------------------------------
\* A document is cut without loss: its segments, as they are, put together with
\* what lies between them are the document, byte for byte.  What lies between is
\* white space, or with it the index and the timing line of a subtitle; and no
\* segment is empty or holds a blank line (BatchSegment::literal_prefix:
\* "a lossless document IR").
DocumentKept ==
    pc = "running" => \A e \in ToSet(Queue) :
        LET lines(t) == {i \in DOMAIN LineSpans(t) : ~Blank(t, LineSpans(t)[i])}
            o == original[e.id]
        IN  e.id \in DOMAIN original =>
              /\ Assembled([e EXCEPT !.segments =
                    [i \in DOMAIN @ |-> [@[i] EXCEPT !.state = "Pending"]]]) = o.text
              /\ \A s \in ToSet(e.segments) :
                    /\ Cardinality(lines(s.prefix)) = IF o.type = "Srt" THEN 2 ELSE 0
                    /\ lines(s.source) = DOMAIN LineSpans(s.source) /\ s.source # <<>>
              /\ lines(e.trailing) = {}

\* The queue that is read is the queue that was saved.  Of a first write that
\* was cut short, load() sees nothing, or an error, or the one entry with all but
\* its last segment as they were, and nothing translated (flush_entry() counts
\* the segments).
StoreKeeps ==
    LET read == Deserialize(disk) IN
    IF pc # "torn" THEN ~read.failed /\ read.entries = meant
    ELSE \/ read.failed
         \/ read.entries = <<>>
         \/ /\ Len(read.entries) = 1
            /\ LET e == read.entries[1]
                   m == meant[1]
                   n == Len(m.segments)
               IN  /\ [e EXCEPT !.segments = <<>>] = [m EXCEPT !.segments = <<>>]
                   /\ Len(e.segments) = n /\ Front(e.segments) = Front(m.segments)
                   /\ e.segments[n].state = "Pending" /\ e.segments[n].text = <<>>

\* No two entries have the same id or the same output (output_path: "Stable
\* output allocation"), in a queue an older version left behind too.
NamesDistinct ==
    LET queue == Queue IN
    pc = "running" => \A i, k \in DOMAIN queue :
        i # k => queue[i].id # queue[k].id /\ queue[i].path # queue[k].path

\* A document survives the queue: nothing of it is lost when it is cut, when the
\* queue is written and read again, and none takes the place of another.
DocumentInv == DocumentKept /\ StoreKeeps /\ NamesDistinct

\* An output file is never overwritten by another entry's, when entries of the
\* same name come and go: the file outlives its entry.  (addFile() looks at the
\* file system and at the queue it reads, which here is the one that was saved:
\* a queue file that does not open reserves no path.)
OutputsStay ==
    [][\A p \in DOMAIN outputs :
          p \in DOMAIN outputs' /\ outputs'[p].owner = outputs[p].owner]_vars
=============================================================================
