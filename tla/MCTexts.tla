------------------------------ MODULE MCTexts ------------------------------
(* Small instances of three parts that share no state: what happens to a     *)
(* text in the documents of the batch queue (BatchDocument) and in the       *)
(* execution of a request (Generation), and what happens to a shortcut and   *)
(* its settings (HotkeySettings).  A behaviour is one of part's.             *)
EXTENDS HotkeySettings, FiniteSets

VARIABLE part   \* "settings", "documents" or "request"

-----------------------------------------------------------------------------
(* The shortcuts: the default, an ordinary one, the same followed by a       *)
(* second chord, one without a modifier, and one whose key the platform does *)
(* not know.                                                                 *)

MCDefault == <<"CtrlGrave">>

MCShortcut == {<<"CtrlGrave">>, <<"CtrlK">>, <<"CtrlK", "C">>, <<"C">>, <<"F13">>}

\* "Ctrl+K, C" cut behind its first chord, "Ctrl+K" cut behind "Ctrl" and in it.
MCCutShort == [s \in MCShortcut |->
    IF Len(s) = 2 THEN {<<"CtrlK">>} ELSE IF s = <<"CtrlK">> THEN {<<"C">>, <<"F13">>} ELSE {}]

-----------------------------------------------------------------------------
VARIABLES disk, meant, original, serial, outputs, phase

documentVars == <<disk, meant, original, serial, outputs, phase>>

Token == {"\\", "sp", "cr", "nl"}

\* Every text of up to two of these tokens, and of three without a space, and
\* some subtitles and paragraphs.
MCDocument ==
    UNION {[1 .. n -> Token] : n \in 0 .. 2} \cup [1 .. 3 -> Token \ {"sp"}] \cup
    {<<"n", "nl", "-->", "nl", "n">>,
     <<"nl", "n", "cr", "nl", "-->", "cr", "nl", "n", "cr", "nl", "n", "nl">>,
     <<"n", "nl", "-->", "nl", "n", "nl", "nl", "n", "nl", "-->", "nl", "\\", "n">>,
     <<"n", "nl", "-->", "nl", "n", "nl", "nl", "n", "nl", "nl">>,
     <<"n", "nl", "n", "nl", "-->">>,
     <<"n", "nl", "cr", "cr", "nl", "n", "cr">>}

OldEntry(id) == [id |-> id, stem |-> "a", path |-> <<>>, trailing |-> <<"nl">>,
                 segments |-> <<[index |-> "0", prefix |-> <<>>, source |-> <<"n">>,
                                 state |-> "Pending", text |-> <<>>]>>]

MCLegacy == {<<OldEntry(<<"x">>), OldEntry(<<"x">>), OldEntry(<<"x", "_dup">>)>>}

Doc == INSTANCE BatchDocument WITH
          pc <- phase, Document <- MCDocument, Further <- {<<"n", "nl">>},
          Translation <- {<<"nl", "\\", "n">>}, Stem <- {"a"}, Legacy <- MCLegacy,
          MaxEntries <- 2

\* BatchDocument's properties, of this instance (parse_batch_file(),
\* assemble_document(), the queue file, allocate_output_path()).
DocumentInv == Doc!DocumentInv
OutputsStay == Doc!OutputsStay

-----------------------------------------------------------------------------
VARIABLES step, profile, request, stop, chunks, gen, result, failure, delivered

generationVars ==
    <<step, profile, request, stop, chunks, gen, result, failure, delivered>>

MCCodePoint == {"a", "."}
MCSentenceEnd == {"."}

\* One token for the template and one for a code point, but two letters side by
\* side are one token.
MCTokenCount(text) ==
    1 + Cardinality({i \in DOMAIN text :
                        ~(i > 1 /\ text[i] = "a" /\ text[i - 1] = "a" /\ i % 2 = 0)})

MCSourceText ==
    {<<>>, <<"a">>, <<"a", ".", "a">>, <<"a", ".", "a", ".">>, <<"a", "a", "a", "a", "a">>}

MCPiece == {<<"ascii">>, <<"lead">>, <<"cont">>, <<"ascii", "lead">>}

Gen == INSTANCE Generation WITH
          pc <- step, CodePoint <- MCCodePoint, SentenceEnd <- MCSentenceEnd,
          TokenCount <- MCTokenCount, SourceText <- MCSourceText, Piece <- MCPiece,
          TrainContext <- {0, 2, 4, 5}, ProfileContext <- 5, ProfileOutput <- 2,
          MaxRequested <- 3

ASSUME Gen!SentenceAssumption /\ Gen!ProfileAssumption

\* Generation's properties, of this instance (chunk_text(), ModelRuntime::execute(),
\* LocalRuntime::generate()).
SplitFits == Gen!SplitFits
OutputIsDelivered == Gen!OutputIsDelivered

-----------------------------------------------------------------------------
\* The two parts with many initial states rest in one of them only.
Rests(p) ==
    /\ p # "settings"  => taken = {}
    /\ p # "documents" => disk = <<>>

MCInit ==
    /\ Init /\ Doc!Init /\ Gen!Init
    /\ part \in {"settings", "documents", "request"} /\ Rests(part)

MCNext ==
    /\ UNCHANGED part
    /\ \/ part = "settings"  /\ Next     /\ UNCHANGED <<documentVars, generationVars>>
       \/ part = "documents" /\ Doc!Next /\ UNCHANGED <<vars, generationVars>>
       \/ part = "request"   /\ Gen!Next /\ UNCHANGED <<vars, documentVars>>

MCSpec == MCInit /\ [][MCNext]_<<part, vars, documentVars, generationVars>>
=============================================================================
