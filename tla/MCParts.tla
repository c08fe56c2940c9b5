------------------------------- MODULE MCParts -------------------------------
(* Instances for TLC of the small machines, which have nothing to do with one *)
(* another: a behaviour runs one of them, and the others stand still.         *)
EXTENDS Splitter, FrameReader, IcsWriter, RankFusion, TaskBoard, Diary, Startup, TLC

VARIABLE running

\* Splitter.  Every paragraph that fits, without blanks inside; and long ones,
\* whose cuts may fall on a blank wherever it stands.
Short == {[i \in 1..n |-> TRUE] : n \in 1..4}
Long  == {[i \in 1..n |-> i \notin blanks] :
            n \in {6, 9}, blanks \in {{}, {3}, {4}, {3, 4}, {4, 5}, {2, 3, 4}, {5}}}
\* One whose second window is all blank, too.
Paragraphs == Short \cup Long \cup {[i \in 1..9 |-> i \notin 4..8]}

\* FrameReader.
LineEndings == {<<CR, LF>>, <<LF>>, <<CR>>}

\* IcsWriter.  Every title of three characters or fewer, from each of the kinds
\* that the writer tells apart; a description that folds; both sorts of name.
Widths == "n" :> 1 @@ "wide" :> 3
Texts(S, n) == UNION {[1..m -> S] : m \in 0..n}
Titles == Texts({"n", "wide", "BS", "COMMA", "CR", "LF"}, 3)
Invitations ==
    {[title |-> t, description |-> <<>>, organiser |-> <<>>, guests |-> <<>>] : t \in Titles}
    \cup {[title |-> <<"n">>, description |-> d, organiser |-> <<"wide", "SEMI">>,
           guests |-> <<<<"wide", "wide">>, <<"n">>>>] : d \in Texts({"wide", "SP", "SEMI"}, 5)}

\* Diary: at home; in production without a provider, with a provider and the
\* key of another, as it should be, and with Google's calendar.
Deployments ==
    {[production |-> FALSE, provider |-> "console", keys |-> {}, calendar |-> "ics"],
     [production |-> TRUE, provider |-> "console", keys |-> {}, calendar |-> "ics"],
     [production |-> TRUE, provider |-> "brevo", keys |-> {"resend"}, calendar |-> "ics"],
     [production |-> TRUE, provider |-> "brevo", keys |-> {"brevo"}, calendar |-> "ics"],
     [production |-> TRUE, provider |-> "brevo", keys |-> {"brevo"}, calendar |-> "google"]}

Interchangeable == Permutations(Desk) \cup Permutations(Task) \cup Permutations(Person)

-------------------------------------------------------------------------------

\* What a machine starts from is varied only where it is the one that runs.
Varied(name, S) == IF running = name THEN S ELSE {CHOOSE x \in S : TRUE}

Init ==
    /\ running \in {"splitter", "reader", "ics", "fusion", "tasks", "diary", "boot"}
    /\ eol \in Varied("reader", Eols)
    /\ invitation \in Varied("ics", Invitation)
    /\ settings \in Varied("diary", Deployment)
    /\ SplitInit /\ ReadInit /\ IcsInit /\ FusionInit /\ TaskInit /\ DiaryInit /\ BootInit

Still(name) ==
    /\ running = name
    /\ UNCHANGED running
    /\ name # "splitter" => UNCHANGED splitVars
    /\ name # "reader" => UNCHANGED readVars
    /\ name # "ics" => UNCHANGED icsVars
    /\ name # "fusion" => UNCHANGED fusionVars
    /\ name # "tasks" => UNCHANGED taskVars
    /\ name # "diary" => UNCHANGED diaryVars
    /\ name # "boot" => UNCHANGED bootVars

Next ==
    \/ Still("splitter") /\ SplitNext
    \/ Still("reader") /\ ReadNext
    \/ Still("ics") /\ IcsNext
    \/ Still("fusion") /\ FusionNext
    \/ Still("tasks") /\ TaskNext
    \/ Still("diary") /\ DiaryNext
    \/ Still("boot") /\ BootNext

vars == <<splitVars, readVars, icsVars, fusionVars, taskVars, diaryVars, bootVars, running>>

Spec == Init /\ [][Next]_vars
==============================================================================
