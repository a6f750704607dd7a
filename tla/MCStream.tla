---------------------------- MODULE MCStream -------------------------------
(* Two agents, of whom only the first has a voice of its own: both in one     *)
(* phase, or the first of them in two; and shorter rounds, with listeners, a  *)
(* second attempt, an approval meanwhile, two browsers.                      *)
EXTENDS RoundStream, TLC

CONSTANTS s1, s2

Says(agent, text) == [agent |-> agent, text |-> text]
Round(phases) == [script |-> phases, approved |-> FALSE, asked |-> FALSE,
                  browsers |-> {s1}, attempts |-> 1]
MCRounds ==
    {Round(<< <<Says("ann", "hello"), Says("bob", "hush")>> >>),
     Round(<< <<Says("ann", "hello")>>, <<Says("ann", "again")>> >>),
     [Round(<< <<Says("ann", "hello")>> >>) EXCEPT !.asked = TRUE],
     [Round(<< <<Says("bob", "hush")>> >>) EXCEPT !.attempts = 2],
     [Round(<<>>) EXCEPT !.approved = TRUE, !.asked = TRUE],
     [Round(<<>>) EXCEPT !.approved = TRUE, !.browsers = {s1, s2}]}
MCVoiceOf == [ann |-> "hers", bob |-> "plain"]
MCNarrationKey == <<"narration", "narrator">>
MCKeys == {MCNarrationKey, <<"hello", "hers">>, <<"hello", "plain">>, <<"hush", "hers">>, <<"hush", "plain">>,
           <<"again", "hers">>, <<"again", "plain">>}
MCAgeing == {MCNarrationKey}
MCRequests ==
    [by : {"round"}, no : 1 .. Attempts] \cup [by : {"plan", "http"}, no : {1}]
    \cup [by : {"own", "default"}, no : 1 .. MaxSpeech]
=============================================================================
