------------------------------- MODULE BotLoop -------------------------------
(***************************************************************************)
(* The main loop together with the prompt fetcher it drives: the fetcher   *)
(* runs only at the end of a turn, its cache lives as long as the process. *)
(***************************************************************************)
EXTENDS Polling, PromptFetcher

botVars == <<pollVars, promptVars>>

BotInit == PollInit /\ PromptInit

-----------------------------------------------------------------------------
\* Every part of a turn but its last leaves the fetcher alone.
BotTurn ==
  \/ /\ \/ LoopEnds \/ PollAnswered \/ PollExpires \/ PollFails \/ Sleep
        \/ BeginDispatch \/ EndDispatch \/ BatchEnds
     /\ UNCHANGED promptVars
  \/ Tick /\ FetcherTick

Restart ==
  /\ StartProcess
  /\ cache' = NoPrompts /\ initialized' = FALSE /\ due' = FALSE
  /\ announced' = {} /\ told' = NoPrompts
  /\ UNCHANGED <<prompts, edits, pollFaults>>

Around ==
  \/ (Send \/ Signal \/ PollKill) /\ UNCHANGED promptVars
  \/ (Edit \/ Elapse) /\ UNCHANGED pollVars

BotNext == BotTurn \/ Restart \/ Around

BotSpec == BotInit /\ [][BotNext]_botVars

\* As in FairPollSpec; that time passes is a fact, not a duty of the code.
FairBotSpec == /\ BotSpec
               /\ WF_botVars(BotTurn)
               /\ WF_botVars(phase = "killed" /\ Restart)
               /\ WF_botVars(Elapse /\ UNCHANGED pollVars)

-----------------------------------------------------------------------------
\* A poll that is due is made after the batch being handled, unless the
\* process ends or the query fails.
BusyLoopPollsPrompts ==
  phase = "batch" /\ due ~> ~due \/ pollFaults > 0 \/ phase \in Down

\* "Polls every `interval_secs` seconds."
PollsEveryInterval == due /\ phase \notin Down ~> ~due \/ phase \in Down
=============================================================================
