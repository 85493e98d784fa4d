----------------------------- MODULE TelegramBot -----------------------------
\* The apply button's long poller (internal/telegrambot) and Telegram as the
\* poller sees it.  Telegram keeps every update until a getUpdates names a
\* higher offset, and hands out all it keeps.  The offset lives in memory only:
\* a process that starts asks from 0 and is given again what it had not
\* confirmed.  handleCallback runs one update at a time, in the poller's own
\* goroutine, and pushes the apply before it answers.
EXTENDS Integers, Sequences, FiniteSets

CONSTANTS Buttons,       \* messages that carry an "apply all updates" button
          MaxPresses,    \* bound: presses
          MaxLost,       \* bound: Telegram calls that fail
          MaxBotRestarts    \* bound: restarts of the aggregator

ASSUME BotAssumption ==
    MaxPresses \in Nat /\ MaxLost \in Nat /\ MaxBotRestarts \in Nat

\* What a press turns out to be: one by someone allowed, with data that
\* parseApplyAll accepts; or one that is answered with an alert.
Kinds == {"apply", "refused"}
UpdateIds == 1..MaxPresses

VARIABLES sent,          \* Telegram: the updates so far, ids 1..Len(sent)
          confirmed,     \* Telegram: ids up to here are gone for good
          keyboard,      \* Telegram: messages that still show their button
          answered,      \* Telegram: updates whose spinner was stopped
          offset,        \* Run's offset
          current, last, \* Run's updates still to handle: ids current..last
          step,          \* "poll", or handleCallback's place
          stopping,      \* ctx is cancelled
          applied,       \* per update: applies PushApply accepted for it
          handled,       \* updates whose handleCallback returned
          lost, botRestarts

telegramVars == <<sent, confirmed, keyboard, answered>>
botVars == <<offset, current, last, step, stopping>>
bot == <<telegramVars, botVars, applied, handled, lost, botRestarts>>

InitBot ==
    /\ sent = <<>> /\ confirmed = 0 /\ keyboard = Buttons /\ answered = {}
    /\ offset = 0 /\ current = 1 /\ last = 0 /\ step = "poll" /\ stopping = FALSE
    /\ applied = [u \in UpdateIds |-> 0] /\ handled = {}
    /\ lost = 0 /\ botRestarts = 0

\* Someone presses a button that is still shown.
PressButton(b, kind) ==
    /\ Len(sent) < MaxPresses
    /\ b \in keyboard
    /\ sent' = Append(sent, [button |-> b, kind |-> kind])
    /\ UNCHANGED <<confirmed, keyboard, answered, botVars, applied, handled,
                   lost, botRestarts>>

\* Telegram's side of getUpdates(offset): ids below it are dropped.
ConfirmBelow(n) == confirmed' = IF n - 1 > confirmed THEN n - 1 ELSE confirmed

\* getUpdates succeeded: all that Telegram still keeps, or nothing.
Poll ==
    /\ step = "poll" /\ ~ stopping
    /\ ConfirmBelow(offset)
    /\ current' = confirmed' + 1 /\ last' = Len(sent)
    /\ step' = IF confirmed' < Len(sent) THEN "take" ELSE "poll"
    /\ UNCHANGED <<sent, keyboard, answered, offset, stopping, applied, handled,
                   lost, botRestarts>>

\* getUpdates failed, before Telegram saw it or after: the poller waits and
\* asks again with the same offset.
PollFails ==
    /\ lost < MaxLost
    /\ step = "poll" /\ ~ stopping
    /\ lost' = lost + 1
    /\ ConfirmBelow(offset) \/ UNCHANGED confirmed
    /\ UNCHANGED <<sent, keyboard, answered, botVars, applied, handled, botRestarts>>

TakePast ==                             \* mutant: the offset skips one more
    /\ step = "take"
    /\ offset' = IF current >= offset THEN current + 2 ELSE offset
    /\ step' = "handle"
    /\ UNCHANGED <<telegramVars, current, last, stopping, applied, handled, lost, botRestarts>>

\* The loop's head: the offset moves past the update, then its handler starts.
Take ==
    /\ step = "take"
    /\ offset' = IF current >= offset THEN current + 1 ELSE offset
    /\ step' = "handle"
    /\ UNCHANGED <<telegramVars, current, last, stopping, applied, handled, lost, botRestarts>>

\* A refused press, or one whose apply fails: an alert, and the button stays.
Refuse ==
    /\ step = "handle"
    /\ step' = "alert"
    /\ UNCHANGED <<telegramVars, offset, current, last, stopping, applied, handled,
                   lost, botRestarts>>

\* PushApply accepted it: the host is approved and its stream has room.  It
\* does not look at ctx.
Apply ==
    /\ step = "handle"
    /\ sent[current].kind = "apply"
    /\ applied' = [applied EXCEPT ![current] = @ + 1]
    /\ step' = "answer"
    /\ UNCHANGED <<telegramVars, offset, current, last, stopping, handled, lost, botRestarts>>

Returned ==
    /\ handled' = handled \cup {current}
    /\ current' = current + 1
    /\ step' = IF current = last THEN "poll" ELSE "take"

\* answerCallbackQuery, best effort: a failure is logged and nothing is retried.
\* With ctx cancelled every call fails.
MayFail == stopping \/ lost < MaxLost
CountFailure == lost' = IF stopping THEN lost ELSE lost + 1

Answer ==
    /\ step \in {"answer", "alert"}
    /\ \/ /\ ~ stopping
          /\ answered' = answered \cup {current}
          /\ UNCHANGED lost
       \/ MayFail /\ CountFailure /\ UNCHANGED answered
    /\ IF step = "answer"
       THEN step' = "clear" /\ UNCHANGED <<current, handled>>
       ELSE Returned
    /\ UNCHANGED <<sent, confirmed, keyboard, offset, last, stopping, applied,
                   botRestarts>>

\* clearKeyboard, best effort as well.
Clear ==
    /\ step = "clear"
    /\ \/ /\ ~ stopping
          /\ keyboard' = keyboard \ {sent[current].button}
          /\ UNCHANGED lost
       \/ MayFail /\ CountFailure /\ UNCHANGED keyboard
    /\ Returned
    /\ UNCHANGED <<sent, confirmed, answered, offset, last, stopping, applied,
                   botRestarts>>

\* SIGTERM: the batch in hand is still walked through, the next poll is not made.
Cancel ==
    /\ ~ stopping
    /\ botRestarts < MaxBotRestarts
    /\ stopping' = TRUE
    /\ UNCHANGED <<telegramVars, offset, current, last, step, applied, handled, lost,
                   botRestarts>>

\* The process ends, cancelled or killed, wherever the poller stands (run does
\* not wait for its goroutine), and starts again.
RestartBot ==
    /\ botRestarts < MaxBotRestarts
    /\ botRestarts' = botRestarts + 1
    /\ offset' = 0 /\ current' = 1 /\ last' = 0 /\ step' = "poll" /\ stopping' = FALSE
    /\ UNCHANGED <<telegramVars, applied, handled, lost>>

BotStep == Poll \/ Take \/ Refuse \/ Apply \/ Answer \/ Clear

BotNext ==
    \/ \E b \in Buttons : \E k \in Kinds : PressButton(b, k)
    \/ BotStep \/ PollFails \/ Cancel \/ RestartBot

\* The poller never waits for good, and a process told to stop is replaced.
BotSpec ==
    /\ InitBot /\ [][BotNext]_bot
    /\ WF_bot(BotStep) /\ WF_bot(stopping /\ RestartBot)

BotTypeOK ==
    /\ sent \in Seq([button : Buttons, kind : Kinds]) /\ Len(sent) =< MaxPresses
    /\ confirmed \in 0..Len(sent)
    /\ keyboard \subseteq Buttons
    /\ answered \subseteq 1..Len(sent) /\ handled \subseteq 1..Len(sent)
    /\ offset \in 0..(Len(sent) + 1)
    /\ current \in Nat \ {0} /\ last \in 0..Len(sent)
    /\ step \in {"poll", "take", "handle", "answer", "alert", "clear"}
    /\ step # "poll" => current =< last
    /\ stopping \in BOOLEAN
    /\ applied \in [UpdateIds -> Nat]
    /\ lost \in 0..MaxLost /\ botRestarts \in 0..MaxBotRestarts

\* ConfirmedWasHandled: Telegram drops an update for good only when its handler
\* has returned, whatever calls were lost and wherever the process was killed:
\* the offset is in memory and confirms a batch only at the next getUpdates, so
\* no press disappears (Run; "a missed button press").
ConfirmedWasHandled == 1..confirmed \subseteq handled

\* AppliedOncePerRun: a press is pushed again only by a process that started
\* after the one that pushed it: within one process the offset, taken before
\* the handler, and lost answers never apply it twice.
AppliedOncePerRun == \A u \in UpdateIds : applied[u] =< 1 + botRestarts

\* PressIsHandled: every press is handled in the end, also when Telegram calls
\* fail and when the process restarts between a poll and the handler (Run).
PressIsHandled == \A u \in UpdateIds : Len(sent) >= u ~> u \in handled
=============================================================================
