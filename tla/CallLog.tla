------------------------------- MODULE CallLog -------------------------------
(****************************************************************************)
(* One outgoing call: clickToCall asks the provider to dial, and makes the  *)
(* row of the call when it is answered; the webhook of the provider reports *)
(* how the call goes on and updates that row, or makes it when it comes     *)
(* first; every 15 minutes the calls with a recording are transcribed.      *)
(* Events may be repeated, late, out of order and handled at the same time. *)
(****************************************************************************)
EXTENDS Integers, FiniteSets

CONSTANTS Hooks,                            \* webhook requests that may overlap
          MaxHooks, MaxByUser, MaxStops     \* bounds

ASSUME CallAssumption == {MaxHooks, MaxByUser, MaxStops} \subseteq Nat

VARIABLES
    dial,       \* where clickToCall is
    reported,   \* the events of the call so far
    call,       \* the row that has the identifier of the provider
    hook,       \* where each webhook request is, and the row that it has read
    hooks,
    writing,    \* the transcriptions under way: by the cron, by a user
    userRuns, stops,
    handled,    \* history: the events that reached the row
    blind,      \* history: a webhook wrote over what it had not read
    backwards,  \* history: an event was handled after a later one
    met         \* history: two transcriptions overlapped, or one was cut off

callVars == <<dial, reported, call, hook, hooks, writing, userRuns, stops,
              handled, blind, backwards, met>>

Events == {"ringing", "answered", "ended"}
Order == [ringing |-> 1, answered |-> 2, ended |-> 3]
StatusOf == [ringing |-> "RINGING", answered |-> "ANSWERED", ended |-> "COMPLETED"]
\* answered_at; ended_at with the duration and the address of the recording.
StampsOf(e) == {e} \ {"ringing"}
NoCall == [tenant |-> "no", status |-> "none", stamps |-> {},
           transcription |-> "none", text |-> "no"]
\* Of the row that a webhook reads, what it uses.
SeenCall == [made |-> IF call = NoCall THEN "no" ELSE "yes", tenant |-> call.tenant,
         stamps |-> call.stamps]
NoHook == [at |-> "idle", event |-> "ringing",
           seen |-> [made |-> "no", tenant |-> "no", stamps |-> {}]]

CallTypeOK ==
    /\ dial \in {"idle", "asked", "logged", "failed"} /\ reported \subseteq Events
    /\ call.status \in {"none", "RINGING", "ANSWERED", "COMPLETED"} /\ call.stamps \subseteq Events
    /\ call.transcription \in {"none", "RUNNING", "DONE", "FAILED"}
    /\ \A h \in Hooks : hook[h].at \in {"idle", "tenant", "row"} /\ hook[h].event \in Events
    /\ hooks \in 0..MaxHooks /\ writing \subseteq {"cron", "user"} /\ handled \subseteq Events
    /\ {call.tenant, call.text, blind, backwards, met} \subseteq {"no", "yes"}

CallInit ==
    /\ dial = "idle" /\ reported = {} /\ call = NoCall /\ hook = [h \in Hooks |-> NoHook]
    /\ hooks = 0 /\ writing = {} /\ userRuns = 0 /\ stops = 0 /\ handled = {}
    /\ blind = "no" /\ backwards = "no" /\ met = "no"

\* POST /click2call: from here on the provider dials.
Dial ==
    /\ dial = "idle" /\ dial' = "asked" /\ reported' = {"ringing"}
    /\ UNCHANGED <<call, hook, hooks, writing, userRuns, stops, handled, blind, backwards, met>>

\* The answer of the provider makes the row.  A webhook may have made it before
\* (the identifier is unique), and an answer after 10 s makes a FAILED row
\* without the identifier, which no event will find.
LogCall ==
    /\ dial = "asked"
    /\ \/ call = NoCall /\ dial' = "logged"
          /\ call' = [NoCall EXCEPT !.tenant = "yes", !.status = "RINGING"]
       \/ dial' = "failed" /\ UNCHANGED call
    /\ UNCHANGED <<reported, hook, hooks, writing, userRuns, stops, handled, blind, backwards, met>>

Report(e) ==
    /\ "ringing" \in reported /\ "ended" \notin reported /\ reported' = reported \union {e}
    /\ UNCHANGED <<dial, call, hook, hooks, writing, userRuns, stops,
                   handled, blind, backwards, met>>

\* findUnique of the tenant, whose secret then checks the signature.
HookArrives(h, e) ==
    /\ hook[h].at = "idle" /\ e \in reported /\ hooks < MaxHooks /\ hooks' = hooks + 1
    /\ hook' = [hook EXCEPT ![h] = [at |-> "tenant", event |-> e, seen |-> SeenCall]]
    /\ UNCHANGED <<dial, reported, call, writing, userRuns, stops, handled, blind, backwards, met>>

\* The row is read again after the signature was checked and the number resolved.
HookReads(h) ==
    /\ hook[h].at = "tenant"
    /\ hook' = [hook EXCEPT ![h].at = "row", ![h].seen = SeenCall]
    /\ UNCHANGED <<dial, reported, call, hooks, writing, userRuns, stops,
                   handled, blind, backwards, met>>

\* No row, no tenant: the secret of the instance checks what the tenant's signed.
HookRefused(h) ==
    /\ hook[h].at = "tenant" /\ hook[h].seen.tenant = "no"
    /\ hook' = [hook EXCEPT ![h] = NoHook]
    /\ UNCHANGED <<dial, reported, call, hooks, writing, userRuns, stops,
                   handled, blind, backwards, met>>

\* What the event does not say is taken from the row that was read.
Stamped_Slip(h) == StampsOf(hook[h].event)
Stamped(h) == hook[h].seen.stamps \union StampsOf(hook[h].event)

Handled(e) ==
    /\ handled' = handled \union {e}
    /\ backwards' = IF \E f \in handled : Order[f] > Order[e] THEN "yes" ELSE backwards

HookWrites(h) ==
    LET e == hook[h].event  seen == hook[h].seen IN
    /\ hook[h].at = "row" /\ hook' = [hook EXCEPT ![h] = NoHook]
    /\ \/ seen.made = "yes" /\ Handled(e)
          /\ call' = [call EXCEPT !.status = StatusOf[e], !.stamps = Stamped(h)]
          /\ blind' = IF seen.stamps # call.stamps THEN "yes" ELSE blind
       \/ seen.made = "no" /\ call = NoCall /\ Handled(e) /\ UNCHANGED blind
          /\ call' = [NoCall EXCEPT !.status = StatusOf[e], !.stamps = StampsOf(e)]
       \/ seen.made = "no" /\ call # NoCall /\ UNCHANGED <<call, handled, blind, backwards>>
    /\ UNCHANGED <<dial, reported, hooks, writing, userRuns, stops, met>>

\* runAuto takes the calls of a tenant that have a recording and were never
\* transcribed; a user may ask for any call that has a recording, at any time.
MayTranscribe(by) ==
    /\ "ended" \in call.stamps /\ by \notin writing
    /\ IF by = "cron" THEN call.tenant = "yes" /\ call.transcription = "none"
                      ELSE userRuns < MaxByUser

StartTranscription(by) ==
    /\ MayTranscribe(by) /\ writing' = writing \union {by}
    /\ call' = [call EXCEPT !.transcription = "RUNNING"]
    /\ userRuns' = IF by = "user" THEN userRuns + 1 ELSE userRuns
    /\ met' = IF writing # {} THEN "yes" ELSE met
    /\ UNCHANGED <<dial, reported, hook, hooks, stops, handled, blind, backwards>>

\* The recording cannot be fetched, or Whisper refuses: FAILED, and the text of
\* an earlier transcription stays.
EndTranscription(by) ==
    /\ by \in writing /\ writing' = writing \ {by}
    /\ \/ call' = [call EXCEPT !.transcription = "DONE", !.text = "yes"]
       \/ call' = [call EXCEPT !.transcription = "FAILED"]
    /\ UNCHANGED <<dial, reported, hook, hooks, userRuns, stops, handled, blind, backwards, met>>

\* The process stops: RUNNING stays, and the cron does not come back to it.
StopTranscription ==
    /\ writing # {} /\ writing' = {} /\ stops < MaxStops /\ stops' = stops + 1 /\ met' = "yes"
    /\ UNCHANGED <<dial, reported, call, hook, hooks, userRuns, handled, blind, backwards>>

CallNext ==
    \/ Dial \/ LogCall \/ StopTranscription
    \/ \E e \in Events : Report(e) \/ (\E h \in Hooks : HookArrives(h, e))
    \/ \E h \in Hooks : HookReads(h) \/ HookRefused(h) \/ HookWrites(h)
    \/ \E by \in {"cron", "user"} : StartTranscription(by) \/ EndTranscription(by)

CallFairness == WF_callVars(StartTranscription("cron")) /\ WF_callVars(EndTranscription("cron"))
CallSpec == CallInit /\ [][CallNext]_callVars /\ CallFairness

(***************************************************************************)
(* Properties.                                                             *)
(***************************************************************************)

\* In whatever order its events come, the row has the stamps of all that were
\* handled unless two handlers crossed, and unless they came out of order its
\* status is that of the furthest.
CallTellsItsStory ==
    blind = "no" =>
        /\ call.stamps = UNION {StampsOf(e) : e \in handled}
        /\ backwards = "no" =>
             \A e \in handled :
               (\A f \in handled : Order[f] <= Order[e]) => call.status = StatusOf[e]

\* A transcription that nothing met says how it ended: RUNNING while it is under
\* way only, DONE with a text.
TranscriptionIsTold ==
    met = "no" => /\ (call.transcription = "RUNNING") = (writing # {})
                  /\ call.transcription = "DONE" => call.text = "yes"

\* The recorded call of a tenant waits for its transcription.
TranscriptionLeft == /\ call.tenant = "yes" /\ "ended" \in call.stamps
                     /\ call.transcription = "none" \/ "cron" \in writing
TranscribedInTheEnd == []<>~TranscriptionLeft
=============================================================================
