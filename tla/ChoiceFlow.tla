----------------------------- MODULE ChoiceFlow -----------------------------
(***************************************************************************)
(* The dialogue that turns one link into a job (bot/routers/intake.py and  *)
(* choices.py): a message with buttons, a row of the table requests, and a *)
(* handler for every tap.  The bot runs the handlers of different taps     *)
(* concurrently, and a tap is possible for as long as its button is shown, *)
(* whether or not the handler of an earlier tap is still running.          *)
(*                                                                         *)
(* pc names the awaited operation a handler is about to perform; a step    *)
(* performs it and runs the code up to the next one.  Answering the tap    *)
(* and asking for the position in the queue change nothing here and are    *)
(* left out.  A handler may be lost at any of its awaits: Telegram, the    *)
(* database or yt-dlp raises, or the process is killed, since a handler is *)
(* all that memory holds and the row is on disk.                           *)
(***************************************************************************)
EXTENDS Formats

CONSTANTS RawLists,   \* the lists of formats yt-dlp may answer with
          Tasks,      \* the asyncio tasks of handlers that may run at one time
          MaxTaps     \* bound on the taps of the dialogue

ASSUME TapsAssumption == MaxTaps \in Nat

(* Whatever yt-dlp says of a format, as_int makes integers of it, and 0 of nothing. *)
ASSUME FormatsAssumption ==
  \A raw \in RawLists :
    /\ raw \in Seq(Range(raw))
    /\ \A f \in Range(raw) : f.height \in Int /\ f.tbr \in Int

VARIABLES
  site,      \* [server, video]: a file server is configured; the provider has video
  row,       \* the row of requests: [type, formats, format, destination]
  expired,   \* expires_at is past
  shown,     \* the set of buttons under the message
  handlers,  \* of every task: [pc, button, request, kind, format, raw, options]
  taps,      \* the number of taps so far
  jobs,      \* the rows inserted in jobs: [button, kind, format, destination]
  listed,    \* history: the list row.formats was made of
  wanted,    \* history: the last button tapped of each sort
  overlap,   \* history: a tap was made while a handler was running
  lost       \* history: a handler was lost, or yt-dlp had no formats to offer

vars == <<site, row, expired, shown, handlers, taps, jobs, listed, wanted, overlap, lost>>

Types == {"audio", "video"}
Destinations == {"telegram", "server"}
None == "none"
Ids == UNION {{raw[i].id : i \in DOMAIN raw} : raw \in RawLists}

Button(sort, value) == [sort |-> sort, value |-> value]
TypeKeyboard == {Button("type", v) : v \in Types}
DestinationKeyboard == {Button("destination", v) : v \in Destinations}
QualityKeyboard(options) ==
  {Button("quality", v) : v \in Offered(options)} \union {Button("back", None)}
Buttons == TypeKeyboard \union DestinationKeyboard
             \union {Button("quality", v) : v \in Ids} \union {Button("back", None)}

NewRow == [type |-> None, formats |-> <<>>, format |-> None, destination |-> "telegram"]

NoHandler == [pc |-> "none", button |-> Button("back", None), request |-> NewRow,
              kind |-> None, format |-> None, raw |-> <<>>, options |-> <<>>]

Running(t) == handlers[t].pc # "none"

Ends(t) == handlers' = [handlers EXCEPT ![t] = NoHandler]

-----------------------------------------------------------------------------
Init ==
  /\ site \in [server : BOOLEAN, video : BOOLEAN]
  /\ row = NewRow
  /\ expired = FALSE
  /\ shown = {}
  /\ handlers = [t \in Tasks |-> NoHandler]
  /\ taps = 0
  /\ jobs = <<>>
  /\ listed = <<>>
  /\ wanted = [type |-> None, quality |-> None, destination |-> "telegram", back |-> None]
  /\ overlap = FALSE
  /\ lost = FALSE

(* handle_text and _audio_only.  Nothing can be tapped before the message that *)
(* ends it, so it is one step; one that raises leaves no dialogue.             *)
Intake ==
  /\ taps = 0 /\ shown = {} /\ jobs = <<>> /\ row = NewRow /\ ~expired /\ ~lost
  /\ \/ /\ site.video
        /\ shown' = TypeKeyboard
        /\ UNCHANGED <<row, jobs, wanted>>
     \/ /\ ~site.video
        /\ row' = [row EXCEPT !.type = "audio"]
        /\ wanted' = [wanted EXCEPT !.type = "audio"]
        /\ IF site.server
           THEN shown' = DestinationKeyboard /\ UNCHANGED jobs
           ELSE /\ jobs' = <<[button |-> Button("type", "audio"), kind |-> "audio",
                              format |-> None, destination |-> row.destination]>>
                /\ UNCHANGED shown
  /\ UNCHANGED <<site, expired, handlers, taps, listed, overlap, lost>>

(* A tap on a button of the message as it is now. *)
Tap(t, button) ==
  /\ taps < MaxTaps
  /\ button \in shown
  /\ ~Running(t)
  /\ taps' = taps + 1
  /\ handlers' = [handlers EXCEPT ![t] = [NoHandler EXCEPT !.pc = "read", !.button = button]]
  /\ wanted' = [wanted EXCEPT ![button.sort] = button.value]
  /\ overlap' = (overlap \/ \E u \in Tasks : Running(u))
  /\ UNCHANGED <<site, row, expired, shown, jobs, listed, lost>>

-----------------------------------------------------------------------------
(* _resolve and the checks that follow it. *)
AfterRead(button, request) ==
  CASE button.sort = "type" -> "type"
    [] button.sort = "back" -> "back"
    [] button.sort = "quality" ->
         IF button.value \in Offered(request.formats) THEN "choose" ELSE "expire"
    [] button.sort = "destination" ->
         IF request.type # None THEN "destination" ELSE "expire"

Read(t) ==
  /\ handlers[t].pc = "read"
  /\ handlers' = [handlers EXCEPT
       ![t].request = row,
       ![t].pc = IF expired THEN "expire" ELSE AfterRead(handlers[t].button, row)]
  /\ UNCHANGED <<site, row, expired, shown, taps, jobs, listed, wanted, overlap, lost>>

(* _expired *)
RemoveKeyboard(t) ==
  /\ handlers[t].pc = "expire"
  /\ shown' = {}
  /\ Ends(t)
  /\ UNCHANGED <<site, row, expired, taps, jobs, listed, wanted, overlap, lost>>

(* What _ask_destination awaits, once the choice of a format is written. *)
AskOrEnqueue == IF site.server THEN "ask" ELSE "enqueue"

(* on_type: only a site with video can be asked for one. *)
KindOf(button) == IF site.video THEN button.value ELSE "audio"

(* Mutant of SetType: the type is written for audio only. *)
SetTypeOfAudio(t) ==
  LET kind == KindOf(handlers[t].button)
  IN  /\ handlers[t].pc = "type"
      /\ row' = IF kind = "audio" THEN [row EXCEPT !.type = kind] ELSE row
      /\ handlers' = [handlers EXCEPT
           ![t].kind = kind,
           ![t].pc = IF kind = "audio" THEN AskOrEnqueue ELSE "fetching"]
      /\ UNCHANGED <<site, expired, shown, taps, jobs, listed, wanted, overlap, lost>>

SetType(t) ==
  LET kind == KindOf(handlers[t].button)
  IN  /\ handlers[t].pc = "type"
      /\ row' = [row EXCEPT !.type = kind]
      /\ handlers' = [handlers EXCEPT
           ![t].kind = kind,
           ![t].pc = IF kind = "audio" THEN AskOrEnqueue ELSE "fetching"]
      /\ UNCHANGED <<site, expired, shown, taps, jobs, listed, wanted, overlap, lost>>

(* on_back *)
ShowTypes(t) ==
  /\ handlers[t].pc = "back"
  /\ shown' = TypeKeyboard
  /\ Ends(t)
  /\ UNCHANGED <<site, row, expired, taps, jobs, listed, wanted, overlap, lost>>

-----------------------------------------------------------------------------
(* _show_qualities.  An edit without a keyboard removes the buttons. *)
ShowFetching(t) ==
  LET known == handlers[t].request.formats
  IN  /\ handlers[t].pc = "fetching"
      /\ shown' = {}
      /\ handlers' = [handlers EXCEPT
           ![t].options = known,
           ![t].pc = IF known = <<>> THEN "fetch" ELSE "offer"]
      /\ UNCHANGED <<site, row, expired, taps, jobs, listed, wanted, overlap, lost>>

Fetch(t) ==
  /\ handlers[t].pc = "fetch"
  /\ \E raw \in RawLists :
       LET options == SelectVideoFormats(raw)
       IN  handlers' = [handlers EXCEPT
             ![t].raw = raw,
             ![t].options = options,
             ![t].pc = IF options = <<>> THEN "no formats" ELSE "store"]
  /\ UNCHANGED <<site, row, expired, shown, taps, jobs, listed, wanted, overlap, lost>>

(* YtdlpError *)
FetchFails(t) ==
  /\ handlers[t].pc = "fetch"
  /\ handlers' = [handlers EXCEPT ![t].pc = "no formats"]
  /\ UNCHANGED <<site, row, expired, shown, taps, jobs, listed, wanted, overlap, lost>>

(* Mutant of Store: the answer is added to what is known. *)
StoreMore(t) ==
  /\ handlers[t].pc = "store"
  /\ row' = [row EXCEPT !.formats = @ \o handlers[t].options]
  /\ listed' = handlers[t].raw
  /\ handlers' = [handlers EXCEPT ![t].pc = "offer", ![t].raw = <<>>]
  /\ UNCHANGED <<site, expired, shown, taps, jobs, wanted, overlap, lost>>

Store(t) ==
  /\ handlers[t].pc = "store"
  /\ row' = [row EXCEPT !.formats = handlers[t].options]
  /\ listed' = handlers[t].raw
  /\ handlers' = [handlers EXCEPT ![t].pc = "offer", ![t].raw = <<>>]
  /\ UNCHANGED <<site, expired, shown, taps, jobs, wanted, overlap, lost>>

ShowQualities(t) ==
  /\ handlers[t].pc = "offer"
  /\ shown' = QualityKeyboard(handlers[t].options)
  /\ Ends(t)
  /\ UNCHANGED <<site, row, expired, taps, jobs, listed, wanted, overlap, lost>>

ShowNoFormats(t) ==
  /\ handlers[t].pc = "no formats"
  /\ shown' = {}
  /\ lost' = TRUE
  /\ Ends(t)
  /\ UNCHANGED <<site, row, expired, taps, jobs, listed, wanted, overlap>>

-----------------------------------------------------------------------------
(* Mutant of SetFormat: the choice is not written to the row. *)
RememberFormat(t) ==
  /\ handlers[t].pc = "choose"
  /\ handlers' = [handlers EXCEPT
       ![t].kind = "video", ![t].format = handlers[t].button.value, ![t].pc = AskOrEnqueue]
  /\ UNCHANGED <<site, row, expired, shown, taps, jobs, listed, wanted, overlap, lost>>

(* _ask_destination after a quality was picked. *)
SetFormat(t) ==
  LET format == handlers[t].button.value
  IN  /\ handlers[t].pc = "choose"
      /\ row' = [row EXCEPT !.format = format]
      /\ handlers' = [handlers EXCEPT
           ![t].kind = "video", ![t].format = format, ![t].pc = AskOrEnqueue]
      /\ UNCHANGED <<site, expired, shown, taps, jobs, listed, wanted, overlap, lost>>

ShowDestinations(t) ==
  /\ handlers[t].pc = "ask"
  /\ shown' = DestinationKeyboard
  /\ Ends(t)
  /\ UNCHANGED <<site, row, expired, taps, jobs, listed, wanted, overlap, lost>>

(* Mutant of SetDestination: only the row is written. *)
SetRowDestination(t) ==
  LET h == handlers[t]
  IN  /\ h.pc = "destination"
      /\ row' = [row EXCEPT !.destination = h.button.value]
      /\ handlers' = [handlers EXCEPT
           ![t].kind = h.request.type, ![t].format = h.request.format, ![t].pc = "enqueue"]
      /\ UNCHANGED <<site, expired, shown, taps, jobs, listed, wanted, overlap, lost>>

(* on_destination: the row is written, and so is the copy that _enqueue reads. *)
SetDestination(t) ==
  LET h == handlers[t]
  IN  /\ h.pc = "destination"
      /\ row' = [row EXCEPT !.destination = h.button.value]
      /\ handlers' = [handlers EXCEPT
           ![t].request.destination = h.button.value,
           ![t].kind = h.request.type, ![t].format = h.request.format,
           ![t].pc = "enqueue"]
      /\ UNCHANGED <<site, expired, shown, taps, jobs, listed, wanted, overlap, lost>>

(* Mutant of Enqueue: the kind is the one of the row as it was read. *)
EnqueueAsRead(t) ==
  LET h == handlers[t]
  IN  /\ h.pc = "enqueue"
      /\ jobs' = Append(jobs, [button |-> h.button, kind |-> h.request.type,
                               format |-> h.format, destination |-> h.request.destination])
      /\ handlers' = [handlers EXCEPT ![t].pc = "queued"]
      /\ UNCHANGED <<site, row, expired, shown, taps, listed, wanted, overlap, lost>>

(* _enqueue: the INSERT, then the edit. *)
Enqueue(t) ==
  LET h == handlers[t]
  IN  /\ h.pc = "enqueue"
      /\ jobs' = Append(jobs, [button |-> h.button, kind |-> h.kind, format |-> h.format,
                               destination |-> h.request.destination])
      /\ handlers' = [handlers EXCEPT ![t].pc = "queued"]
      /\ UNCHANGED <<site, row, expired, shown, taps, listed, wanted, overlap, lost>>

(* Mutant of ShowQueued: the edit leaves the buttons. *)
ShowQueuedAbove(t) ==
  /\ handlers[t].pc = "queued"
  /\ Ends(t)
  /\ UNCHANGED <<site, row, expired, shown, taps, jobs, listed, wanted, overlap, lost>>

ShowQueued(t) ==
  /\ handlers[t].pc = "queued"
  /\ shown' = {}
  /\ Ends(t)
  /\ UNCHANGED <<site, row, expired, taps, jobs, listed, wanted, overlap, lost>>

-----------------------------------------------------------------------------
Raise(t) ==
  /\ Running(t)
  /\ Ends(t)
  /\ lost' = TRUE
  /\ UNCHANGED <<site, row, expired, shown, taps, jobs, listed, wanted, overlap>>

(* REQUEST_TTL passes; the row goes at the next start of the process. *)
ExpireRequest ==
  /\ ~expired
  /\ shown # {} \/ taps > 0
  /\ expired' = TRUE
  /\ UNCHANGED <<site, row, shown, handlers, taps, jobs, listed, wanted, overlap, lost>>

HandlerStep(t) ==
  \/ Read(t) \/ RemoveKeyboard(t)
  \/ SetType(t) \/ ShowTypes(t)
  \/ ShowFetching(t) \/ Fetch(t) \/ FetchFails(t) \/ Store(t)
  \/ ShowQualities(t) \/ ShowNoFormats(t)
  \/ SetFormat(t) \/ ShowDestinations(t) \/ SetDestination(t)
  \/ Enqueue(t) \/ ShowQueued(t)

Next ==
  \/ Intake
  \/ \E t \in Tasks, button \in shown : Tap(t, button)
  \/ \E t \in Tasks : HandlerStep(t) \/ Raise(t)
  \/ ExpireRequest

Spec == Init /\ [][Next]_vars

-----------------------------------------------------------------------------
Idle == \A t \in Tasks : ~Running(t)

OptionLists == {<<>>} \union {SelectVideoFormats(raw) : raw \in RawLists}
Rows == [type : Types \union {None}, formats : OptionLists, format : Ids \union {None},
         destination : Destinations]

(* Every button under the message is one its handler can serve, every job has a *)
(* kind, and a list of formats held for the row is one that yt-dlp's list gives. *)
TypeOK ==
  /\ row \in Rows
  /\ shown \subseteq Buttons
  /\ \A t \in Tasks :
       /\ handlers[t].button \in Buttons
       /\ handlers[t].request \in Rows
       /\ handlers[t].options \in OptionLists
  /\ \A j \in Range(jobs) : /\ j.kind \in Types
                            /\ j.format \in Ids \union {None}
                            /\ j.destination \in Destinations
  /\ taps \in 0..MaxTaps
  /\ listed \in RawLists \union {<<>>}

JobAsWanted ==
  Len(jobs') > Len(jobs) /\ ~overlap =>
    LET job == Last(jobs')
    IN  /\ job.kind = wanted'.type
        /\ job.kind = "video" => job.format = wanted'.quality
        /\ job.destination = wanted'.destination

(* A user who taps one button at a time gets the job that was asked for: the   *)
(* last type, for a video the last quality, and the last destination, whatever *)
(* handlers were lost on the way, whichever buttons had to be tapped again and *)
(* however often Back was used.                                                *)
SequentialChoicesAreKept == [][JobAsWanted]_vars

(* Even with handlers that overlap and rows that change under them, the tap that *)
(* ends the dialogue decides on what it shows: a destination tap on where the    *)
(* job's files go, a quality tap on a video of that quality, a type tap on audio. *)
LastTapDecides ==
  \A j \in Range(jobs) :
    CASE j.button.sort = "destination" -> j.destination = j.button.value
      [] j.button.sort = "quality" -> j.kind = "video" /\ j.format = j.button.value
      [] j.button.sort = "type" -> j.kind = "audio"
      [] j.button.sort = "back" -> FALSE

(* The qualities kept for a request are the best of each of the largest heights  *)
(* of one answer of yt-dlp, also when two handlers fetched one each.             *)
OptionsAreTheBest ==
  row.formats # <<>> => IsSelection(listed, row.formats)

(* One tap at a time, with no handler lost, no failure of yt-dlp and a request that *)
(* has not expired: a message at rest has buttons, or its job is queued.           *)
NeverStuck ==
  Idle /\ taps > 0 /\ ~overlap /\ ~lost /\ ~expired => shown # {} \/ jobs # <<>>

(* One tap at a time and no handler lost: the dialogue gives one job, and once it *)
(* is over there is no button left to ask for another.                            *)
OneJobPerDialogue ==
  ~overlap /\ ~lost =>
    /\ Len(jobs) <= 1
    /\ Idle /\ jobs # <<>> => shown = {}

=============================================================================
