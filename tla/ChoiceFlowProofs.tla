-------------------------- MODULE ChoiceFlowProofs ---------------------------
(***************************************************************************)
(* Proofs about ChoiceFlow, for any answers of yt-dlp, any number of       *)
(* handlers at a time and any number of taps.                              *)
(***************************************************************************)
EXTENDS ChoiceFlow, DataInduction

(* The part of TypeOK that the arguments need.  That an option is one of yt-dlp's *)
(* formats needs an induction and comes last (OfferedAreIds).                     *)
Picks == UNION {Offered(options) : options \in OptionLists}
Pressable == TypeKeyboard \union DestinationKeyboard
               \union {Button("quality", v) : v \in Picks} \union {Button("back", None)}
Values == Types \union Destinations \union Picks \union {None}
RowSet == [type : Values, formats : OptionLists, format : Values, destination : Values]
HandlerPc == {"none", "read", "expire", "type", "back", "choose", "destination", "fetching", "fetch",
              "no formats", "store", "offer", "ask", "enqueue", "queued"}
HandlerSet == [pc : HandlerPc, button : Pressable, request : RowSet, kind : Values,
               format : Values, raw : RawLists \union {<<>>}, options : OptionLists]
JobSet == [button : Pressable, kind : Values, format : Values, destination : Values]
WantedSet == [type : Values, quality : Values, destination : Values, back : Values]

Shape ==
  /\ site \in [server : BOOLEAN, video : BOOLEAN]
  /\ row \in RowSet
  /\ shown \subseteq Pressable
  /\ handlers \in [Tasks -> HandlerSet]
  /\ jobs \in Seq(JobSet)
  /\ wanted \in WantedSet
  /\ overlap \in BOOLEAN

(* A handler is where a tap on its button leads. *)
OfType == {"type", "fetching", "fetch", "no formats", "store", "offer"}

OnItsWay(h) ==
  /\ h.pc \in OfType => h.button.sort = "type"
  /\ h.pc = "choose" => h.button.sort = "quality"
  /\ h.pc = "destination" => h.button.sort = "destination"
  /\ h.pc = "back" => h.button.sort = "back"
  /\ h.pc = "ask" => h.button.sort \in {"type", "quality"}

TapsInv == taps \in Nat /\ (taps = 0 => \A t \in Tasks : ~Running(t))

(* What the last tap has decided, in the copy that _enqueue is given. *)
Decides(button, kind, format, destination) ==
  CASE button.sort = "destination" -> destination = button.value
    [] button.sort = "quality" -> kind = "video" /\ format = button.value
    [] button.sort = "type" -> kind = "audio"
    [] button.sort = "back" -> FALSE

Deciding(h) ==
  /\ OnItsWay(h)
  /\ h.pc = "ask" /\ h.button.sort = "type" => h.kind = "audio"
  /\ h.pc = "enqueue" => Decides(h.button, h.kind, h.format, h.request.destination)

DecisionInv == LastTapDecides /\ \A t \in Tasks : Deciding(handlers[t])

(* The buttons under the message are those of one keyboard, and a dialogue without *)
(* a file server or without video never shows theirs.                              *)
Shows(sort) == \E button \in shown : button.sort = sort

(* A handler runs only for a button of a keyboard that this dialogue shows. *)
Placed(h) ==
  /\ h.pc # "none" => IF h.button.sort = "destination" THEN site.server ELSE site.video
  /\ h.pc = "ask" => site.server
  /\ h.pc = "enqueue" /\ h.button.sort # "destination" => ~site.server
  /\ ~site.server => h.request.destination = "telegram"

KeyboardInv ==
  /\ Shows("type") => ~Shows("quality") /\ ~Shows("destination")
  /\ Shows("quality") => ~Shows("destination")
  /\ Shows("type") \/ Shows("quality") \/ Shows("back") => site.video
  /\ Shows("destination") => site.server
  /\ ~site.server => row.destination = "telegram" /\ wanted.destination = "telegram"
  /\ \A t \in Tasks : Placed(handlers[t])

(* The row holds the type and the quality that were tapped last. *)
Agreed ==
  row.type = wanted.type /\ (row.type = "video" => row.format = wanted.quality)

(* What the handler of the only tap under way has come to. *)
Serves(h) ==
  /\ h.button.sort # "back" => wanted[h.button.sort] = h.button.value
  /\ h.button.sort = "type" => ~Shows("quality") /\ ~Shows("destination")
  /\ h.pc \in {"fetching", "fetch", "store", "offer"} =>
       row.type = "video" /\ wanted.type = "video"
  /\ h.button.sort = "type" /\ h.pc \in {"ask", "enqueue"} =>
       h.kind = "audio" /\ row.type = "audio" /\ wanted.type = "audio"
  /\ h.button.sort = "quality" =>
       ~Shows("destination") /\ row.type = "video" /\ wanted.type = "video"
  /\ h.button.sort = "quality" /\ h.pc \in {"ask", "enqueue"} =>
       h.kind = "video" /\ h.format = h.button.value /\ row.format = h.button.value
  /\ h.button.sort = "destination" => Agreed
  /\ h.pc = "destination" => h.request.type = row.type /\ h.request.format = row.format
  /\ h.button.sort = "destination" /\ h.pc = "enqueue" =>
       /\ h.kind = row.type /\ h.format = row.format
       /\ h.request.destination = h.button.value

SequentialInv ==
  ~overlap =>
    /\ \A t, u \in Tasks : Running(t) /\ Running(u) => t = u
    /\ Shows("quality") => row.type = "video" /\ wanted.type = "video"
    /\ Shows("destination") => Agreed
    /\ \A t \in Tasks : Running(t) => Serves(handlers[t])
-----------------------------------------------------------------------------
LEMMA Keyboards ==
  /\ TypeKeyboard \subseteq Pressable /\ DestinationKeyboard \subseteq Pressable
  /\ \A options \in OptionLists : QualityKeyboard(options) \subseteq Pressable
BY DEF Pressable, QualityKeyboard, Picks

LEMMA SortOf ==
  ASSUME NEW button \in Pressable
  PROVE  /\ button = [sort |-> button.sort, value |-> button.value]
         /\ button.value \in Values
         /\ \/ button.sort = "type" /\ button.value \in Types
            \/ button.sort = "destination" /\ button.value \in Destinations
            \/ button.sort = "quality"
            \/ button.sort = "back"
BY DEF Pressable, TypeKeyboard, DestinationKeyboard, Button, Values

LEMMA Constants ==
  /\ {"telegram", "audio", "video", None} \subseteq Values
  /\ Types = {"audio", "video"} /\ Destinations = {"telegram", "server"} /\ None = "none"
BY DEF Values, Types, Destinations, None

LEMMA NewRowShape == NewRow \in RowSet
<1>1. <<>> \in OptionLists
  BY DEF OptionLists
<1> QED BY <1>1, Constants DEF NewRow, RowSet

LEMMA NoHandlerShape == NoHandler \in HandlerSet
<1>1. <<>> \in OptionLists
  BY DEF OptionLists
<1>2. Button("back", None) \in Pressable
  BY DEF Pressable
<1> QED BY <1>1, <1>2, NewRowShape, Constants DEF NoHandler, HandlerSet, HandlerPc

LEMMA SelectedIsListed == \A raw \in RawLists : SelectVideoFormats(raw) \in OptionLists
BY DEF OptionLists

LEMMA ShapeInit == Init => Shape
<1> SUFFICES ASSUME Init PROVE Shape
  OBVIOUS
<1>1. row \in RowSet /\ shown \subseteq Pressable
  BY NewRowShape DEF Init
<1>2. handlers \in [Tasks -> HandlerSet]
  BY NoHandlerShape DEF Init
<1>3. wanted \in WantedSet
  BY Constants DEF Init, WantedSet
<1>4. jobs \in Seq(JobSet)
  BY DEF Init
<1> QED BY <1>1, <1>2, <1>3, <1>4 DEF Init, Shape

LEMMA ShapeNext == Shape /\ [Next]_vars => Shape'
<1> SUFFICES ASSUME Shape, [Next]_vars PROVE Shape'
  OBVIOUS
<1> USE DEF Shape
<1>1. CASE Intake
  <2>1. row' \in RowSet /\ wanted' \in WantedSet
    BY <1>1, Constants DEF Intake, RowSet, WantedSet
  <2>2. shown' \subseteq Pressable
    BY <1>1, Keyboards DEF Intake
  <2>3. jobs' \in Seq(JobSet)
    <3>1. Button("type", "audio") \in Pressable
      BY Constants DEF Pressable, TypeKeyboard
    <3>2. [button |-> Button("type", "audio"), kind |-> "audio",
           format |-> None, destination |-> row.destination] \in JobSet
      BY <3>1, Constants DEF JobSet, RowSet
    <3>3. jobs' = jobs \/ jobs' = <<[button |-> Button("type", "audio"), kind |-> "audio",
                                     format |-> None, destination |-> row.destination]>>
      BY <1>1 DEF Intake
    <3>4. \A j \in JobSet : <<j>> \in Seq(JobSet)
      OBVIOUS
    <3> QED BY <3>2, <3>3, <3>4
  <2> QED BY <1>1, <2>1, <2>2, <2>3 DEF Intake
<1>2. ASSUME NEW t \in Tasks, NEW button \in shown, Tap(t, button) PROVE Shape'
  <2>1. button \in Pressable
    OBVIOUS
  <2>2. [NoHandler EXCEPT !.pc = "read", !.button = button] \in HandlerSet
    BY <2>1, NoHandlerShape DEF HandlerSet, HandlerPc
  <2>3. handlers' \in [Tasks -> HandlerSet]
    BY <1>2, <2>2 DEF Tap
  <2>4. wanted' \in WantedSet
    BY <1>2, <2>1, SortOf DEF Tap, WantedSet
  <2> QED BY <1>2, <2>3, <2>4 DEF Tap
<1>h. ASSUME NEW t \in Tasks PROVE handlers[t] \in HandlerSet
  BY <1>h
<1>3. ASSUME NEW t \in Tasks, Read(t) PROVE Shape'
  <2>1. AfterRead(handlers[t].button, row) \in HandlerPc
    <3>1. handlers[t].button \in Pressable
      BY <1>h DEF HandlerSet
    <3> QED BY <3>1, SortOf DEF AfterRead, HandlerPc
  <2> DEFINE p == IF expired THEN "expire" ELSE AfterRead(handlers[t].button, row)
  <2>2. [handlers[t] EXCEPT !.request = row, !.pc = p] \in HandlerSet
    BY <1>h, <2>1 DEF HandlerSet, HandlerPc
  <2>3. handlers' = [handlers EXCEPT ![t] = [handlers[t] EXCEPT !.request = row, !.pc = p]]
    BY <1>3 DEF Read
  <2> QED BY <1>3, <2>2, <2>3 DEF Read
<1>4. ASSUME NEW t \in Tasks,
             RemoveKeyboard(t) \/ ShowTypes(t) \/ ShowQualities(t) \/ ShowNoFormats(t)
               \/ ShowDestinations(t) \/ ShowQueued(t) \/ Raise(t)
      PROVE  Shape'
  <2>1. Ends(t) /\ UNCHANGED <<site, row, jobs, wanted, overlap>>
    BY <1>4 DEF RemoveKeyboard, ShowTypes, ShowQualities, ShowNoFormats, ShowDestinations,
                ShowQueued, Raise
  <2>2. shown' \subseteq Pressable
    BY <1>4, <1>h, Keyboards DEF RemoveKeyboard, ShowTypes, ShowQualities, ShowNoFormats,
                                 ShowDestinations, ShowQueued, Raise, HandlerSet
  <2> QED BY <2>1, <2>2, NoHandlerShape DEF Ends
<1>5. ASSUME NEW t \in Tasks, SetType(t) PROVE Shape'
  <2>1. KindOf(handlers[t].button) \in Values
    <3>1. handlers[t].button \in Pressable
      BY <1>h DEF HandlerSet
    <3> QED BY <3>1, SortOf, Constants DEF KindOf
  <2> DEFINE kind == KindOf(handlers[t].button)
             h == [handlers[t] EXCEPT !.kind = kind,
                     !.pc = IF kind = "audio" THEN AskOrEnqueue ELSE "fetching"]
  <2>2. h \in HandlerSet
    BY <1>h, <2>1 DEF HandlerSet, HandlerPc, AskOrEnqueue
  <2>4. handlers' = [handlers EXCEPT ![t] = h]
    BY <1>5 DEF SetType
  <2>3. row' \in RowSet
    BY <1>5, <2>1 DEF SetType, RowSet
  <2> QED BY <1>5, <2>2, <2>3, <2>4 DEF SetType
<1>6. ASSUME NEW t \in Tasks, ShowFetching(t) PROVE Shape'
  <2> DEFINE known == handlers[t].request.formats
             h == [handlers[t] EXCEPT !.options = known,
                     !.pc = IF known = <<>> THEN "fetch" ELSE "offer"]
  <2>1. known \in OptionLists
    BY <1>h DEF HandlerSet, RowSet
  <2>2. h \in HandlerSet
    BY <1>h, <2>1 DEF HandlerSet, HandlerPc
  <2>3. handlers' = [handlers EXCEPT ![t] = h]
    BY <1>6 DEF ShowFetching
  <2> QED BY <1>6, <2>2, <2>3 DEF ShowFetching
<1>7. ASSUME NEW t \in Tasks, Fetch(t) \/ FetchFails(t) PROVE Shape'
  <2>1. CASE Fetch(t)
    <3>1. PICK raw \in RawLists :
            handlers' = [handlers EXCEPT ![t].raw = raw, ![t].options = SelectVideoFormats(raw),
                           ![t].pc = IF SelectVideoFormats(raw) = <<>> THEN "no formats"
                                     ELSE "store"]
      BY <2>1 DEF Fetch
    <3> DEFINE options == SelectVideoFormats(raw)
               h == [handlers[t] EXCEPT !.raw = raw, !.options = options,
                       !.pc = IF options = <<>> THEN "no formats" ELSE "store"]
    <3>2. options \in OptionLists
      BY SelectedIsListed
    <3>3. handlers' = [handlers EXCEPT ![t] = h]
      BY <3>1
    <3> HIDE DEF options
    <3>4. h \in HandlerSet
      BY <1>h, <3>2 DEF HandlerSet, HandlerPc
    <3> QED BY <2>1, <3>3, <3>4 DEF Fetch
  <2>2. CASE FetchFails(t)
    <3>1. [handlers[t] EXCEPT !.pc = "no formats"] \in HandlerSet
      BY <1>h DEF HandlerSet, HandlerPc
    <3> QED BY <2>2, <3>1 DEF FetchFails
  <2> QED BY <1>7, <2>1, <2>2
<1>8. ASSUME NEW t \in Tasks, Store(t) PROVE Shape'
  <2> DEFINE h == [handlers[t] EXCEPT !.pc = "offer", !.raw = <<>>]
  <2>1. h \in HandlerSet /\ row' \in RowSet
    BY <1>8, <1>h DEF Store, HandlerSet, HandlerPc, RowSet
  <2>2. handlers' = [handlers EXCEPT ![t] = h]
    BY <1>8 DEF Store
  <2> QED BY <1>8, <2>1, <2>2 DEF Store
<1>9. ASSUME NEW t \in Tasks, SetFormat(t) \/ SetDestination(t) PROVE Shape'
  <2> DEFINE v == handlers[t].button.value
             r == handlers[t].request
  <2>1. v \in Values /\ r \in RowSet
    BY <1>h, SortOf DEF HandlerSet
  <2>2. CASE SetFormat(t)
    <3> DEFINE h == [handlers[t] EXCEPT !.kind = "video", !.format = v, !.pc = AskOrEnqueue]
    <3>1. h \in HandlerSet
      BY <1>h, <2>1, Constants DEF HandlerSet, HandlerPc, AskOrEnqueue
    <3>2. handlers' = [handlers EXCEPT ![t] = h] /\ row' = [row EXCEPT !.format = v]
      BY <2>2 DEF SetFormat
    <3>3. row' \in RowSet
      BY <2>1, <3>2 DEF RowSet
    <3> QED BY <2>2, <3>1, <3>2, <3>3 DEF SetFormat
  <2>3. CASE SetDestination(t)
    <3> DEFINE h == [handlers[t] EXCEPT !.request.destination = v, !.kind = r.type,
                       !.format = r.format, !.pc = "enqueue"]
    <3>1. [r EXCEPT !.destination = v] \in RowSet /\ r.type \in Values /\ r.format \in Values
      BY <2>1 DEF RowSet
    <3>2. h \in HandlerSet
      BY <1>h, <3>1 DEF HandlerSet, HandlerPc
    <3>3. handlers' = [handlers EXCEPT ![t] = h] /\ row' = [row EXCEPT !.destination = v]
      BY <2>3 DEF SetDestination
    <3>4. row' \in RowSet
      BY <2>1, <3>3 DEF RowSet
    <3> QED BY <2>3, <3>2, <3>3, <3>4 DEF SetDestination
  <2> QED BY <1>9, <2>2, <2>3
<1>10. ASSUME NEW t \in Tasks, Enqueue(t) PROVE Shape'
  <2> DEFINE h == handlers[t]
  <2>1. [button |-> h.button, kind |-> h.kind, format |-> h.format,
         destination |-> h.request.destination] \in JobSet
    BY <1>h DEF JobSet, HandlerSet, RowSet
  <2>2. jobs' \in Seq(JobSet)
    BY <1>10, <2>1 DEF Enqueue
  <2>3. [h EXCEPT !.pc = "queued"] \in HandlerSet
    BY <1>h DEF HandlerSet, HandlerPc
  <2> QED BY <1>10, <2>2, <2>3 DEF Enqueue
<1>11. CASE ExpireRequest
  BY <1>11 DEF ExpireRequest
<1>12. CASE UNCHANGED vars
  BY <1>12 DEF vars
<1> QED
  <2> HIDE DEF Shape
  <2> QED BY <1>1, <1>2, <1>3, <1>4, <1>5, <1>6, <1>7, <1>8, <1>9, <1>10, <1>11, <1>12
          DEF Next, HandlerStep

-----------------------------------------------------------------------------
LEMMA SortsShown ==
  /\ \A b \in TypeKeyboard : b.sort = "type"
  /\ \A b \in DestinationKeyboard : b.sort = "destination"
  /\ \A options : \A b \in QualityKeyboard(options) : b.sort \in {"quality", "back"}
BY DEF TypeKeyboard, DestinationKeyboard, QualityKeyboard, Button

LEMMA AppendRange ==
  ASSUME NEW S, NEW s \in Seq(S), NEW e \in S
  PROVE  Range(Append(s, e)) = Range(s) \union {e} /\ Last(Append(s, e)) = e
BY DEF Range, Last

Inv == Shape /\ TapsInv /\ DecisionInv /\ KeyboardInv /\ SequentialInv

(* What a step of the handler of t may do to the other handlers. *)
OthersKeep(t) == \A u \in Tasks \ {t} : handlers'[u] = handlers[u]

LEMMA TapsNext == TapsInv /\ [Next]_vars => TapsInv'
<1> SUFFICES ASSUME TapsInv, [Next]_vars PROVE TapsInv'
  OBVIOUS
<1>1. ASSUME NEW t \in Tasks, HandlerStep(t) \/ Raise(t) PROVE TapsInv'
  <2>1. Running(t) /\ taps' = taps
    BY <1>1 DEF HandlerStep, Running, Read, RemoveKeyboard, SetType, ShowTypes, ShowFetching,
                Fetch, FetchFails, Store, ShowQualities, ShowNoFormats, SetFormat,
                ShowDestinations, SetDestination, Enqueue, ShowQueued, Raise
  <2> QED BY <2>1 DEF TapsInv
<1>2. ASSUME NEW t \in Tasks, NEW button \in shown, Tap(t, button) PROVE TapsInv'
  BY <1>2 DEF Tap, TapsInv
<1>3. CASE Intake \/ ExpireRequest \/ UNCHANGED vars
  BY <1>3 DEF Intake, ExpireRequest, vars, TapsInv, Running
<1> QED BY <1>1, <1>2, <1>3 DEF Next

LEMMA InvIntake == Inv /\ Intake => (DecisionInv /\ KeyboardInv /\ SequentialInv)'
<1> SUFFICES ASSUME Inv, Intake PROVE (DecisionInv /\ KeyboardInv /\ SequentialInv)'
  OBVIOUS
<1>1. /\ handlers' = handlers /\ overlap' = overlap /\ site' = site
      /\ \A t \in Tasks : ~Running(t)'
  BY DEF Intake, Inv, TapsInv, Running
<1>2. DecisionInv'
  <2> DEFINE job == [button |-> Button("type", "audio"), kind |-> "audio",
                     format |-> None, destination |-> row.destination]
  <2>1. jobs' = jobs \/ jobs' = <<job>>
    BY DEF Intake
  <2>2. Range(<<job>>) = {job} /\ job.button.sort = "type" /\ job.kind = "audio"
    BY DEF Range, Button
  <2>3. LastTapDecides'
    BY <2>1, <2>2 DEF LastTapDecides, Inv, DecisionInv
  <2> QED BY <1>1, <2>3 DEF Inv, DecisionInv
<1>3. \/ shown' = TypeKeyboard /\ site.video /\ UNCHANGED <<row, wanted>>
      \/ /\ shown' = {} \/ (shown' = DestinationKeyboard /\ site.server)
         /\ row' = [row EXCEPT !.type = "audio"] /\ wanted' = [wanted EXCEPT !.type = "audio"]
  BY DEF Intake
<1>4. row'.destination = row.destination /\ wanted'.destination = wanted.destination
  BY <1>3 DEF Inv, Shape, RowSet, WantedSet
<1>5. KeyboardInv'
  <2>1. \A t \in Tasks : Placed(handlers[t])'
    BY <1>1 DEF Inv, KeyboardInv, Placed
  <2> QED BY <1>1, <1>3, <1>4, <2>1, SortsShown DEF Inv, KeyboardInv, Shows
<1>6. SequentialInv'
  <2>1. Shows("destination")' => Agreed'
    BY <1>3, SortsShown DEF Shows, Agreed, Inv, Shape, RowSet, WantedSet
  <2>2. ~Shows("quality")'
    BY <1>3, SortsShown DEF Shows
  <2> QED BY <1>1, <2>1, <2>2 DEF SequentialInv
<1> QED BY <1>2, <1>5, <1>6

(* A handler that ends: it leaves the row and the jobs as they are. *)
LEMMA InvEnds ==
  ASSUME Inv, NEW t \in Tasks,
         RemoveKeyboard(t) \/ ShowTypes(t) \/ ShowQualities(t) \/ ShowNoFormats(t)
           \/ ShowDestinations(t) \/ ShowQueued(t) \/ Raise(t)
  PROVE  (DecisionInv /\ KeyboardInv /\ SequentialInv)'
<1> DEFINE h == handlers[t]
<1>1. Ends(t) /\ UNCHANGED <<site, row, jobs, wanted, overlap>>
  BY DEF RemoveKeyboard, ShowTypes, ShowQualities, ShowNoFormats, ShowDestinations,
         ShowQueued, Raise
<1>2. handlers'[t] = NoHandler /\ OthersKeep(t)
  BY <1>1 DEF Ends, Inv, Shape, OthersKeep
<1>3. Deciding(NoHandler) /\ Placed(NoHandler)' /\ NoHandler.pc = "none"
  BY DEF Deciding, OnItsWay, Placed, NoHandler, NewRow, OfType
<1>4. DecisionInv'
  BY <1>1, <1>2, <1>3 DEF DecisionInv, LastTapDecides, OthersKeep, Inv
<1>5. \/ shown' = shown \/ shown' = {}
      \/ h.pc = "back" /\ shown' = TypeKeyboard
      \/ h.pc = "offer" /\ shown' = QualityKeyboard(h.options)
      \/ h.pc = "ask" /\ shown' = DestinationKeyboard
  BY DEF RemoveKeyboard, ShowTypes, ShowQualities, ShowNoFormats, ShowDestinations,
         ShowQueued, Raise
<1>6. Deciding(h) /\ Placed(h)
  BY DEF Inv, DecisionInv, KeyboardInv
<1>7. /\ h.pc = "back" => h.button.sort = "back" /\ site.video
      /\ h.pc = "offer" => h.button.sort = "type" /\ site.video
      /\ h.pc = "ask" => h.button.sort \in {"type", "quality"} /\ site.server
  BY <1>6 DEF Deciding, OnItsWay, Placed, OfType
<1>8. KeyboardInv'
  <2>1. \A u \in Tasks : Placed(handlers[u])'
    BY <1>1, <1>2, <1>3 DEF Inv, KeyboardInv, Placed, OthersKeep
  <2> QED BY <1>1, <1>5, <1>7, <2>1, SortsShown DEF Inv, KeyboardInv, Shows
<1>9. SequentialInv'
  <2> SUFFICES ASSUME ~overlap
               PROVE  /\ \A u, v \in Tasks : Running(u)' /\ Running(v)' => u = v
                      /\ Shows("quality")' => row.type = "video" /\ wanted.type = "video"
                      /\ Shows("destination")' => Agreed
                      /\ \A u \in Tasks : Running(u)' => Serves(handlers[u])'
    BY <1>1 DEF SequentialInv, Agreed
  <2>1. Running(t)
    BY DEF RemoveKeyboard, ShowTypes, ShowQualities, ShowNoFormats, ShowDestinations,
           ShowQueued, Raise, Running
  <2>2. \A u \in Tasks : ~Running(u)'
    BY <1>2, <1>3, <2>1 DEF Inv, SequentialInv, OthersKeep, Running
  <2>3. Serves(h)
    BY <2>1 DEF Inv, SequentialInv
  <2>4. Shows("quality")' => row.type = "video" /\ wanted.type = "video"
    BY <1>5, <2>3, SortsShown DEF Inv, SequentialInv, Shows, Serves
  <2>5. Shows("destination")' => Agreed
    <3>1. h.pc = "ask" => Agreed
      <4>1. h.pc = "ask" /\ h.button.sort = "type" => Agreed
        BY <2>3 DEF Serves, Agreed
      <4>2. h.pc = "ask" /\ h.button.sort = "quality" => Agreed
        BY <2>3 DEF Serves, Agreed
      <4> QED BY <1>7, <4>1, <4>2
    <3> QED BY <1>5, <3>1, SortsShown DEF Inv, SequentialInv, Shows
  <2> QED BY <2>2, <2>4, <2>5
<1> QED BY <1>4, <1>8, <1>9

LEMMA InvTap ==
  ASSUME Inv, NEW t \in Tasks, NEW button \in shown, Tap(t, button)
  PROVE  (DecisionInv /\ KeyboardInv /\ SequentialInv)'
<1> DEFINE g == handlers'[t]
           sort == button.sort
<1>1. /\ UNCHANGED <<site, row, shown, jobs>>
      /\ handlers' = [handlers EXCEPT ![t] = [NoHandler EXCEPT !.pc = "read", !.button = button]]
      /\ wanted' = [wanted EXCEPT ![button.sort] = button.value]
      /\ overlap' = (overlap \/ \E u \in Tasks : Running(u))
  BY DEF Tap
<1>2. g.pc = "read" /\ g.button = button /\ g.request = NewRow /\ OthersKeep(t)
  BY <1>1, NoHandlerShape DEF Inv, Shape, OthersKeep, HandlerSet, NoHandler
<1>3. /\ sort \in {"type", "destination", "quality", "back"} /\ Shows(sort)
      /\ \A s \in {"type", "destination", "quality", "back"} :
           wanted'[s] = IF s = sort THEN button.value ELSE wanted[s]
  BY <1>1, SortOf DEF Inv, Shape, Shows, WantedSet
<1>4. DecisionInv'
  <2>1. Deciding(g)
    BY <1>2 DEF Deciding, OnItsWay, OfType
  <2> QED BY <1>1, <1>2, <2>1 DEF Inv, DecisionInv, LastTapDecides, OthersKeep
<1>5. KeyboardInv'
  <2>1. Placed(handlers[t])'
    BY <1>1, <1>2, <1>3 DEF Placed, NewRow, Inv, KeyboardInv
  <2>2. \A u \in Tasks : Placed(handlers[u])'
    BY <1>1, <1>2, <2>1 DEF OthersKeep, Placed, Inv, KeyboardInv
  <2>3. ~site.server => wanted'.destination = "telegram"
    BY <1>3 DEF Inv, KeyboardInv
  <2> QED BY <1>1, <2>2, <2>3 DEF Inv, KeyboardInv, Shows
<1>6. SequentialInv'
  <2> SUFFICES ASSUME ~overlap, \A u \in Tasks : ~Running(u)
               PROVE  /\ \A u, v \in Tasks : Running(u)' /\ Running(v)' => u = v
                      /\ Shows("quality")' => row'.type = "video" /\ wanted'.type = "video"
                      /\ Shows("destination")' => Agreed'
                      /\ \A u \in Tasks : Running(u)' => Serves(handlers[u])'
    BY <1>1 DEF SequentialInv
  <2>1. \A u \in Tasks : Running(u)' => u = t
    BY <1>2 DEF OthersKeep, Running
  <2>2. Shows("quality")' => row'.type = "video" /\ wanted'.type = "video"
    BY <1>1, <1>3 DEF Inv, SequentialInv, KeyboardInv, Shows
  <2>3. Shows("destination")' => Agreed'
    BY <1>1, <1>3 DEF Inv, SequentialInv, KeyboardInv, Shows, Agreed
  <2>4. Serves(handlers[t])'
    <3>1. /\ sort # "back" => wanted'[sort] = button.value
          /\ sort = "type" => ~Shows("quality")' /\ ~Shows("destination")'
          /\ sort = "quality" => ~Shows("destination")' /\ row'.type = "video" /\ wanted'.type = "video"
          /\ sort = "destination" => Agreed'
      BY <1>1, <1>3, <2>2, <2>3 DEF Inv, KeyboardInv, Shows
    <3> QED BY <1>2, <3>1 DEF Serves
  <2> QED BY <2>1, <2>2, <2>3, <2>4
<1> QED BY <1>4, <1>5, <1>6

LEMMA InvRead ==
  ASSUME Inv, NEW t \in Tasks, Read(t)
  PROVE  (DecisionInv /\ KeyboardInv /\ SequentialInv)'
<1> DEFINE h == handlers[t]
           g == handlers'[t]
           p == IF expired THEN "expire" ELSE AfterRead(h.button, row)
<1>1. UNCHANGED <<site, row, shown, jobs, wanted, overlap>> /\ h.pc = "read"
  BY DEF Read
<1>2. /\ g.pc = p /\ g.request = row
      /\ g.button = h.button /\ OthersKeep(t)
  BY DEF Read, Inv, Shape, OthersKeep, HandlerSet
<1>3. /\ h.button.sort \in {"type", "destination", "quality", "back"}
      /\ p \in {"expire", "type", "back", "choose", "destination"}
      /\ p = "type" => h.button.sort = "type"
      /\ p = "back" => h.button.sort = "back"
      /\ p = "choose" => h.button.sort = "quality"
      /\ p = "destination" => h.button.sort = "destination"
  <2>1. h.button \in Pressable
    BY DEF Inv, Shape, HandlerSet
  <2> QED BY <2>1, SortOf DEF AfterRead
<1> HIDE DEF p
<1>4. DecisionInv'
  <2>1. Deciding(g)
    BY <1>2, <1>3 DEF Deciding, OnItsWay, OfType
  <2> QED BY <1>1, <1>2, <2>1 DEF Inv, DecisionInv, LastTapDecides, OthersKeep
<1>5. KeyboardInv'
  <2>1. Placed(handlers[t])'
    BY <1>1, <1>2, <1>3 DEF Placed, Inv, KeyboardInv
  <2>2. \A u \in Tasks : Placed(handlers[u])'
    BY <1>1, <1>2, <2>1 DEF OthersKeep, Placed, Inv, KeyboardInv
  <2> QED BY <1>1, <2>2 DEF Inv, KeyboardInv, Shows
<1>6. SequentialInv'
  <2> SUFFICES ASSUME ~overlap
               PROVE  /\ \A u, v \in Tasks : Running(u)' /\ Running(v)' => u = v
                      /\ \A u \in Tasks : Running(u)' => Serves(handlers[u])'
    BY <1>1 DEF SequentialInv, Inv, Agreed, Shows
  <2>1. \A u \in Tasks : Running(u)' => u = t
    BY <1>1, <1>2 DEF OthersKeep, Running, Inv, SequentialInv
  <2>2. Serves(h)
    BY <1>1 DEF Inv, SequentialInv, Running
  <2>3. Serves(handlers[t])'
    BY <1>1, <1>2, <1>3, <2>2 DEF Serves, Agreed, Shows
  <2> QED BY <2>1, <2>3
<1> QED BY <1>4, <1>5, <1>6

(* The frame of a step that goes on: the handler of t becomes g, and the *)
(* others, the buttons and what was tapped stay as they are.             *)
GoesOn(t, g) ==
  /\ Running(t) /\ g.button = handlers[t].button
  /\ handlers'[t] = g /\ OthersKeep(t)
  /\ UNCHANGED <<site, wanted, overlap>>
  /\ shown' = shown \/ shown' = {}

LEMMA GoOnStep ==
  ASSUME Inv, NEW t \in Tasks, NEW g, GoesOn(t, g),
         LastTapDecides', Deciding(g), Placed(g),
         ~site.server => row'.destination = "telegram",
         ~overlap => /\ Serves(handlers[t])'
                     /\ Shows("quality")' => row'.type = "video" /\ wanted.type = "video"
                     /\ Shows("destination")' => Agreed'
  PROVE  (DecisionInv /\ KeyboardInv /\ SequentialInv)'
<1>1. DecisionInv'
  BY DEF GoesOn, Inv, DecisionInv, OthersKeep
<1>2. KeyboardInv'
  <2>1. \A u \in Tasks : Placed(handlers[u])'
    BY DEF GoesOn, OthersKeep, Placed, Inv, KeyboardInv
  <2> QED BY <2>1 DEF GoesOn, Inv, KeyboardInv, Shows
<1>3. SequentialInv'
  <2> SUFFICES ASSUME ~overlap
               PROVE  /\ \A u, v \in Tasks : Running(u)' /\ Running(v)' => u = v
                      /\ Shows("quality")' => row'.type = "video" /\ wanted'.type = "video"
                      /\ Shows("destination")' => Agreed'
                      /\ \A u \in Tasks : Running(u)' => Serves(handlers[u])'
    BY DEF SequentialInv, GoesOn
  <2>1. \A u \in Tasks : Running(u)' => u = t
    BY DEF OthersKeep, Running, Inv, SequentialInv, GoesOn
  <2> QED BY <2>1 DEF GoesOn
<1> QED BY <1>1, <1>2, <1>3

LEMMA InvSetType ==
  ASSUME Inv, NEW t \in Tasks, SetType(t)
  PROVE  (DecisionInv /\ KeyboardInv /\ SequentialInv)'
<1> DEFINE h == handlers[t]
           g == handlers'[t]
<1>1. /\ UNCHANGED <<site, shown, jobs, wanted, overlap>> /\ h.pc = "type"
      /\ row' = [row EXCEPT !.type = KindOf(h.button)]
      /\ handlers' = [handlers EXCEPT ![t].kind = KindOf(h.button),
                        ![t].pc = IF KindOf(h.button) = "audio" THEN AskOrEnqueue ELSE "fetching"]
  BY DEF SetType
<1>2. h.button \in Pressable /\ h.button.sort = "type" /\ site.video
  BY <1>1 DEF Inv, Shape, HandlerSet, DecisionInv, Deciding, OnItsWay, OfType, KeyboardInv, Placed
<1>3. KindOf(h.button) = h.button.value /\ h.button.value \in {"audio", "video"}
  BY <1>2, SortOf, Constants DEF KindOf
<1>4. /\ g.kind = h.button.value /\ g.button = h.button /\ g.request = h.request
      /\ h.button.value = "audio" => g.pc = AskOrEnqueue
      /\ h.button.value = "video" => g.pc = "fetching"
      /\ OthersKeep(t)
  BY <1>1, <1>3 DEF Inv, Shape, OthersKeep, HandlerSet
<1>5. row'.type = h.button.value /\ row'.destination = row.destination
  BY <1>1, <1>3 DEF Inv, Shape, RowSet
<1>6. /\ site.server => AskOrEnqueue = "ask"
      /\ ~site.server => AskOrEnqueue = "enqueue"
  BY DEF AskOrEnqueue
<1>7. GoesOn(t, g)
  BY <1>1, <1>4 DEF GoesOn, Running
<1>8. Deciding(g)
  BY <1>2, <1>3, <1>4, <1>6 DEF Deciding, OnItsWay, OfType, Decides
<1>9. Placed(g)
  BY <1>2, <1>3, <1>4, <1>6 DEF Placed, Inv, KeyboardInv
<1>10. ASSUME ~overlap
       PROVE  /\ Serves(handlers[t])'
              /\ Shows("quality")' => row'.type = "video" /\ wanted.type = "video"
              /\ Shows("destination")' => Agreed'
  <2>1. Serves(h)
    BY <1>1, <1>10 DEF Inv, SequentialInv, Running
  <2>2. wanted.type = h.button.value /\ ~Shows("quality") /\ ~Shows("destination")
    BY <1>2, <2>1 DEF Serves
  <2>3. Serves(handlers[t])'
    BY <1>1, <1>2, <1>3, <1>4, <1>5, <1>6, <2>2 DEF Serves, Shows
  <2> QED BY <1>1, <2>2, <2>3 DEF Shows
<1> QED
  <2>1. LastTapDecides'
    BY <1>1 DEF Inv, DecisionInv, LastTapDecides
  <2> QED BY <1>5, <1>7, <1>8, <1>9, <1>10, <2>1, GoOnStep DEF Inv, KeyboardInv

LEMMA InvFetching ==
  ASSUME Inv, NEW t \in Tasks, ShowFetching(t) \/ Fetch(t) \/ FetchFails(t) \/ Store(t)
  PROVE  (DecisionInv /\ KeyboardInv /\ SequentialInv)'
<1> DEFINE h == handlers[t]
           g == handlers'[t]
<1>1. /\ UNCHANGED <<site, jobs, wanted, overlap>>
      /\ h.pc \in {"fetching", "fetch", "store"}
      /\ shown' = shown \/ shown' = {}
      /\ row' = row \/ row' = [row EXCEPT !.formats = h.options]
  BY DEF ShowFetching, Fetch, FetchFails, Store
<1>2. /\ g.pc \in {"fetch", "offer", "no formats", "store"}
      /\ g.button = h.button /\ g.request = h.request /\ OthersKeep(t)
  <2> USE DEF Inv, Shape, OthersKeep, HandlerSet
  <2>1. CASE ShowFetching(t)
    BY <2>1 DEF ShowFetching
  <2>2. CASE Fetch(t)
    <3>1. PICK raw \in RawLists :
            handlers' = [handlers EXCEPT ![t].raw = raw, ![t].options = SelectVideoFormats(raw),
                           ![t].pc = IF SelectVideoFormats(raw) = <<>> THEN "no formats"
                                     ELSE "store"]
      BY <2>2 DEF Fetch
    <3> QED BY <3>1
  <2>3. CASE FetchFails(t)
    BY <2>3 DEF FetchFails
  <2>4. CASE Store(t)
    BY <2>4 DEF Store
  <2> QED BY <2>1, <2>2, <2>3, <2>4
<1>3. h.button.sort = "type" /\ site.video
  BY <1>1 DEF Inv, DecisionInv, Deciding, OnItsWay, OfType, KeyboardInv, Placed
<1>4. row'.type = row.type /\ row'.format = row.format /\ row'.destination = row.destination
  BY <1>1 DEF Inv, Shape, RowSet
<1>5. GoesOn(t, g)
  BY <1>1, <1>2 DEF GoesOn, Running
<1>6. Deciding(g)
  BY <1>2, <1>3 DEF Deciding, OnItsWay, OfType
<1>7. Placed(g)
  BY <1>2, <1>3 DEF Placed, Inv, KeyboardInv
<1>8. ASSUME ~overlap
      PROVE  /\ Serves(handlers[t])'
             /\ Shows("quality")' => row'.type = "video" /\ wanted.type = "video"
             /\ Shows("destination")' => Agreed'
  <2>1. Serves(h)
    BY <1>1, <1>8 DEF Inv, SequentialInv, Running
  <2>2. /\ wanted.type = h.button.value /\ ~Shows("quality") /\ ~Shows("destination")
        /\ row.type = "video" /\ wanted.type = "video"
    BY <1>1, <1>3, <2>1 DEF Serves
  <2>3. ~Shows("quality")' /\ ~Shows("destination")'
    BY <1>1, <2>2 DEF Shows
  <2>4. Serves(handlers[t])'
    BY <1>1, <1>2, <1>3, <1>4, <2>2, <2>3 DEF Serves
  <2> QED BY <2>3, <2>4
<1> QED
  <2>1. LastTapDecides'
    BY <1>1 DEF Inv, DecisionInv, LastTapDecides
  <2> QED BY <1>4, <1>5, <1>6, <1>7, <1>8, <2>1, GoOnStep DEF Inv, KeyboardInv

LEMMA InvSetFormat ==
  ASSUME Inv, NEW t \in Tasks, SetFormat(t)
  PROVE  (DecisionInv /\ KeyboardInv /\ SequentialInv)'
<1> DEFINE h == handlers[t]
           g == handlers'[t]
           format == h.button.value
<1>1. /\ UNCHANGED <<site, shown, jobs, wanted, overlap>> /\ h.pc = "choose"
      /\ row' = [row EXCEPT !.format = format]
      /\ handlers' = [handlers EXCEPT ![t].kind = "video", ![t].format = format,
                        ![t].pc = AskOrEnqueue]
  BY DEF SetFormat
<1>2. h.button.sort = "quality" /\ site.video
  BY <1>1 DEF Inv, DecisionInv, Deciding, OnItsWay, KeyboardInv, Placed
<1>3. /\ g.pc = AskOrEnqueue /\ g.kind = "video" /\ g.format = format
      /\ g.button = h.button /\ g.request = h.request /\ OthersKeep(t)
  BY <1>1 DEF Inv, Shape, OthersKeep, HandlerSet
<1>4. /\ site.server => AskOrEnqueue = "ask"
      /\ ~site.server => AskOrEnqueue = "enqueue"
  BY DEF AskOrEnqueue
<1>5. row'.format = format /\ row'.type = row.type /\ row'.destination = row.destination
  BY <1>1 DEF Inv, Shape, RowSet
<1>6. GoesOn(t, g)
  BY <1>1, <1>3 DEF GoesOn, Running
<1>7. Deciding(g)
  BY <1>2, <1>3, <1>4 DEF Deciding, OnItsWay, OfType, Decides
<1>8. Placed(g)
  BY <1>2, <1>3, <1>4 DEF Placed, Inv, KeyboardInv
<1>9. ASSUME ~overlap
      PROVE  /\ Serves(handlers[t])'
             /\ Shows("quality")' => row'.type = "video" /\ wanted.type = "video"
             /\ Shows("destination")' => Agreed'
  <2>1. Serves(h)
    BY <1>1, <1>9 DEF Inv, SequentialInv, Running
  <2>2. /\ wanted.quality = format /\ ~Shows("destination")
        /\ row.type = "video" /\ wanted.type = "video"
    BY <1>2, <2>1 DEF Serves
  <2>3. Serves(handlers[t])'
    BY <1>1, <1>2, <1>3, <1>4, <1>5, <2>2 DEF Serves, Shows
  <2> QED BY <1>1, <1>5, <2>2, <2>3 DEF Shows
<1> QED
  <2>1. LastTapDecides'
    BY <1>1 DEF Inv, DecisionInv, LastTapDecides
  <2> QED BY <1>5, <1>6, <1>7, <1>8, <1>9, <2>1, GoOnStep DEF Inv, KeyboardInv

LEMMA InvSetDestination ==
  ASSUME Inv, NEW t \in Tasks, SetDestination(t)
  PROVE  (DecisionInv /\ KeyboardInv /\ SequentialInv)'
<1> DEFINE h == handlers[t]
           g == handlers'[t]
           place == h.button.value
<1>1. /\ UNCHANGED <<site, shown, jobs, wanted, overlap>> /\ h.pc = "destination"
      /\ row' = [row EXCEPT !.destination = place]
      /\ handlers' = [handlers EXCEPT ![t].request.destination = place,
                        ![t].kind = h.request.type, ![t].format = h.request.format,
                        ![t].pc = "enqueue"]
  BY DEF SetDestination
<1>2. h.button.sort = "destination" /\ site.server
  BY <1>1 DEF Inv, DecisionInv, Deciding, OnItsWay, KeyboardInv, Placed
<1>3. /\ g.pc = "enqueue" /\ g.kind = h.request.type /\ g.format = h.request.format
      /\ g.button = h.button /\ g.request.destination = place /\ OthersKeep(t)
  BY <1>1 DEF Inv, Shape, OthersKeep, HandlerSet, RowSet
<1>4. row'.format = row.format /\ row'.type = row.type
  BY <1>1 DEF Inv, Shape, RowSet
<1>5. GoesOn(t, g)
  BY <1>1, <1>3 DEF GoesOn, Running
<1>6. Deciding(g)
  BY <1>2, <1>3 DEF Deciding, OnItsWay, OfType, Decides
<1>7. Placed(g)
  BY <1>2, <1>3 DEF Placed
<1>8. ASSUME ~overlap
      PROVE  /\ Serves(handlers[t])'
             /\ Shows("quality")' => row'.type = "video" /\ wanted.type = "video"
             /\ Shows("destination")' => Agreed'
  <2>1. Serves(h)
    BY <1>1, <1>8 DEF Inv, SequentialInv, Running
  <2>2. /\ wanted.destination = place /\ Agreed
        /\ h.request.type = row.type /\ h.request.format = row.format
    BY <1>1, <1>2, <2>1 DEF Serves
  <2>3. Agreed'
    BY <1>1, <1>4, <2>2 DEF Agreed
  <2>4. Serves(handlers[t])'
    BY <1>1, <1>2, <1>3, <1>4, <2>2, <2>3 DEF Serves, Shows
  <2>5. Shows("quality") => row.type = "video" /\ wanted.type = "video"
    BY <1>8 DEF Inv, SequentialInv
  <2> QED BY <1>1, <1>4, <2>3, <2>4, <2>5 DEF Shows
<1> QED
  <2>1. LastTapDecides'
    BY <1>1 DEF Inv, DecisionInv, LastTapDecides
  <2> QED BY <1>2, <1>5, <1>6, <1>7, <1>8, <2>1, GoOnStep

LEMMA InvEnqueue ==
  ASSUME Inv, NEW t \in Tasks, Enqueue(t)
  PROVE  (DecisionInv /\ KeyboardInv /\ SequentialInv)'
<1> DEFINE h == handlers[t]
           g == handlers'[t]
           job == [button |-> h.button, kind |-> h.kind, format |-> h.format,
                   destination |-> h.request.destination]
<1>1. /\ UNCHANGED <<site, row, shown, wanted, overlap>> /\ h.pc = "enqueue"
      /\ jobs' = Append(jobs, job)
      /\ handlers' = [handlers EXCEPT ![t].pc = "queued"]
  BY DEF Enqueue
<1>2. /\ g.pc = "queued" /\ g.button = h.button /\ g.request = h.request /\ OthersKeep(t)
  BY <1>1 DEF Inv, Shape, OthersKeep, HandlerSet
<1>3. GoesOn(t, g)
  BY <1>1, <1>2 DEF GoesOn, Running
<1>4. Deciding(g)
  BY <1>2 DEF Deciding, OnItsWay, OfType
<1>5. Placed(g)
  BY <1>1, <1>2 DEF Placed, Inv, KeyboardInv
<1>6. LastTapDecides'
  <2>1. Decides(job.button, job.kind, job.format, job.destination)
    BY <1>1 DEF Inv, DecisionInv, Deciding
  <2>2. job \in JobSet
    BY DEF Inv, Shape, HandlerSet, RowSet, JobSet
  <2>3. Range(jobs') = Range(jobs) \union {job}
    BY <1>1, <2>2, AppendRange DEF Inv, Shape
  <2>4. \A j \in Range(jobs) : Decides(j.button, j.kind, j.format, j.destination)
    BY DEF Inv, DecisionInv, LastTapDecides, Decides
  <2>5. \A j \in Range(jobs') : Decides(j.button, j.kind, j.format, j.destination)
    BY <2>1, <2>3, <2>4
  <2> QED BY <2>5 DEF LastTapDecides, Decides
<1>7. ASSUME ~overlap
      PROVE  /\ Serves(handlers[t])'
             /\ Shows("quality")' => row'.type = "video" /\ wanted.type = "video"
             /\ Shows("destination")' => Agreed'
  <2>1. Serves(h)
    BY <1>1, <1>7 DEF Inv, SequentialInv, Running
  <2>2. Serves(handlers[t])'
    BY <1>1, <1>2, <2>1 DEF Serves, Shows, Agreed
  <2> QED BY <1>1, <1>7, <2>2 DEF Shows, Inv, SequentialInv, Agreed
<1> QED BY <1>1, <1>3, <1>4, <1>5, <1>6, <1>7, GoOnStep DEF Inv, KeyboardInv

LEMMA InvNext == Inv /\ [Next]_vars => Inv'
<1> SUFFICES ASSUME Inv, [Next]_vars PROVE Inv'
  OBVIOUS
<1>1. Shape' /\ TapsInv'
  BY ShapeNext, TapsNext DEF Inv
<1>2. CASE ExpireRequest \/ UNCHANGED vars
  <2>1. UNCHANGED <<site, row, shown, handlers, jobs, wanted, overlap>>
    BY <1>2 DEF ExpireRequest, vars
  <2>2. (DecisionInv /\ KeyboardInv /\ SequentialInv)'
    BY <2>1 DEF Inv, DecisionInv, LastTapDecides, Deciding, OnItsWay, Decides, KeyboardInv, Shows,
                Placed, SequentialInv, Running, Serves, Agreed
  <2> QED BY <1>1, <2>2 DEF Inv
<1>3. (DecisionInv /\ KeyboardInv /\ SequentialInv)' \/ ExpireRequest \/ UNCHANGED vars
  BY InvIntake, InvEnds, InvTap, InvRead, InvSetType, InvFetching, InvSetFormat, InvSetDestination,
     InvEnqueue DEF Next, HandlerStep
<1> QED BY <1>1, <1>2, <1>3 DEF Inv

LEMMA InvInit == Init => Inv
<1> SUFFICES ASSUME Init PROVE Inv
  OBVIOUS
<1>1. Shape
  BY ShapeInit
<1>2. TapsInv
  BY DEF Init, TapsInv, Running, NoHandler
<1>3. DecisionInv
  <2>1. Range(jobs) = {}
    BY DEF Init, Range
  <2>2. \A t \in Tasks : handlers[t].pc = "none"
    BY DEF Init, NoHandler
  <2> QED BY <2>1, <2>2 DEF DecisionInv, LastTapDecides, Deciding, OnItsWay, OfType
<1>4. KeyboardInv
  BY DEF Init, KeyboardInv, Shows, Placed, NoHandler, NewRow
<1>5. SequentialInv
  BY DEF Init, SequentialInv, Shows, Running, NoHandler
<1> QED BY <1>1, <1>2, <1>3, <1>4, <1>5 DEF Inv

LEMMA InvCorrect == Spec => []Inv
BY InvInit, InvNext, PTL DEF Spec

(* The tap that ends the dialogue decides on what it shows, however many handlers  *)
(* overlap and whatever they do to the row that each of them has read before       *)
(* (bot/routers/choices.py on_type, on_quality, on_destination, _enqueue).         *)
THEOREM TheLastTapDecides == Spec => []LastTapDecides
<1>1. Inv => LastTapDecides
  BY DEF Inv, DecisionInv
<1> QED BY <1>1, InvCorrect, PTL

LEMMA IntakeAsWanted == Inv /\ Intake => JobAsWanted
<1> SUFFICES ASSUME Inv, Intake, Len(jobs') > Len(jobs) PROVE JobAsWanted
  BY DEF JobAsWanted
<1> DEFINE job == [button |-> Button("type", "audio"), kind |-> "audio",
                   format |-> None, destination |-> row.destination]
<1>1. jobs' # jobs
  OBVIOUS
<1>2. ~site.video /\ wanted' = [wanted EXCEPT !.type = "audio"]
  BY <1>1 DEF Intake
<1>3. ~site.server /\ jobs' = <<job>>
  <2>1. IF site.server THEN jobs' = jobs ELSE jobs' = <<job>>
    BY <1>2 DEF Intake
  <2> QED BY <1>1, <2>1
<1>4. row.destination = "telegram" /\ wanted.destination = "telegram"
  BY <1>3 DEF Inv, KeyboardInv
<1>5. wanted'.type = "audio" /\ wanted'.destination = "telegram"
  BY <1>2, <1>4 DEF Inv, Shape, WantedSet
<1>6. Last(jobs') = job
  BY <1>3 DEF Last
<1>7. job.kind = "audio" /\ job.destination = "telegram"
  BY <1>4
<1> QED BY <1>5, <1>6, <1>7 DEF JobAsWanted

LEMMA EnqueueAsWanted ==
  ASSUME Inv, NEW t \in Tasks, Enqueue(t)
  PROVE  JobAsWanted
<1> SUFFICES ASSUME ~overlap PROVE JobAsWanted
  BY DEF JobAsWanted
<1> DEFINE h == handlers[t]
           job == [button |-> h.button, kind |-> h.kind, format |-> h.format,
                   destination |-> h.request.destination]
<1>1. h.pc = "enqueue" /\ jobs' = Append(jobs, job) /\ wanted' = wanted
  BY DEF Enqueue
<1>2. Last(jobs') = job
  <2>1. job \in JobSet /\ jobs \in Seq(JobSet)
    BY DEF Inv, Shape, HandlerSet, RowSet, JobSet
  <2> QED BY <1>1, <2>1, AppendRange
<1>3. Serves(h) /\ Placed(h)
  BY <1>1 DEF Inv, SequentialInv, KeyboardInv, Running
<1>4. /\ h.button.sort \in {"type", "quality", "destination"}
      /\ h.button.sort # "destination" => ~site.server
  <2>1. h.button \in Pressable /\ Decides(h.button, h.kind, h.format, h.request.destination)
    BY <1>1 DEF Inv, Shape, HandlerSet, DecisionInv, Deciding
  <2> QED BY <1>1, <1>3, <2>1, SortOf DEF Decides, Placed
<1>5. h.button.sort # "destination" => h.request.destination = wanted.destination
  BY <1>3, <1>4 DEF Inv, KeyboardInv, Placed
<1>6. /\ h.kind = wanted.type
      /\ h.kind = "video" => h.format = wanted.quality
      /\ h.request.destination = wanted.destination
  <2>1. CASE h.button.sort = "type"
    BY <1>1, <1>3, <1>5, <2>1 DEF Serves
  <2>2. CASE h.button.sort = "quality"
    BY <1>1, <1>3, <1>5, <2>2 DEF Serves
  <2>3. CASE h.button.sort = "destination"
    BY <1>1, <1>3, <2>3 DEF Serves, Agreed
  <2> QED BY <1>4, <2>1, <2>2, <2>3
<1> QED BY <1>1, <1>2, <1>6 DEF JobAsWanted

LEMMA StepAsWanted == Inv /\ [Next]_vars => JobAsWanted \/ UNCHANGED vars
<1> SUFFICES ASSUME Inv, [Next]_vars PROVE JobAsWanted \/ UNCHANGED vars
  OBVIOUS
<1>1. CASE jobs' = jobs
  <2>1. ~(Len(jobs') > Len(jobs))
    BY <1>1 DEF Inv, Shape
  <2> QED BY <2>1 DEF JobAsWanted
<1>2. CASE Intake
  BY <1>2, IntakeAsWanted
<1>3. ASSUME NEW t \in Tasks, Enqueue(t) PROVE JobAsWanted
  BY <1>3, EnqueueAsWanted
<1>4. jobs' = jobs \/ Intake \/ \E t \in Tasks : Enqueue(t)
  BY DEF Next, HandlerStep, vars, Tap, Read, RemoveKeyboard, SetType, ShowTypes, ShowFetching,
         Fetch, FetchFails, Store, ShowQualities, ShowNoFormats, SetFormat, ShowDestinations,
         SetDestination, ShowQueued, Raise, ExpireRequest
<1> QED BY <1>1, <1>2, <1>3, <1>4

(* One tap at a time gives the job that was asked for: the last type, quality and *)
(* destination, through lost handlers, repeated taps and Back                     *)
(* (bot/routers/choices.py on_type, on_quality, on_destination, _enqueue).        *)
THEOREM TheChoicesAreKept == Spec => SequentialChoicesAreKept
<1>1. Inv /\ [Next]_vars => [JobAsWanted]_vars
  BY StepAsWanted
<1> QED BY <1>1, InvCorrect, PTL DEF Spec, SequentialChoicesAreKept

-----------------------------------------------------------------------------
(* One tap at a time, with no handler lost and no failure of yt-dlp.  A dialogue *)
(* that has its job has no button, or the handler that is to remove them runs.   *)
DialogueInv ==
  ~overlap /\ ~lost /\ jobs # <<>> =>
    /\ Len(jobs) = 1
    /\ \A t \in Tasks : Running(t) => handlers[t].pc = "queued"
    /\ shown = {} \/ \E t \in Tasks : Running(t)

(* What the handler of a request that has not expired can rely on. *)
Live(h) ==
  /\ h.pc # "expire"
  /\ h.pc = "read" /\ h.button.sort = "quality" => h.button.value \in Offered(row.formats)
  /\ h.pc = "read" /\ h.button.sort = "destination" => row.type # None
  /\ h.pc \in {"type", "fetching"} => h.request.formats = row.formats
  /\ h.pc = "offer" => h.options = row.formats
  /\ h.pc = "ask" => row.type # None
  /\ h.pc = "queued" => jobs # <<>>

(* Every button shown is one whose handler does not find the request unfit for it. *)
LiveInv ==
  ~overlap /\ ~lost /\ ~expired =>
    /\ taps > 0 => shown # {} \/ jobs # <<>> \/ \E t \in Tasks : Running(t)
    /\ \A b \in shown : b.sort = "quality" => b.value \in Offered(row.formats)
    /\ Shows("destination") => row.type # None
    /\ \A t \in Tasks : Live(handlers[t])

LEMMA Alone ==
  ASSUME Inv, ~overlap, NEW t \in Tasks, Running(t)
  PROVE  \A u \in Tasks \ {t} : ~Running(u)
BY DEF Inv, SequentialInv

LEMMA StepOfOne ==
  ASSUME Inv, NEW t \in Tasks, HandlerStep(t) \/ Raise(t)
  PROVE  Running(t) /\ OthersKeep(t) /\ UNCHANGED <<site, taps, overlap, expired>>
<1>1. Running(t) /\ UNCHANGED <<site, taps, overlap, expired>>
  BY DEF HandlerStep, Running, Read, RemoveKeyboard, SetType, ShowTypes, ShowFetching,
         Fetch, FetchFails, Store, ShowQualities, ShowNoFormats, SetFormat,
         ShowDestinations, SetDestination, Enqueue, ShowQueued, Raise
<1>2. OthersKeep(t)
  <2> USE DEF Inv, Shape, OthersKeep
  <2>1. CASE RemoveKeyboard(t) \/ ShowTypes(t) \/ ShowQualities(t) \/ ShowNoFormats(t)
               \/ ShowDestinations(t) \/ ShowQueued(t) \/ Raise(t)
    BY <2>1 DEF RemoveKeyboard, ShowTypes, ShowQualities, ShowNoFormats, ShowDestinations,
                ShowQueued, Raise, Ends
  <2>2. CASE Read(t) \/ SetType(t)
    BY <2>2 DEF Read, SetType
  <2>3. CASE ShowFetching(t) \/ FetchFails(t) \/ Store(t)
    BY <2>3 DEF ShowFetching, FetchFails, Store
  <2>4. CASE Fetch(t)
    <3>1. PICK raw \in RawLists :
            handlers' = [handlers EXCEPT ![t].raw = raw, ![t].options = SelectVideoFormats(raw),
                           ![t].pc = IF SelectVideoFormats(raw) = <<>> THEN "no formats"
                                     ELSE "store"]
      BY <2>4 DEF Fetch
    <3> QED BY <3>1
  <2>5. CASE SetFormat(t) \/ SetDestination(t) \/ Enqueue(t)
    BY <2>5 DEF SetFormat, SetDestination, Enqueue
  <2> QED BY <2>1, <2>2, <2>3, <2>4, <2>5 DEF HandlerStep
<1> QED BY <1>1, <1>2

LEMMA DialogueNext == Inv /\ DialogueInv /\ [Next]_vars => DialogueInv'
<1> SUFFICES ASSUME Inv, DialogueInv, [Next]_vars, ~overlap', ~lost', jobs' # <<>>
             PROVE  /\ Len(jobs') = 1
                    /\ \A t \in Tasks : Running(t)' => handlers'[t].pc = "queued"
                    /\ shown' = {} \/ \E t \in Tasks : Running(t)'
  BY DEF DialogueInv
<1>1. CASE Intake
  <2>1. /\ jobs = <<>> /\ handlers' = handlers /\ \A t \in Tasks : ~Running(t)
    BY <1>1 DEF Intake, Inv, TapsInv
  <2>2. Len(jobs') = 1 /\ shown' = {}
    BY <1>1, <2>1 DEF Intake
  <2> QED BY <2>1, <2>2 DEF Running
<1>2. ASSUME NEW t \in Tasks, NEW button \in shown, Tap(t, button) PROVE FALSE
  <2>1. ~overlap /\ ~lost /\ jobs # <<>> /\ \A u \in Tasks : ~Running(u)
    BY <1>2 DEF Tap, Inv, Shape
  <2> QED BY <2>1 DEF DialogueInv
<1>3. ASSUME NEW t \in Tasks, HandlerStep(t) \/ Raise(t)
      PROVE  /\ Len(jobs') = 1
             /\ \A u \in Tasks : Running(u)' => handlers'[u].pc = "queued"
             /\ shown' = {} \/ \E u \in Tasks : Running(u)'
  <2>1. Running(t) /\ OthersKeep(t) /\ ~overlap
    BY <1>3, StepOfOne
  <2>2. \A u \in Tasks \ {t} : ~Running(u) /\ ~Running(u)'
    BY <2>1, Alone DEF OthersKeep, Running
  <2>3. CASE Enqueue(t)
    <3>1. handlers'[t].pc = "queued"
      BY <2>3 DEF Enqueue, Inv, Shape
    <3>2. jobs = <<>>
      BY <2>1, <2>3 DEF Enqueue, DialogueInv
    <3>3. Len(jobs') = 1
      BY <2>3, <3>2 DEF Enqueue
    <3> QED BY <2>2, <3>1, <3>3 DEF Running
  <2>4. CASE ShowQueued(t)
    <3>1. ~Running(t)' /\ shown' = {} /\ jobs' = jobs /\ ~lost
      BY <2>4 DEF ShowQueued, Ends, Inv, Shape, Running, NoHandler
    <3> QED BY <2>1, <2>2, <3>1 DEF DialogueInv
  <2>5. ~Enqueue(t) /\ ~ShowQueued(t) => jobs' = jobs /\ ~lost /\ handlers[t].pc # "queued"
    BY <1>3 DEF HandlerStep, Read, RemoveKeyboard, SetType, ShowTypes, ShowFetching,
                Fetch, FetchFails, Store, ShowQualities, ShowNoFormats, SetFormat,
                ShowDestinations, SetDestination, Raise
  <2> QED BY <2>1, <2>3, <2>4, <2>5 DEF DialogueInv
<1>4. CASE ExpireRequest \/ UNCHANGED vars
  BY <1>4 DEF ExpireRequest, vars, DialogueInv, Running
<1> QED BY <1>1, <1>2, <1>3, <1>4 DEF Next

(* A dialogue without an accident gives one job, and no button is left to ask for *)
(* another one (bot/routers/choices.py _enqueue: the INSERT, then the edit).      *)
THEOREM OneDialogueOneJob == Spec => []OneJobPerDialogue
<1>1. Init => DialogueInv
  BY DEF Init, DialogueInv
<1>2. Inv /\ DialogueInv => OneJobPerDialogue
  BY DEF DialogueInv, OneJobPerDialogue, Idle
<1> QED BY <1>1, <1>2, DialogueNext, InvCorrect, PTL DEF Spec

-----------------------------------------------------------------------------
(* A step of the handler of t in a dialogue without an accident needs to be looked *)
(* at only for that handler, the buttons and the row.                              *)
LEMMA LiveStep ==
  ASSUME Inv, NEW t \in Tasks, HandlerStep(t) \/ Raise(t), ~overlap,
         Running(t)' \/ shown' # {} \/ jobs' # <<>>,
         \A b \in shown' : b.sort = "quality" => b.value \in Offered(row'.formats),
         Shows("destination")' => row'.type # None,
         Live(handlers[t])'
  PROVE  LiveInv'
<1>1. \A u \in Tasks \ {t} : handlers'[u].pc = "none"
  BY StepOfOne, Alone DEF OthersKeep, Running
<1>2. \A u \in Tasks : Live(handlers[u])'
  BY <1>1 DEF Live
<1> QED BY <1>2 DEF LiveInv

LEMMA LiveHandler ==
  ASSUME Inv, LiveInv, NEW t \in Tasks, HandlerStep(t) \/ Raise(t),
         ~overlap', ~lost', ~expired'
  PROVE  LiveInv'
<1> DEFINE h == handlers[t]
           g == handlers'[t]
<1>1. Running(t) /\ ~overlap /\ ~expired
  BY StepOfOne
<1>2. ~lost
  BY DEF HandlerStep, Read, RemoveKeyboard, SetType, ShowTypes, ShowFetching,
         Fetch, FetchFails, Store, ShowQualities, ShowNoFormats, SetFormat,
         ShowDestinations, SetDestination, Enqueue, ShowQueued, Raise
<1>3. /\ Live(h)
      /\ \A b \in shown : b.sort = "quality" => b.value \in Offered(row.formats)
      /\ Shows("destination") => row.type # None
  BY <1>1, <1>2 DEF LiveInv
<1>4. Serves(h) /\ Deciding(h) /\ h \in HandlerSet /\ h.button \in Pressable
  BY <1>1 DEF Inv, SequentialInv, DecisionInv, Shape, HandlerSet
<1>5. CASE Read(t)
  <2>1. /\ UNCHANGED <<row, shown, jobs>> /\ h.pc = "read"
        /\ g.request = row /\ g.button = h.button /\ g.pc = AfterRead(h.button, row)
    BY <1>1, <1>5 DEF Read, Inv, Shape, HandlerSet
  <2>2. g.pc \in {"type", "back", "choose", "destination"}
    BY <1>3, <1>4, <2>1, SortOf DEF AfterRead, Live
  <2>3. Live(h)' /\ Running(t)'
    BY <2>1, <2>2 DEF Live, Running
  <2> QED BY <1>1, <1>3, <1>5, <2>1, <2>3, LiveStep DEF HandlerStep, Shows
<1>6. CASE RemoveKeyboard(t) \/ ShowNoFormats(t) \/ Raise(t)
  BY <1>3, <1>6 DEF RemoveKeyboard, ShowNoFormats, Raise, Live
<1>7. CASE SetType(t)
  <2> DEFINE kind == KindOf(h.button)
  <2>1. /\ UNCHANGED <<shown, jobs>> /\ h.pc = "type" /\ row' = [row EXCEPT !.type = kind]
        /\ g.request = h.request
        /\ g.pc = IF kind = "audio" THEN AskOrEnqueue ELSE "fetching"
    BY <1>7 DEF SetType, Inv, Shape, HandlerSet
  <2>2. h.button.sort = "type"
    BY <1>4, <2>1 DEF Deciding, OnItsWay, OfType
  <2>3. kind \in Types
    BY <1>4, <2>2, SortOf, Constants DEF KindOf
  <2>4. row'.type = kind /\ kind # None /\ row'.formats = row.formats
    BY <2>1, <2>3, Constants DEF Inv, Shape, RowSet
  <2>5. Live(h)' /\ Running(t)'
    BY <1>3, <2>1, <2>4 DEF Live, Running, AskOrEnqueue
  <2> QED BY <1>1, <1>3, <1>7, <2>1, <2>4, <2>5, LiveStep DEF HandlerStep, Shows
<1>8. CASE ShowTypes(t)
  <2>1. shown' = TypeKeyboard /\ g = NoHandler
    BY <1>8 DEF ShowTypes, Ends, Inv, Shape
  <2>2. shown' # {} /\ Live(h)' /\ \A b \in shown' : b.sort = "type"
    BY <2>1, SortsShown DEF TypeKeyboard, Types, Live, NoHandler
  <2> QED BY <1>1, <1>8, <2>2, LiveStep DEF HandlerStep, Shows
<1>9. CASE ShowFetching(t)
  <2>1. /\ UNCHANGED <<row, jobs>> /\ h.pc = "fetching" /\ shown' = {}
        /\ g.options = h.request.formats
        /\ g.pc = IF h.request.formats = <<>> THEN "fetch" ELSE "offer"
    BY <1>9 DEF ShowFetching, Inv, Shape, HandlerSet
  <2>2. Live(h)' /\ Running(t)'
    BY <1>3, <2>1 DEF Live, Running
  <2> QED BY <1>1, <1>9, <2>1, <2>2, LiveStep DEF HandlerStep, Shows
<1>10. CASE Fetch(t) \/ FetchFails(t)
  <2>1. UNCHANGED <<row, shown, jobs>> /\ g.pc \in {"no formats", "store"}
    <3>1. CASE Fetch(t)
      <4>1. PICK raw \in RawLists :
              handlers' = [handlers EXCEPT ![t].raw = raw, ![t].options = SelectVideoFormats(raw),
                             ![t].pc = IF SelectVideoFormats(raw) = <<>> THEN "no formats"
                                       ELSE "store"]
        BY <3>1 DEF Fetch
      <4>2. g.pc \in {"no formats", "store"}
        BY <4>1 DEF Inv, Shape, HandlerSet
      <4> QED BY <3>1, <4>2 DEF Fetch
    <3>2. CASE FetchFails(t)
      BY <3>2 DEF FetchFails, Inv, Shape, HandlerSet
    <3> QED BY <1>10, <3>1, <3>2
  <2>2. Live(h)' /\ Running(t)'
    BY <2>1 DEF Live, Running
  <2> QED BY <1>1, <1>3, <1>10, <2>1, <2>2, LiveStep DEF HandlerStep, Shows
<1>11. CASE Store(t)
  <2>1. /\ UNCHANGED <<shown, jobs>> /\ h.pc = "store" /\ row' = [row EXCEPT !.formats = h.options]
        /\ g.pc = "offer" /\ g.options = h.options
    BY <1>11 DEF Store, Inv, Shape, HandlerSet
  <2>2. ~Shows("quality") /\ ~Shows("destination")
    BY <1>4, <2>1 DEF Serves, Deciding, OnItsWay, OfType
  <2>3. row'.formats = h.options
    BY <2>1 DEF Inv, Shape, RowSet
  <2>4. Live(h)' /\ Running(t)'
    BY <2>1, <2>3 DEF Live, Running
  <2> QED BY <1>1, <1>11, <2>1, <2>2, <2>4, LiveStep DEF HandlerStep, Shows
<1>12. CASE ShowQualities(t)
  <2>1. UNCHANGED row /\ shown' = QualityKeyboard(row.formats) /\ g = NoHandler
    BY <1>3, <1>12 DEF ShowQualities, Ends, Inv, Shape, Live
  <2>2. /\ shown' # {} /\ ~Shows("destination")'
        /\ \A b \in shown' : b.sort = "quality" => b.value \in Offered(row.formats)
    <3>1. Button("back", None) \in shown'
      BY <2>1 DEF QualityKeyboard
    <3>2. ~Shows("destination")'
      BY <2>1, SortsShown DEF Shows
    <3>3. ASSUME NEW b \in shown', b.sort = "quality" PROVE b.value \in Offered(row.formats)
      BY <2>1, <3>3 DEF QualityKeyboard, Button
    <3> QED BY <3>1, <3>2, <3>3
  <2>3. Live(h)'
    BY <2>1 DEF Live, NoHandler
  <2> QED BY <1>1, <1>12, <2>1, <2>2, <2>3, LiveStep DEF HandlerStep
<1>13. CASE SetFormat(t)
  <2>1. /\ UNCHANGED <<shown, jobs>> /\ h.pc = "choose"
        /\ row' = [row EXCEPT !.format = h.button.value] /\ g.pc = AskOrEnqueue
    BY <1>13 DEF SetFormat, Inv, Shape, HandlerSet
  <2>2. row.type = "video"
    BY <1>4, <2>1 DEF Serves, Deciding, OnItsWay
  <2>3. row'.type = "video" /\ row'.formats = row.formats
    BY <2>1, <2>2 DEF Inv, Shape, RowSet
  <2>4. Live(h)' /\ Running(t)'
    BY <2>1, <2>3, Constants DEF Live, Running, AskOrEnqueue
  <2> QED BY <1>1, <1>3, <1>13, <2>1, <2>2, <2>3, <2>4, LiveStep DEF HandlerStep, Shows
<1>14. CASE ShowDestinations(t)
  <2>1. /\ UNCHANGED row /\ shown' = DestinationKeyboard /\ g = NoHandler /\ row.type # None
    BY <1>3, <1>14 DEF ShowDestinations, Ends, Inv, Shape, Live
  <2>2. shown' # {} /\ Live(h)' /\ \A b \in shown' : b.sort = "destination"
    BY <2>1, SortsShown DEF DestinationKeyboard, Destinations, Live, NoHandler
  <2> QED BY <1>1, <1>14, <2>1, <2>2, LiveStep DEF HandlerStep
<1>15. CASE SetDestination(t)
  <2>1. /\ UNCHANGED <<shown, jobs>> /\ row' = [row EXCEPT !.destination = h.button.value]
        /\ g.pc = "enqueue"
    BY <1>15 DEF SetDestination, Inv, Shape, HandlerSet, RowSet
  <2>2. row'.type = row.type /\ row'.formats = row.formats
    BY <2>1 DEF Inv, Shape, RowSet
  <2>3. Live(h)' /\ Running(t)'
    BY <2>1 DEF Live, Running
  <2> QED BY <1>1, <1>3, <1>15, <2>1, <2>2, <2>3, LiveStep DEF HandlerStep, Shows
<1>16. CASE Enqueue(t)
  <2>1. UNCHANGED <<row, shown>> /\ g.pc = "queued" /\ jobs' # <<>>
    BY <1>16 DEF Enqueue, Inv, Shape, HandlerSet
  <2>2. Live(h)'
    BY <2>1 DEF Live
  <2> QED BY <1>1, <1>3, <1>16, <2>1, <2>2, LiveStep DEF HandlerStep, Shows
<1>17. CASE ShowQueued(t)
  <2>1. jobs' # <<>> /\ shown' = {} /\ g = NoHandler
    BY <1>3, <1>17 DEF ShowQueued, Ends, Inv, Shape, Live
  <2>2. Live(h)'
    BY <2>1 DEF Live, NoHandler
  <2> QED BY <1>1, <1>17, <2>1, <2>2, LiveStep DEF HandlerStep, Shows
<1> QED BY <1>5, <1>6, <1>7, <1>8, <1>9, <1>10, <1>11, <1>12, <1>13, <1>14, <1>15, <1>16, <1>17
        DEF HandlerStep

LEMMA LiveNext == Inv /\ LiveInv /\ [Next]_vars => LiveInv'
<1> SUFFICES ASSUME Inv, LiveInv, [Next]_vars, ~overlap', ~lost', ~expired' PROVE LiveInv'
  BY DEF LiveInv
<1>1. CASE Intake
  <2>1. /\ UNCHANGED <<handlers, taps, overlap, lost, expired>> /\ taps = 0
        /\ \A t \in Tasks : handlers'[t].pc = "none"
    BY <1>1 DEF Intake, Inv, TapsInv, Running
  <2>2. /\ \A b \in shown' : b.sort # "quality"
        /\ Shows("destination")' => row'.type # None
    BY <1>1, SortsShown DEF Intake, Shows, None, Inv, Shape, RowSet
  <2>3. \A t \in Tasks : Live(handlers[t])'
    BY <2>1 DEF Live
  <2> QED BY <2>1, <2>2, <2>3 DEF LiveInv
<1>2. ASSUME NEW t \in Tasks, NEW button \in shown, Tap(t, button) PROVE LiveInv'
  <2>1. /\ UNCHANGED <<row, shown, jobs>> /\ ~overlap /\ ~lost /\ ~expired
        /\ handlers'[t].pc = "read" /\ handlers'[t].button = button
        /\ \A u \in Tasks \ {t} : handlers'[u].pc = "none"
    BY <1>2 DEF Tap, Inv, Shape, NoHandler, Running
  <2>2. Live(handlers[t])'
    BY <2>1 DEF Live, LiveInv, Shows
  <2>3. \A u \in Tasks : Live(handlers[u])'
    BY <2>1, <2>2 DEF Live
  <2> QED BY <2>1, <2>3 DEF LiveInv, Shows
<1>3. ASSUME NEW t \in Tasks, HandlerStep(t) \/ Raise(t) PROVE LiveInv'
  BY <1>3, LiveHandler
<1>4. CASE ExpireRequest
  BY <1>4 DEF ExpireRequest
<1>5. CASE UNCHANGED vars
  BY <1>5 DEF vars, LiveInv, Live, Shows, Running
<1> QED BY <1>1, <1>2, <1>3, <1>4, <1>5 DEF Next

(* A dialogue without an accident never comes to rest without a button before its *)
(* job is queued: no button that is shown leads to _expired, whichever lists of   *)
(* formats yt-dlp answers with (bot/routers/choices.py on_type, _show_qualities,  *)
(* on_quality, on_destination, _resolve).                                         *)
THEOREM TheDialogueGoesOn == Spec => []NeverStuck
<1>1. Init => LiveInv
  BY DEF Init, LiveInv, Live, Shows, NoHandler
<1>2. LiveInv => NeverStuck
  BY DEF LiveInv, NeverStuck, Idle
<1> QED BY <1>1, <1>2, LiveNext, InvCorrect, PTL DEF Spec

-----------------------------------------------------------------------------
(***************************************************************************)
(* The selection of formats, for any list of them.                         *)
(***************************************************************************)
FormatList(raw) ==
  /\ raw \in Seq(Range(raw))
  /\ \A f \in Range(raw) : f.height \in Int /\ f.tbr \in Int

LEMMA FormatAt ==
  ASSUME NEW raw, FormatList(raw)
  PROVE  /\ Len(raw) \in Nat /\ DOMAIN raw = 1..Len(raw)
         /\ \A i \in 1..Len(raw) : raw[i].height \in Int /\ raw[i].tbr \in Int
BY DEF FormatList, Range

(* Ranks are compared as tuples are: a total order. *)
Ranks == {0, 1} \X {0, 1} \X Int

LEMMA RankIs == \A f : f.tbr \in Int => Rank(f) \in Ranks
BY DEF Rank, Ranks

LEMMA ExceedsIs ==
  ASSUME NEW a \in Ranks, NEW b \in Ranks
  PROVE  Exceeds(a, b) <=> \/ a[1] > b[1]
                           \/ a[1] = b[1] /\ a[2] > b[2]
                           \/ a[1] = b[1] /\ a[2] = b[2] /\ a[3] > b[3]
<1>1. /\ \A j \in 1..0 : FALSE
      /\ \A j : j \in 1..1 <=> j = 1
      /\ \A j : j \in 1..2 <=> j = 1 \/ j = 2
      /\ \A j : j \in 1..3 <=> j = 1 \/ j = 2 \/ j = 3
  OBVIOUS
<1>2. 1 - 1 = 0 /\ 2 - 1 = 1 /\ 3 - 1 = 2
  OBVIOUS
<1>3. Exceeds(a, b) <=> \/ a[1] > b[1] /\ \A j \in 1..0 : a[j] = b[j]
                        \/ a[2] > b[2] /\ \A j \in 1..1 : a[j] = b[j]
                        \/ a[3] > b[3] /\ \A j \in 1..2 : a[j] = b[j]
  BY <1>1, <1>2 DEF Exceeds
<1> QED BY <1>1, <1>3

LEMMA ExceedsOrders ==
  ASSUME NEW a \in Ranks, NEW b \in Ranks
  PROVE  /\ Exceeds(a, b) \/ a = b \/ Exceeds(b, a)
         /\ \A c \in Ranks : Exceeds(a, b) /\ Exceeds(b, c) => Exceeds(a, c)
<1>1. \A r \in Ranks : r = <<r[1], r[2], r[3]>> /\ r[1] \in Int /\ r[2] \in Int /\ r[3] \in Int
  BY DEF Ranks
<1>2. Exceeds(a, b) \/ a = b \/ Exceeds(b, a)
  BY <1>1, ExceedsIs
<1>3. ASSUME NEW c \in Ranks, Exceeds(a, b), Exceeds(b, c) PROVE Exceeds(a, c)
  BY <1>1, <1>3, ExceedsIs
<1> QED BY <1>2, <1>3

(* The loop has a value for every prefix of the list. *)
Loop(g, raw, n) == g = [k \in 0..n |-> IF k = 0 THEN <<>> ELSE Keep(g[k - 1], raw[k])]

LEMMA LoopExists == \A raw : \A n \in Nat : \E g : Loop(g, raw, n)
<1> SUFFICES ASSUME NEW raw PROVE \A n \in Nat : \E g : Loop(g, raw, n)
  OBVIOUS
<1> DEFINE Q == {n \in Nat : \E g : Loop(g, raw, n)}
<1>1. ASSUME NEW n \in Nat, \A m \in Nat : m < n => m \in Q PROVE n \in Q
  <2>1. CASE n = 0
    <3>1. Loop([k \in 0..0 |-> <<>>], raw, 0)
      BY DEF Loop
    <3> QED BY <2>1, <3>1
  <2>2. CASE n > 0
    <3>1. n - 1 \in Q
      <4> HIDE DEF Q
      <4>1. n - 1 \in Nat /\ n - 1 < n
        BY <2>2
      <4> QED BY <1>1, <4>1
    <3>2. PICK h : Loop(h, raw, n - 1)
      BY <3>1
    <3> DEFINE g == [k \in 0..n |-> IF k = 0 THEN <<>> ELSE Keep(h[k - 1], raw[k])]
    <3>3. ASSUME NEW k \in 0..n, k # 0 PROVE g[k - 1] = h[k - 1]
      <4>1. k - 1 \in 0..n /\ k - 1 \in 0..(n - 1)
        BY <3>3
      <4>2. h[k - 1] = IF k - 1 = 0 THEN <<>> ELSE Keep(h[k - 1 - 1], raw[k - 1])
        BY <3>2, <4>1 DEF Loop
      <4>3. g[k - 1] = IF k - 1 = 0 THEN <<>> ELSE Keep(h[k - 1 - 1], raw[k - 1])
        BY <4>1
      <4> QED BY <4>2, <4>3
    <3>4. g = [k \in 0..n |-> IF k = 0 THEN <<>> ELSE Keep(g[k - 1], raw[k])]
      BY <3>3
    <3>5. Loop(g, raw, n)
      BY <3>4 DEF Loop
    <3> QED BY <3>5
  <2> HIDE DEF Q
  <2> QED BY <2>1, <2>2
<1>2. Nat \subseteq Q
  <2> HIDE DEF Q
  <2> QED BY <1>1, NaturalInduction
<1> QED BY <1>2

(* What the loop has kept after n formats. *)
BestOf(raw, n, i) ==
  \A j \in 1..n : Usable(raw[j]) /\ raw[j].height = raw[i].height =>
    \/ Exceeds(Rank(raw[i]), Rank(raw[j]))
    \/ Rank(raw[i]) = Rank(raw[j]) /\ i <= j

KeptAfter(raw, n, best) ==
  /\ best = [h \in DOMAIN best |-> best[h]]
  /\ \A h \in DOMAIN best : \E i \in 1..n :
       /\ Usable(raw[i]) /\ raw[i].height = h
       /\ best[h] = raw[i] /\ BestOf(raw, n, i)
  /\ \A i \in 1..n : Usable(raw[i]) => raw[i].height \in DOMAIN best

LEMMA KeepStep ==
  ASSUME NEW raw, FormatList(raw), NEW n \in 1..Len(raw), NEW best, KeptAfter(raw, n - 1, best)
  PROVE  KeptAfter(raw, n, Keep(best, raw[n]))
<1> DEFINE f == raw[n]
           new == Keep(best, f)
<1>0. /\ Len(raw) \in Nat
      /\ \A i \in 1..n : /\ raw[i].height \in Int /\ Rank(raw[i]) \in Ranks
                         /\ i \in 1..(n - 1) <=> i # n
      /\ \A i \in 1..(n - 1) : i \in 1..n /\ i < n
      /\ n \in 1..n
  BY FormatAt, RankIs
<1>1. CASE ~Usable(f)
  <2>1. new = best
    BY <1>1 DEF Keep
  <2>2. \A i \in 1..(n - 1) : BestOf(raw, n - 1, i) => BestOf(raw, n, i)
    BY <1>0, <1>1 DEF BestOf
  <2> QED BY <1>0, <1>1, <2>1, <2>2 DEF KeptAfter
<1>2. CASE Usable(f) /\ f.height \in DOMAIN best /\ ~Supersedes(f, best[f.height])
  <2>1. new = best
    BY <1>2 DEF Keep
  <2>2. ASSUME NEW i \in 1..(n - 1), BestOf(raw, n - 1, i), Usable(raw[i]), best[raw[i].height] = raw[i]
        PROVE  BestOf(raw, n, i)
    <3>1. raw[n].height = raw[i].height =>
            Exceeds(Rank(raw[i]), Rank(raw[n])) \/ Rank(raw[i]) = Rank(raw[n])
      BY <1>0, <1>2, <2>2, ExceedsOrders DEF Supersedes
    <3> QED BY <1>0, <2>2, <3>1 DEF BestOf
  <2> QED BY <1>0, <1>2, <2>1, <2>2 DEF KeptAfter
<1>3. CASE Usable(f) /\ (f.height \in DOMAIN best => Supersedes(f, best[f.height]))
  <2>1. new = [h \in DOMAIN best \union {f.height} |-> IF h = f.height THEN f ELSE best[h]]
    BY <1>3 DEF Keep
  <2>2. BestOf(raw, n, n)
    <3> SUFFICES ASSUME NEW j \in 1..(n - 1), Usable(raw[j]), raw[j].height = f.height
                 PROVE  Exceeds(Rank(f), Rank(raw[j]))
      BY <1>0 DEF BestOf
    <3>1. f.height \in DOMAIN best
      BY DEF KeptAfter
    <3>2. PICK i \in 1..(n - 1) : /\ Usable(raw[i]) /\ raw[i].height = f.height
                                  /\ best[f.height] = raw[i] /\ BestOf(raw, n - 1, i)
      BY <3>1 DEF KeptAfter
    <3>3. Exceeds(Rank(f), Rank(raw[i]))
      BY <1>3, <3>1, <3>2 DEF Supersedes
    <3>4. Exceeds(Rank(raw[i]), Rank(raw[j])) \/ Rank(raw[i]) = Rank(raw[j])
      BY <3>2 DEF BestOf
    <3> QED BY <1>0, <3>3, <3>4, ExceedsOrders
  <2>3. \A i \in 1..(n - 1) : BestOf(raw, n - 1, i) /\ raw[i].height # f.height => BestOf(raw, n, i)
    BY <1>0 DEF BestOf
  <2>4. DOMAIN new = DOMAIN best \union {f.height}
    BY <2>1
  <2>5. ASSUME NEW h \in DOMAIN new
        PROVE  \E i \in 1..n : /\ Usable(raw[i]) /\ raw[i].height = h
                               /\ new[h] = raw[i] /\ BestOf(raw, n, i)
    <3>1. CASE h = f.height
      BY <1>0, <1>3, <2>1, <2>2, <3>1
    <3>2. CASE h # f.height
      BY <1>0, <2>1, <2>3, <2>4, <3>2 DEF KeptAfter
    <3> QED BY <3>1, <3>2
  <2>6. \A i \in 1..n : Usable(raw[i]) => raw[i].height \in DOMAIN new
    BY <1>0, <2>4 DEF KeptAfter
  <2>7. new = [h \in DOMAIN new |-> new[h]]
    BY <2>1
  <2> HIDE DEF new
  <2> QED BY <2>5, <2>6, <2>7 DEF KeptAfter, new
<1> QED BY <1>1, <1>2, <1>3

LEMMA BestIsKept ==
  ASSUME NEW raw, FormatList(raw)
  PROVE  KeptAfter(raw, Len(raw), BestPerHeight(raw))
<1> DEFINE N == Len(raw)
           g == CHOOSE best : Loop(best, raw, N)
           Q == {n \in Nat : n <= N => KeptAfter(raw, n, g[n])}
<1>1. N \in Nat
  BY FormatAt
<1>2. Loop(g, raw, N)
  BY <1>1, LoopExists
<1>3. BestPerHeight(raw) = g[N]
  BY DEF BestPerHeight, Loop
<1> HIDE DEF N, g
<1>4. ASSUME NEW n \in Nat, \A m \in Nat : m < n => m \in Q PROVE n \in Q
  <2> SUFFICES ASSUME n <= N PROVE KeptAfter(raw, n, g[n])
    OBVIOUS
  <2>1. CASE n = 0
    <3>1. g[0] = <<>>
      BY <1>1, <1>2 DEF Loop
    <3> QED BY <2>1, <3>1 DEF KeptAfter
  <2>2. CASE n > 0
    <3>1. n - 1 \in Nat /\ n - 1 < n /\ n - 1 <= N /\ n \in 1..N
      BY <1>1, <2>2
    <3>2. g[n] = Keep(g[n - 1], raw[n])
      BY <1>2, <2>2, <3>1 DEF Loop
    <3>3. KeptAfter(raw, n - 1, g[n - 1])
      BY <1>4, <3>1
    <3> QED BY <3>1, <3>2, <3>3, KeepStep DEF N
  <2> QED BY <2>1, <2>2
<1>5. Nat \subseteq Q
  <2> HIDE DEF Q
  <2> QED BY <1>4, NaturalInduction
<1>6. N \in Q
  BY <1>1, <1>5
<1> QED BY <1>1, <1>3, <1>6 DEF N

LEMMA LeastOfTwo ==
  ASSUME NEW a \in Int, NEW b \in Int
  PROVE  /\ Min({a, b}) \in {a, b}
         /\ Min({a, b}) <= a /\ Min({a, b}) <= b
<1>1. \E m \in {a, b} : \A y \in {a, b} : m <= y
  OBVIOUS
<1> QED BY <1>1 DEF Min

(* The selection is the one that its reference describes. *)
THEOREM SelectionIsRight ==
  ASSUME NEW raw, FormatList(raw)
  PROVE  /\ IsSelection(raw, SelectVideoFormats(raw))
         /\ Offered(SelectVideoFormats(raw)) \subseteq {raw[i].id : i \in DOMAIN raw}
<1> DEFINE best == BestPerHeight(raw)
           usable == {i \in DOMAIN raw : Usable(raw[i])}
           H == {raw[i].height : i \in usable}
           R == {pair \in H \X H : pair[1] > pair[2]}
           hs == Descending(H)
           n == Cardinality(H)
           m == Min({MaxOptions, n})
           size == BestAudioSize(raw)
           options == SelectVideoFormats(raw)
<1>1. DOMAIN raw = 1..Len(raw) /\ \A i \in DOMAIN raw : raw[i].height \in Int
  BY FormatAt
<1>2. /\ DOMAIN best = H
      /\ \A h \in H : \E i \in usable : raw[i].height = h /\ best[h] = raw[i] /\ FirstBest(raw, i)
  <2>1. KeptAfter(raw, Len(raw), best)
    BY BestIsKept
  <2> HIDE DEF best
  <2>2. \A i \in DOMAIN raw : BestOf(raw, Len(raw), i) => FirstBest(raw, i)
    BY <1>1 DEF BestOf, FirstBest
  <2>3. \A h \in DOMAIN best : \E i \in usable : raw[i].height = h /\ best[h] = raw[i] /\ FirstBest(raw, i)
    BY <1>1, <2>1, <2>2 DEF KeptAfter
  <2>4. H \subseteq DOMAIN best
    BY <1>1, <2>1 DEF KeptAfter
  <2> QED BY <2>3, <2>4
<1>3. IsFiniteSet(H) /\ H \subseteq Int
  <2>1. IsFiniteSet(1..Len(raw))
    BY FormatAt, FS_Interval
  <2>2. IsFiniteSet(usable)
    BY <1>1, <2>1, FS_Subset
  <2>3. [i \in usable |-> raw[i].height] \in Surjection(usable, H)
    BY DEF Surjection
  <2>4. IsFiniteSet(H)
    <3> HIDE DEF usable, H
    <3> QED BY <2>2, <2>3, FS_Surjection
  <2> QED BY <1>1, <2>4
<1> HIDE DEF H, usable
<1>4. Orders(R, H)
  BY <1>3 DEF Orders
<1>5. hs = Listing(H, R)
  BY DEF Descending
<1>6. /\ n \in Nat /\ hs \in [1..n -> H]
      /\ \A k \in 1..n : Cardinality({h \in H : h > hs[k]}) = k - 1
  <2>1. n \in Nat /\ hs \in [1..n -> H]
    <3> HIDE DEF R, hs, n
    <3>1. /\ Cardinality(H) \in Nat
          /\ Listing(H, R) \in [1..Cardinality(H) -> H]
      BY <1>3, <1>4, Listed
    <3> QED BY <1>5, <3>1 DEF n
  <2>2. ASSUME NEW k \in 1..n PROVE Cardinality({h \in H : h > hs[k]}) = k - 1
    <3>1. Cardinality({a \in H : <<a, hs[k]>> \in R}) = k - 1
      <4> HIDE DEF R, hs
      <4> QED BY <1>3, <1>4, <1>5, ElementsBefore
    <3>2. {a \in H : <<a, hs[k]>> \in R} = {h \in H : h > hs[k]}
      <4>1. hs[k] \in H
        BY <2>1
      <4> HIDE DEF hs
      <4> QED BY <4>1
    <3> QED BY <3>1, <3>2
  <2> QED BY <2>1, <2>2
<1> HIDE DEF hs, n, R
<1>7. m \in Nat /\ m <= n
  <2>1. MaxOptions \in Int /\ n \in Int /\ MaxOptions \in Nat /\ n \in Nat
    BY <1>6, OptionsAssumption
  <2>2. m \in {MaxOptions, n} /\ m <= n
    BY <2>1, LeastOfTwo
  <2> HIDE DEF m
  <2> QED BY <2>1, <2>2
<1>8. options = [i \in 1..m |-> Option(best[hs[i]], size)]
  <2>1. Len(hs) = n
    BY <1>6
  <2>2. SubSeq(hs, 1, m) = [i \in 1..m |-> hs[i]]
    BY <1>6, <1>7
  <2>3. options = LET kept == SubSeq(hs, 1, m) IN [i \in DOMAIN kept |-> Option(best[kept[i]], size)]
    BY <1>2, <2>1 DEF SelectVideoFormats, hs
  <2> HIDE DEF best, size, m, options
  <2> QED BY <2>2, <2>3
<1> HIDE DEF m, options, best, size
<1>9. ASSUME NEW k \in 1..m
      PROVE  /\ Cardinality({h \in H : h > options[k].height}) = k - 1
             /\ \E i \in usable : FirstBest(raw, i) /\ options[k] = Option(raw[i], size)
             /\ options[k].id \in {raw[i].id : i \in DOMAIN raw}
  <2>1. k \in 1..n /\ hs[k] \in H
    BY <1>6, <1>7
  <2>2. PICK i \in usable : raw[i].height = hs[k] /\ best[hs[k]] = raw[i] /\ FirstBest(raw, i)
    BY <1>2, <2>1
  <2>3. options[k] = Option(raw[i], size)
    BY <1>8, <2>2
  <2>4. options[k].height = hs[k] /\ options[k].id = raw[i].id
    BY <2>2, <2>3 DEF Option
  <2>5. i \in DOMAIN raw
    BY DEF usable
  <2> QED BY <1>6, <2>1, <2>2, <2>3, <2>4, <2>5
<1>10. Len(options) = m /\ DOMAIN options = 1..m
  BY <1>7, <1>8
<1>11. IsSelection(raw, options)
  BY <1>9, <1>10 DEF IsSelection, H, usable, m, n, size
<1>12. Offered(options) \subseteq {raw[i].id : i \in DOMAIN raw}
  BY <1>9, <1>10 DEF Offered
<1> QED BY <1>11, <1>12 DEF options

-----------------------------------------------------------------------------
LEMMA ListsAreFormats == \A raw \in RawLists : FormatList(raw)
BY FormatsAssumption DEF FormatList

LEMMA OfferedAreIds == \A options \in OptionLists : Offered(options) \subseteq Ids
<1> SUFFICES ASSUME NEW options \in OptionLists PROVE Offered(options) \subseteq Ids
  OBVIOUS
<1>1. CASE options = <<>>
  BY <1>1 DEF Offered
<1>2. ASSUME NEW raw \in RawLists, options = SelectVideoFormats(raw) PROVE Offered(options) \subseteq Ids
  <2>1. Offered(options) \subseteq {raw[i].id : i \in DOMAIN raw}
    BY <1>2, ListsAreFormats, SelectionIsRight
  <2>2. {raw[i].id : i \in DOMAIN raw} \subseteq Ids
    BY DEF Ids
  <2> QED BY <2>1, <2>2
<1> QED BY <1>1, <1>2 DEF OptionLists

LEMMA PressableAreButtons == Pressable \subseteq Buttons
BY OfferedAreIds DEF Pressable, Buttons, Picks

LEMMA QualitiesAreIds ==
  ASSUME NEW button \in Pressable, button.sort = "quality" PROVE button.value \in Ids
BY PressableAreButtons DEF Buttons, TypeKeyboard, DestinationKeyboard, Button

(* What a handler has read and decided; the row it read is one the table has held. *)
Fields(h) ==
  /\ h.request \in Rows
  /\ h.kind \in Types \union {None} /\ h.format \in Ids \union {None}
  /\ h.pc = "destination" => h.request.type \in Types
  /\ h.pc = "enqueue" => h.kind \in Types

JobFields(j) ==
  j.kind \in Types /\ j.format \in Ids \union {None} /\ j.destination \in Destinations

FieldInv ==
  /\ row \in Rows
  /\ \A t \in Tasks : Fields(handlers[t])
  /\ \A j \in Range(jobs) : JobFields(j)
  /\ taps \in 0..MaxTaps
  /\ listed \in RawLists \union {<<>>}

(* A handler that is about to store its options made them of the list it holds. *)
SelectionInv ==
  /\ OptionsAreTheBest
  /\ \A t \in Tasks : handlers[t].pc = "store" =>
       handlers[t].raw \in RawLists /\ handlers[t].options = SelectVideoFormats(handlers[t].raw)

LEMMA FieldsInit == Init => FieldInv /\ SelectionInv
<1> SUFFICES ASSUME Init PROVE FieldInv /\ SelectionInv
  OBVIOUS
<1>1. NewRow \in Rows
  BY DEF NewRow, Rows, OptionLists, Destinations
<1>2. Fields(NoHandler)
  BY <1>1 DEF Fields, NoHandler
<1>3. Range(jobs) = {}
  BY DEF Init, Range
<1>4. FieldInv
  BY <1>1, <1>2, <1>3, TapsAssumption DEF Init, FieldInv
<1>5. SelectionInv
  BY DEF Init, SelectionInv, OptionsAreTheBest, NewRow, NoHandler
<1> QED BY <1>4, <1>5

(* A step of the handler of t that writes nothing but the handlers. *)
LEMMA FieldsHandler ==
  ASSUME FieldInv, NEW t \in Tasks, Fields(handlers[t])', OthersKeep(t),
         UNCHANGED <<row, jobs, taps, listed>>
  PROVE  FieldInv'
<1>1. \A u \in Tasks : Fields(handlers[u])'
  BY DEF FieldInv, Fields, OthersKeep
<1> QED BY <1>1 DEF FieldInv

LEMMA FieldsNext == Inv /\ FieldInv /\ [Next]_vars => FieldInv'
<1> SUFFICES ASSUME Inv, FieldInv, [Next]_vars PROVE FieldInv'
  OBVIOUS
<1>h. ASSUME NEW t \in Tasks
      PROVE  /\ handlers[t] \in HandlerSet /\ Fields(handlers[t]) /\ OnItsWay(handlers[t])
             /\ handlers[t].button \in Pressable
  BY <1>h DEF Inv, Shape, FieldInv, DecisionInv, Deciding, HandlerSet
<1>k. handlers = [t \in Tasks |-> handlers[t]]
  BY DEF Inv, Shape
<1>0. Fields(NoHandler)
  BY FieldsInit, NewRowShape DEF Fields, NoHandler, NewRow, Rows, OptionLists, Destinations
<1>1. CASE Intake
  <2>1. row' \in Rows
    BY <1>1 DEF Intake, FieldInv, Rows, Types
  <2>2. jobs' = jobs \/ jobs' = <<[button |-> Button("type", "audio"), kind |-> "audio",
                                   format |-> None, destination |-> row.destination]>>
    BY <1>1 DEF Intake
  <2>3. \A j \in Range(jobs') : JobFields(j)
    <3>1. row.destination \in Destinations
      BY DEF FieldInv, Rows
    <3> QED BY <2>2, <3>1 DEF Range, JobFields, FieldInv, Types
  <2> QED BY <1>1, <2>1, <2>3 DEF Intake, FieldInv, Fields
<1>2. ASSUME NEW t \in Tasks, NEW button \in shown, Tap(t, button) PROVE FieldInv'
  <2>1. handlers'[t] = [NoHandler EXCEPT !.pc = "read", !.button = button] /\ OthersKeep(t)
    BY <1>2, <1>k DEF Tap, OthersKeep
  <2>2. \A u \in Tasks : Fields(handlers[u])'
    <3>1. /\ handlers'[t].pc = "read" /\ handlers'[t].request = NoHandler.request
          /\ handlers'[t].options = NoHandler.options
          /\ handlers'[t].kind = NoHandler.kind /\ handlers'[t].format = NoHandler.format
      BY <2>1 DEF NoHandler
    <3>2. Fields(handlers[t])'
      BY <1>0, <3>1 DEF Fields
    <3>3. ASSUME NEW u \in Tasks, u # t PROVE Fields(handlers[u])'
      BY <2>1, <3>3 DEF FieldInv, Fields, OthersKeep
    <3> QED BY <3>2, <3>3
  <2>3. taps' \in 0..MaxTaps
    BY <1>2, TapsAssumption DEF Tap, FieldInv
  <2> QED BY <1>2, <2>2, <2>3 DEF Tap, FieldInv
<1>3. ASSUME NEW t \in Tasks, Read(t) PROVE FieldInv'
  <2> DEFINE p == IF expired THEN "expire" ELSE AfterRead(handlers[t].button, row)
  <2>1. handlers'[t] = [handlers[t] EXCEPT !.request = row, !.pc = p] /\ OthersKeep(t)
    BY <1>3, <1>k DEF Read, OthersKeep
  <2>2. p = "destination" => row.type \in Types
    BY <1>h, SortOf DEF AfterRead, FieldInv, Rows
  <2>3. p # "enqueue"
    BY <1>h, SortOf DEF AfterRead
  <2> HIDE DEF p
  <2>4. Fields(handlers[t])'
    BY <1>h, <2>1, <2>2, <2>3 DEF Fields, HandlerSet, FieldInv
  <2> QED BY <1>3, <2>1, <2>4, FieldsHandler DEF Read
<1>4. ASSUME NEW t \in Tasks,
             RemoveKeyboard(t) \/ ShowTypes(t) \/ ShowQualities(t) \/ ShowNoFormats(t)
               \/ ShowDestinations(t) \/ ShowQueued(t) \/ Raise(t)
      PROVE  FieldInv'
  <2>1. Ends(t) /\ UNCHANGED <<row, jobs, taps, listed>>
    BY <1>4 DEF RemoveKeyboard, ShowTypes, ShowQualities, ShowNoFormats, ShowDestinations,
                ShowQueued, Raise
  <2>2. handlers'[t] = NoHandler /\ OthersKeep(t)
    BY <1>k, <2>1 DEF Ends, OthersKeep
  <2>3. Fields(handlers[t])'
    BY <1>0, <2>2 DEF Fields
  <2> QED BY <2>1, <2>2, <2>3, FieldsHandler
<1>5. ASSUME NEW t \in Tasks, SetType(t) PROVE FieldInv'
  <2> DEFINE kind == KindOf(handlers[t].button)
             p == IF kind = "audio" THEN AskOrEnqueue ELSE "fetching"
  <2>1. handlers[t].pc = "type" /\ handlers[t].button.sort = "type"
    BY <1>5, <1>h DEF SetType, OnItsWay, OfType
  <2>2. kind \in Types
    BY <1>h, <2>1, SortOf DEF KindOf, Types
  <2>3. /\ handlers'[t] = [handlers[t] EXCEPT !.kind = kind, !.pc = p] /\ OthersKeep(t)
        /\ p # "destination"
    BY <1>5, <1>k DEF SetType, OthersKeep, AskOrEnqueue
  <2>4. row' = [row EXCEPT !.type = kind]
    BY <1>5 DEF SetType
  <2> HIDE DEF kind, p
  <2>5. Fields(handlers[t])'
    BY <1>h, <2>2, <2>3 DEF Fields, HandlerSet
  <2>6. row' \in Rows
    BY <2>2, <2>4 DEF FieldInv, Rows
  <2>7. \A u \in Tasks : Fields(handlers[u])'
    BY <2>3, <2>5 DEF FieldInv, Fields, OthersKeep
  <2> QED BY <1>5, <2>6, <2>7 DEF SetType, FieldInv
<1>6. ASSUME NEW t \in Tasks, ShowFetching(t) \/ Fetch(t) \/ FetchFails(t) PROVE FieldInv'
  <2>1. OthersKeep(t) /\ UNCHANGED <<row, jobs, taps, listed>>
    BY <1>6, <1>k DEF ShowFetching, Fetch, FetchFails, OthersKeep
  <2>2. /\ handlers'[t].request = handlers[t].request /\ handlers'[t].kind = handlers[t].kind
        /\ handlers'[t].format = handlers[t].format
        /\ handlers'[t].pc \in {"fetch", "offer", "no formats", "store"}
    <3>1. CASE ShowFetching(t)
      <4> DEFINE known == handlers[t].request.formats
                 p == IF known = <<>> THEN "fetch" ELSE "offer"
      <4>1. p \in {"fetch", "offer"}
        OBVIOUS
      <4>2. handlers' = [handlers EXCEPT ![t] = [handlers[t] EXCEPT !.options = known, !.pc = p]]
        BY <3>1 DEF ShowFetching
      <4> HIDE DEF known, p
      <4> QED BY <1>h, <1>k, <4>1, <4>2 DEF HandlerSet
    <3>2. CASE FetchFails(t)
      BY <1>h, <1>k, <3>2 DEF FetchFails, HandlerSet
    <3>3. CASE Fetch(t)
      <4>1. PICK raw \in RawLists, p \in {"no formats", "store"} :
              handlers' = [handlers EXCEPT ![t].raw = raw, ![t].options = SelectVideoFormats(raw),
                             ![t].pc = p]
        BY <3>3 DEF Fetch
      <4> QED BY <1>h, <1>k, <4>1 DEF HandlerSet
    <3> QED BY <1>6, <3>1, <3>2, <3>3
  <2>3. Fields(handlers[t])'
    BY <1>h, <2>2 DEF Fields
  <2> QED BY <2>1, <2>3, FieldsHandler
<1>7. ASSUME NEW t \in Tasks, Store(t) PROVE FieldInv'
  <2>1. handlers'[t] = [handlers[t] EXCEPT !.pc = "offer", !.raw = <<>>] /\ OthersKeep(t)
    BY <1>7, <1>k DEF Store, OthersKeep
  <2>2. Fields(handlers[t])'
    BY <1>h, <2>1 DEF Fields, HandlerSet
  <2>3. \A u \in Tasks : Fields(handlers[u])'
    BY <2>1, <2>2 DEF FieldInv, Fields, OthersKeep
  <2>4. row' \in Rows /\ listed' \in RawLists \union {<<>>}
    BY <1>7, <1>h DEF Store, HandlerSet, FieldInv, Rows
  <2> QED BY <1>7, <2>3, <2>4 DEF Store, FieldInv
<1>8. ASSUME NEW t \in Tasks, SetFormat(t) PROVE FieldInv'
  <2> DEFINE v == handlers[t].button.value
  <2>1. v \in Ids
    BY <1>8, <1>h, QualitiesAreIds DEF SetFormat, OnItsWay
  <2>2. /\ handlers'[t] = [handlers[t] EXCEPT !.kind = "video", !.format = v, !.pc = AskOrEnqueue]
        /\ OthersKeep(t) /\ row' = [row EXCEPT !.format = v]
        /\ AskOrEnqueue # "destination"
    BY <1>8, <1>k DEF SetFormat, OthersKeep, AskOrEnqueue
  <2> HIDE DEF v
  <2>3. Fields(handlers[t])'
    BY <1>h, <2>1, <2>2 DEF Fields, HandlerSet, Types
  <2>4. \A u \in Tasks : Fields(handlers[u])'
    BY <2>2, <2>3 DEF FieldInv, Fields, OthersKeep
  <2>5. row' \in Rows
    BY <2>1, <2>2 DEF FieldInv, Rows
  <2> QED BY <1>8, <2>4, <2>5 DEF SetFormat, FieldInv
<1>9. ASSUME NEW t \in Tasks, SetDestination(t) PROVE FieldInv'
  <2> DEFINE h == handlers[t]
             v == h.button.value
             r == h.request
  <2>1. v \in Destinations /\ r \in Rows /\ r.type \in Types /\ r.format \in Ids \union {None}
    <3>1. h.pc = "destination" /\ h.button.sort = "destination"
      BY <1>9, <1>h DEF SetDestination, OnItsWay
    <3>2. v \in Destinations
      BY <1>h, <3>1, SortOf
    <3> QED BY <1>h, <3>1, <3>2 DEF Fields, Rows
  <2>2. /\ handlers'[t] = [h EXCEPT !.request.destination = v, !.kind = r.type,
                             !.format = r.format, !.pc = "enqueue"]
        /\ OthersKeep(t) /\ row' = [row EXCEPT !.destination = v]
    BY <1>9, <1>k DEF SetDestination, OthersKeep
  <2>3. handlers'[t].request = [r EXCEPT !.destination = v] /\ handlers'[t].kind = r.type
        /\ handlers'[t].format = r.format /\ handlers'[t].pc = "enqueue"
    BY <1>h, <2>2 DEF HandlerSet
  <2> HIDE DEF v, r, h
  <2>4. Fields(handlers[t])'
    BY <2>1, <2>3 DEF Fields, Rows
  <2>5. \A u \in Tasks : Fields(handlers[u])'
    BY <2>2, <2>4 DEF FieldInv, Fields, OthersKeep
  <2>6. row' \in Rows
    BY <2>1, <2>2 DEF FieldInv, Rows
  <2> QED BY <1>9, <2>5, <2>6 DEF SetDestination, FieldInv
<1>10. ASSUME NEW t \in Tasks, Enqueue(t) PROVE FieldInv'
  <2> DEFINE h == handlers[t]
             job == [button |-> h.button, kind |-> h.kind, format |-> h.format,
                     destination |-> h.request.destination]
  <2>1. JobFields(job) /\ job \in JobSet
    BY <1>10, <1>h DEF Enqueue, Fields, JobFields, Rows, JobSet, HandlerSet, RowSet
  <2>2. jobs' = Append(jobs, job) /\ jobs \in Seq(JobSet)
    BY <1>10 DEF Enqueue, Inv, Shape
  <2>3. \A j \in Range(jobs') : JobFields(j)
    <3> HIDE DEF job
    <3> QED BY <2>1, <2>2, AppendRange DEF FieldInv
  <2>4. handlers'[t] = [h EXCEPT !.pc = "queued"] /\ OthersKeep(t)
    BY <1>10, <1>k DEF Enqueue, OthersKeep
  <2>5. Fields(handlers[t])'
    BY <1>h, <2>4 DEF Fields, HandlerSet
  <2>6. \A u \in Tasks : Fields(handlers[u])'
    BY <2>4, <2>5 DEF FieldInv, Fields, OthersKeep
  <2> QED BY <1>10, <2>3, <2>6 DEF Enqueue, FieldInv
<1>11. CASE ExpireRequest \/ UNCHANGED vars
  BY <1>11 DEF ExpireRequest, vars, FieldInv, Fields
<1> QED BY <1>1, <1>2, <1>3, <1>4, <1>5, <1>6, <1>7, <1>8, <1>9, <1>10, <1>11
        DEF Next, HandlerStep

(* Every button that is shown is one its handler can serve, every job has a kind,  *)
(* and the formats of a request are those of a list that yt-dlp answered with      *)
(* (bot/routers/choices.py, queue/requests.py).                                     *)
THEOREM ChoiceTypeCorrect == Spec => []TypeOK
<1>1. Inv /\ FieldInv => TypeOK
  BY PressableAreButtons DEF Inv, Shape, HandlerSet, FieldInv, Fields, JobFields, TypeOK
<1> QED BY <1>1, FieldsInit, FieldsNext, InvCorrect, PTL DEF Spec

LEMMA SelectionNext == Inv /\ SelectionInv /\ [Next]_vars => SelectionInv'
<1> SUFFICES ASSUME Inv, SelectionInv, [Next]_vars PROVE SelectionInv'
  OBVIOUS
<1> DEFINE Stores(h) == h.pc = "store" => h.raw \in RawLists /\ h.options = SelectVideoFormats(h.raw)
<1>h. ASSUME NEW t \in Tasks PROVE handlers[t] \in HandlerSet
  BY <1>h DEF Inv, Shape
<1>k. handlers = [t \in Tasks |-> handlers[t]]
  BY DEF Inv, Shape
<1>1. ASSUME NEW t \in Tasks, Stores(handlers'[t]), OthersKeep(t), row'.formats = row.formats,
             UNCHANGED listed
      PROVE  SelectionInv'
  BY <1>1 DEF SelectionInv, OptionsAreTheBest, OthersKeep
<1>2. CASE Intake \/ ExpireRequest \/ UNCHANGED vars
  <2>1. row'.formats = row.formats /\ UNCHANGED <<handlers, listed>>
    BY <1>2 DEF Intake, ExpireRequest, vars, Inv, Shape, RowSet
  <2> QED BY <2>1 DEF SelectionInv, OptionsAreTheBest
<1>3. ASSUME NEW t \in Tasks, NEW button \in shown, Tap(t, button) PROVE SelectionInv'
  <2>1. handlers'[t] = [NoHandler EXCEPT !.pc = "read", !.button = button] /\ OthersKeep(t)
        /\ UNCHANGED <<row, listed>>
    BY <1>3, <1>k DEF Tap, OthersKeep
  <2>2. handlers'[t].pc = "read"
    BY <2>1 DEF NoHandler
  <2> QED BY <1>1, <2>1, <2>2
<1>4. ASSUME NEW t \in Tasks,
             RemoveKeyboard(t) \/ ShowTypes(t) \/ ShowQualities(t) \/ ShowNoFormats(t)
               \/ ShowDestinations(t) \/ ShowQueued(t) \/ Raise(t)
      PROVE  SelectionInv'
  <2>1. Ends(t) /\ UNCHANGED <<row, listed>>
    BY <1>4 DEF RemoveKeyboard, ShowTypes, ShowQualities, ShowNoFormats, ShowDestinations,
                ShowQueued, Raise
  <2>2. handlers'[t] = NoHandler /\ OthersKeep(t)
    BY <1>k, <2>1 DEF Ends, OthersKeep
  <2>3. handlers'[t].pc # "store"
    BY <2>2 DEF NoHandler
  <2> QED BY <1>1, <2>1, <2>2, <2>3
<1>5. ASSUME NEW t \in Tasks,
             Read(t) \/ SetType(t) \/ ShowFetching(t) \/ FetchFails(t) \/ SetFormat(t)
               \/ SetDestination(t) \/ Enqueue(t)
      PROVE  SelectionInv'
  <2>1. OthersKeep(t) /\ row'.formats = row.formats /\ UNCHANGED listed
    BY <1>5, <1>k DEF Read, SetType, ShowFetching, FetchFails, SetFormat, SetDestination, Enqueue,
                      OthersKeep, Inv, Shape, RowSet
  <2>2. handlers'[t].pc # "store"
    <3>1. AfterRead(handlers[t].button, row) # "store"
      <4>1. handlers[t].button \in Pressable
        BY <1>h DEF HandlerSet
      <4> QED BY <4>1, SortOf DEF AfterRead
    <3>2. CASE Read(t)
      BY <1>h, <1>k, <3>1, <3>2 DEF Read, HandlerSet
    <3>3. CASE SetType(t) \/ SetFormat(t)
      BY <1>h, <1>k, <3>3 DEF SetType, SetFormat, HandlerSet, AskOrEnqueue
    <3>4. CASE ShowFetching(t) \/ FetchFails(t)
      BY <1>h, <1>k, <3>4 DEF ShowFetching, FetchFails, HandlerSet
    <3>5. CASE SetDestination(t) \/ Enqueue(t)
      BY <1>h, <1>k, <3>5 DEF SetDestination, Enqueue, HandlerSet
    <3> QED BY <1>5, <3>2, <3>3, <3>4, <3>5
  <2> QED BY <1>1, <2>1, <2>2
<1>6. ASSUME NEW t \in Tasks, Fetch(t) PROVE SelectionInv'
  <2>1. PICK raw \in RawLists :
          handlers' = [handlers EXCEPT ![t].raw = raw, ![t].options = SelectVideoFormats(raw),
                         ![t].pc = IF SelectVideoFormats(raw) = <<>> THEN "no formats"
                                   ELSE "store"]
    BY <1>6 DEF Fetch
  <2> DEFINE options == SelectVideoFormats(raw)
  <2>2. /\ handlers'[t] = [handlers[t] EXCEPT !.raw = raw, !.options = options,
                             !.pc = IF options = <<>> THEN "no formats" ELSE "store"]
        /\ OthersKeep(t) /\ UNCHANGED <<row, listed>>
    BY <1>6, <1>k, <2>1 DEF Fetch, OthersKeep
  <2> HIDE DEF options
  <2>3. handlers'[t].raw = raw /\ handlers'[t].options = options
    BY <1>h, <2>2 DEF HandlerSet
  <2> QED BY <1>1, <2>2, <2>3 DEF options
<1>7. ASSUME NEW t \in Tasks, Store(t) PROVE SelectionInv'
  <2> DEFINE raw == handlers[t].raw
  <2>1. raw \in RawLists /\ handlers[t].options = SelectVideoFormats(raw)
    BY <1>7 DEF Store, SelectionInv
  <2>2. row'.formats = handlers[t].options /\ listed' = raw
    BY <1>7 DEF Store, Inv, Shape, RowSet
  <2>3. IsSelection(raw, SelectVideoFormats(raw))
    BY <2>1, ListsAreFormats, SelectionIsRight
  <2>4. OptionsAreTheBest'
    BY <2>1, <2>2, <2>3 DEF OptionsAreTheBest
  <2>5. handlers'[t] = [handlers[t] EXCEPT !.pc = "offer", !.raw = <<>>] /\ OthersKeep(t)
    BY <1>7, <1>k DEF Store, OthersKeep
  <2>6. handlers'[t].pc # "store"
    BY <1>h, <2>5 DEF HandlerSet
  <2> QED BY <2>4, <2>5, <2>6 DEF SelectionInv, OthersKeep
<1> QED BY <1>2, <1>3, <1>4, <1>5, <1>6, <1>7 DEF Next, HandlerStep

(* The qualities kept for a request are the best of each of the largest heights of *)
(* one list of yt-dlp's, for every list: the loop of select_video_formats agrees    *)
(* with its reference, and of two handlers that fetched one each, the row never has *)
(* the options of the one and another's list (pipeline/formats.py, choices.py       *)
(* _show_qualities).                                                                *)
THEOREM TheOptionsAreTheBest == Spec => []OptionsAreTheBest
<1>1. SelectionInv => OptionsAreTheBest
  BY DEF SelectionInv
<1> QED BY <1>1, FieldsInit, SelectionNext, InvCorrect, PTL DEF Spec
=============================================================================
