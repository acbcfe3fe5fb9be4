------------------------ MODULE DPCoordinatorProofs ------------------------
(***************************************************************************)
(* The engines of any data-parallel group stay in lockstep, whatever the   *)
(* number of engines, clients and requests and however late messages are.  *)
(* Lockstep alone is not inductive: an engine follows the wave number of a *)
(* message, so no message may carry one that rank 0 has not reached.  From *)
(* there: coordinator and clients know when the engines are paused.        *)
(***************************************************************************)
EXTENDS DPCoordinator, TLAPS

Wave == engine[Rank0].wave

FirstPending == \A c \in Client : "first" \in polled[c] => first[c] # << >>

Inv == TypeOK /\ InLockstep /\ NothingAhead /\ FirstPending

-----------------------------------------------------------------------------
(* Sequences of messages *)

\* A message of no later wave is put behind others.
LEMMA AppendBehind ==
    ASSUME NEW S, NEW s \in Seq(S), NEW x \in S, NEW w, Behind(s, w), x.wave <= w
    PROVE  Append(s, x) \in Seq(S) /\ Behind(Append(s, x), w)
BY DEF Behind

\* The first message is read.
LEMMA TailBehind ==
    ASSUME NEW S, NEW s \in Seq(S), s # << >>, NEW w, Behind(s, w)
    PROVE  /\ Head(s) \in S /\ Head(s).wave <= w
           /\ Tail(s) \in Seq(S) /\ Behind(Tail(s), w)
BY DEF Behind

\* Several messages are read.
LEMMA RestBehind ==
    ASSUME NEW S, NEW s \in Seq(S), NEW k \in 0..Len(s), NEW w, Behind(s, w)
    PROVE  SubSeq(s, k + 1, Len(s)) \in Seq(S) /\ Behind(SubSeq(s, k + 1, Len(s)), w)
<1>1. SubSeq(s, k + 1, Len(s)) \in Seq(S)
  OBVIOUS
<1>2. Len(SubSeq(s, k + 1, Len(s))) = Len(s) - k
  OBVIOUS
<1>3. \A i \in 1..(Len(s) - k) : SubSeq(s, k + 1, Len(s))[i] = s[k + i]
  OBVIOUS
<1>. QED BY <1>1, <1>2, <1>3 DEF Behind

\* The engines go on to a later wave.
LEMMA LaterBehind ==
    ASSUME NEW S, NEW s \in Seq(S), \A x \in S : x.wave \in Nat,
           NEW w \in Nat, NEW v \in Nat, w <= v, Behind(s, w)
    PROVE  Behind(s, v)
<1>. SUFFICES ASSUME NEW i \in 1..Len(s) PROVE s[i].wave <= v
  BY Zenon DEF Behind
<1>1. s[i] \in S /\ s[i].wave <= w
  BY DEF Behind
<1>. QED BY <1>1

\* What the invariant says of the messages to the engines.
LEMMA InputFacts ==
    ASSUME Inv
    PROVE  /\ input \in [Client -> [Engine -> Seq(Input)]]
           /\ \A c \in Client, e \in Engine :
                /\ input[c][e] \in Seq(Input)
                /\ Behind(input[c][e], Wave)
           /\ Wave \in Nat
<1>1. input \in [Client -> [Engine -> Seq(Input)]]
  BY Zenon DEF Inv, TypeOK
<1>2. \A c \in Client, e \in Engine : input[c][e] \in Seq(Input)
  BY Zenon, <1>1
<1>3. \A c \in Client, e \in Engine : Behind(input[c][e], Wave)
  BY Zenon DEF Inv, NothingAhead, Wave
<1>4. Wave \in Nat
  BY Zenon, CoordinatorAssumption DEF Inv, TypeOK, EngineState, Wave
<1>. QED BY Zenon, <1>1, <1>2, <1>3, <1>4

\* What the invariant says of the messages to and from the coordinator.
LEMMA CoordinatorFacts ==
    ASSUME Inv
    PROVE  /\ \A c \in Client : /\ notice[c] \in Seq(Notice) /\ Behind(notice[c], Wave)
                               /\ news[c] \in Seq(State) /\ Behind(news[c], Wave)
                               /\ client[c] \in State /\ client[c].wave <= Wave
           /\ \A e \in Engine : /\ start[e] \in Seq(Start) /\ Behind(start[e], Wave)
                               /\ report[e] \in Seq(Report) /\ Behind(report[e], Wave)
           /\ coord \in State /\ coord.wave <= Wave
<1>1. \A c \in Client : /\ notice[c] \in Seq(Notice) /\ news[c] \in Seq(State)
                        /\ client[c] \in State
  BY Zenon DEF Inv, TypeOK
<1>2. \A e \in Engine : start[e] \in Seq(Start) /\ report[e] \in Seq(Report)
  BY Zenon DEF Inv, TypeOK
<1>3. \A c \in Client : /\ Behind(notice[c], Wave) /\ Behind(news[c], Wave)
                        /\ client[c].wave <= Wave
  BY Zenon DEF Inv, NothingAhead, Wave
<1>4. \A e \in Engine : Behind(start[e], Wave) /\ Behind(report[e], Wave)
  BY Zenon DEF Inv, NothingAhead, Wave
<1>5. coord \in State /\ coord.wave <= Wave
  BY Zenon DEF Inv, TypeOK, NothingAhead, Wave
<1>. QED BY Zenon, <1>1, <1>2, <1>3, <1>4, <1>5

\* The engines are where rank 0 is.
LEMMA EngineFacts ==
    ASSUME Inv, NEW e \in Engine
    PROVE  /\ engine[e] \in EngineState
           /\ engine[e].wave = Wave /\ Wave \in Nat
           /\ engine[e].step = engine[Rank0].step
BY Zenon, CoordinatorAssumption DEF Inv, TypeOK, InLockstep, EngineState, Wave

-----------------------------------------------------------------------------
(* The invariant holds at first and in every step *)

\* Nothing is under way when the processes start, and all are in wave 0.
LEMMA InitInv == Init => Inv
<1>. SUFFICES ASSUME Init PROVE Inv
  BY Zenon
<1>1. TypeOK
  BY CoordinatorAssumption DEF Init, TypeOK, State, Paused, EngineState, Request
<1>2. InLockstep
  BY Zenon DEF Init, InLockstep
<1>3. NothingAhead
  BY CoordinatorAssumption DEF Init, NothingAhead, Behind, Paused
<1>4. FirstPending
  BY Zenon DEF Init, FirstPending
<1>. QED BY Zenon, <1>1, <1>2, <1>3, <1>4 DEF Inv

\* A client sends a request with the wave it knows of.
LEMMA AddRequestInv ==
    ASSUME Inv, NEW c \in Client, NEW r \in Req, NEW e \in Engine, AddRequest(c, r, e)
    PROVE  Inv'
<1>1. PICK n \in 1..MaxPasses :
        req' = [req EXCEPT ![r] = [status |-> "sent", by |-> {c}, at |-> {e}, left |-> n]]
  BY Zenon DEF AddRequest
<1> DEFINE m == [type |-> "add", req |-> r, wave |-> client[c].wave]
<1>2. m \in Input /\ m.wave <= Wave
  BY Zenon DEF Inv, TypeOK, NothingAhead, Input, State, Wave
<1>3. input[c][e] \in Seq(Input) /\ Behind(input[c][e], Wave)
  BY Zenon, InputFacts
<1>4. Append(input[c][e], m) \in Seq(Input) /\ Behind(Append(input[c][e], m), Wave)
  <2>. HIDE DEF m
  <2>. QED BY Zenon, <1>2, <1>3, AppendBehind
<1>5. input' = [input EXCEPT ![c][e] = Append(@, m)]
  BY Zenon DEF AddRequest
<1>6. TypeOK'
  <2>1. input' \in [Client -> [Engine -> Seq(Input)]]
    <3>. HIDE DEF m
    <3>. QED BY Zenon, <1>4, <1>5 DEF Inv, TypeOK, Input
  <2>2. req' \in [Req -> Request]
    <3>1. [status |-> "sent", by |-> {c}, at |-> {e}, left |-> n] \in Request
      BY ONLY CoordinatorAssumption DEF Request
    <3>. QED BY Zenon, <1>1, <3>1 DEF Inv, TypeOK
  <2>3. first' \in [Client -> Seq(Engine)]
    BY DEF Inv, TypeOK, AddRequest
  <2>. QED BY Zenon, <2>1, <2>2, <2>3 DEF Inv, TypeOK, AddRequest, Input
<1>7. NothingAhead'
  <2>1. \A d \in Client, f \in Engine : Behind(input'[d][f], Wave)
    <3>. HIDE DEF m
    <3>. QED BY Zenon, <1>4, <1>5 DEF Inv, TypeOK, NothingAhead, Wave
  <2>. QED BY Zenon, <2>1 DEF Inv, NothingAhead, AddRequest, Wave
<1>8. FirstPending'
  <2>1. Append(first[c], e) # << >>
    <3>1. first[c] \in Seq(Engine)
      BY Zenon DEF Inv, TypeOK
    <3>2. Len(Append(first[c], e)) = Len(first[c]) + 1 /\ Len(first[c]) \in Nat
      BY ONLY <3>1
    <3>. QED BY ONLY <3>2
  <2>2. \A d \in Client : first'[d] = first[d] \/ first'[d] = Append(first[c], e)
    BY Zenon DEF Inv, TypeOK, AddRequest
  <2>. QED BY Zenon, <2>1, <2>2 DEF Inv, FirstPending, AddRequest
<1>. QED BY Zenon, <1>6, <1>7, <1>8 DEF Inv, InLockstep, AddRequest

\* A client aborts a request; the message carries no wave of its own.
LEMMA AbortRequestInv ==
    ASSUME Inv, NEW c \in Client, NEW r \in Req, AbortRequest(c, r)
    PROVE  Inv'
<1> DEFINE m == [type |-> "abort", req |-> r, wave |-> 0]
<1> DEFINE sent == [e \in Engine |-> IF e \in req[r].at THEN Append(input[c][e], m)
                                   ELSE input[c][e]]
<1>1. m \in Input /\ m.wave <= Wave
  BY InputFacts DEF Input
<1>2. \A e \in Engine : input[c][e] \in Seq(Input) /\ Behind(input[c][e], Wave)
  BY Zenon, InputFacts
<1>3. \A e \in Engine : Append(input[c][e], m) \in Seq(Input)
                       /\ Behind(Append(input[c][e], m), Wave)
  <2>. HIDE DEF m
  <2>. QED BY Zenon, <1>1, <1>2, AppendBehind
<1>4. input' = [input EXCEPT ![c] = sent]
  BY Zenon DEF AbortRequest
<1>5. \A e \in Engine : sent[e] \in Seq(Input) /\ Behind(sent[e], Wave)
  <2>. HIDE DEF m
  <2>. QED BY Zenon, <1>2, <1>3
<1>6. sent \in [Engine -> Seq(Input)]
  <2>. HIDE DEF m
  <2>. QED BY Zenon, <1>2, <1>3
<1>. HIDE DEF m, sent
<1>7. TypeOK'
  <2>1. input' \in [Client -> [Engine -> Seq(Input)]]
    BY Zenon, <1>4, <1>6, InputFacts
  <2>2. req' \in [Req -> Request]
    <3>1. [req[r] EXCEPT !.by = {}] \in Request
      BY ZenonT(30) DEF Inv, TypeOK, Request
    <3>. QED BY Zenon, <3>1 DEF Inv, TypeOK, AbortRequest
  <2>3. UNCHANGED <<engine, coord, client, first, polled, notice, start, news, report>>
    BY Zenon DEF AbortRequest, clients
  <2>. QED BY Zenon, <2>1, <2>2, <2>3 DEF Inv, TypeOK
<1>8. NothingAhead'
  <2>1. \A d \in Client, e \in Engine : Behind(input'[d][e], Wave)
    BY Zenon, <1>4, <1>5, InputFacts
  <2>2. UNCHANGED <<engine, coord, client, notice, start, news, report>>
    BY Zenon DEF AbortRequest, clients
  <2>. QED BY Zenon, <2>1, <2>2 DEF Inv, NothingAhead, Wave
<1>. QED BY Zenon, <1>7, <1>8 DEF Inv, InLockstep, FirstPending, AbortRequest, clients

\* The stats task of a client is woken.
LEMMA PollInv ==
    ASSUME Inv, NEW c \in Client, Poll(c)
    PROVE  Inv'
<1>1. polled' \in [Client -> SUBSET {"stats", "first"}]
  BY SMTT(60) DEF Inv, TypeOK, Poll
<1>2. UNCHANGED <<engine, coord, client, first, req, channels>>
  BY Zenon DEF Poll
<1>3. FirstPending'
  BY <1>2 DEF Inv, TypeOK, FirstPending, Poll
<1>. QED BY <1>1, <1>2, <1>3, ZenonT(60) DEF Inv, TypeOK, InLockstep, NothingAhead, channels

\* The stats task forwards a first request and reads news.
LEMMA ServeSocketsInv ==
    ASSUME Inv, NEW c \in Client, ServeSockets(c)
    PROVE  Inv'
<1>1. UNCHANGED <<engine, coord, req, input, start, report>>
  BY Zenon DEF ServeSockets
<1>2. polled' \in [Client -> SUBSET {"stats", "first"}]
  BY Zenon DEF Inv, TypeOK, ServeSockets
<1> DEFINE m == [engine |-> Head(first[c]), wave |-> client[c].wave]
<1>3. \/ UNCHANGED <<notice, first>>
      \/ /\ "first" \in polled[c]
         /\ notice' = [notice EXCEPT ![c] = Append(@, m)]
         /\ first' = [first EXCEPT ![c] = Tail(@)]
  BY Zenon DEF ServeSockets
<1>4. PICK k \in 0..Len(news[c]) :
        /\ client' = [client EXCEPT ![c] = IF k > 0 THEN news[c][k]
                                          ELSE [@ EXCEPT !.running = TRUE]]
        /\ news' = [news EXCEPT ![c] = SubSeq(@, k + 1, Len(@))]
  <2>1. PICK k \in (IF "stats" \in polled[c] THEN 1 ELSE 0)..Len(news[c]) :
          /\ client' = [client EXCEPT ![c] = IF k > 0 THEN news[c][k]
                                            ELSE [@ EXCEPT !.running = TRUE]]
          /\ news' = [news EXCEPT ![c] = SubSeq(@, k + 1, Len(@))]
    BY Zenon DEF ServeSockets
  <2>2. Len(news[c]) \in Nat
    BY ONLY CoordinatorFacts
  <2>3. k \in 0..Len(news[c])
    BY ONLY <2>2
  <2>. QED BY Zenon, <2>1, <2>3
<1>5. /\ SubSeq(news[c], k + 1, Len(news[c])) \in Seq(State)
      /\ Behind(SubSeq(news[c], k + 1, Len(news[c])), Wave)
  BY Zenon, CoordinatorFacts, RestBehind
<1>6. news' \in [Client -> Seq(State)] /\ \A d \in Client : Behind(news'[d], Wave)
  BY Zenon, <1>4, <1>5, CoordinatorFacts DEF Inv, TypeOK
<1>7. client' \in [Client -> State] /\ \A d \in Client : client'[d].wave <= Wave
  <2> DEFINE known == IF k > 0 THEN news[c][k] ELSE [client[c] EXCEPT !.running = TRUE]
  <2>1. known \in State /\ known.wave <= Wave
    <3>1. CASE k > 0
      <4>1. news[c] \in Seq(State) /\ k \in 1..Len(news[c])
        BY <3>1, CoordinatorFacts
      <4>2. news[c][k] \in State
        BY ONLY <4>1
      <4>3. news[c][k].wave <= Wave
        BY Zenon, <4>1, CoordinatorFacts DEF Behind
      <4>. QED BY Zenon, <3>1, <4>2, <4>3
    <3>2. CASE ~ (k > 0)
      BY Zenon, <3>2, CoordinatorFacts DEF State
    <3>. QED BY Zenon, <3>1, <3>2
  <2>2. client' = [client EXCEPT ![c] = known]
    BY Zenon, <1>4
  <2>. HIDE DEF known
  <2>. QED BY Zenon, <2>1, <2>2, CoordinatorFacts DEF Inv, TypeOK
<1>8. /\ notice' \in [Client -> Seq(Notice)] /\ first' \in [Client -> Seq(Engine)]
      /\ \A d \in Client : Behind(notice'[d], Wave)
  <2>1. CASE UNCHANGED <<notice, first>>
    BY Zenon, <2>1, CoordinatorFacts DEF Inv, TypeOK
  <2>2. CASE /\ "first" \in polled[c]
             /\ notice' = [notice EXCEPT ![c] = Append(@, m)]
             /\ first' = [first EXCEPT ![c] = Tail(@)]
    <3>1. first[c] \in Seq(Engine) /\ first[c] # << >>
      BY Zenon, <2>2 DEF Inv, TypeOK, FirstPending
    <3>2. Head(first[c]) \in Engine /\ Tail(first[c]) \in Seq(Engine)
      BY ONLY <3>1
    <3>3. m \in Notice /\ m.wave <= Wave
      BY Zenon, <3>2, CoordinatorFacts DEF Notice, State
    <3>. HIDE DEF m
    <3>4. Append(notice[c], m) \in Seq(Notice) /\ Behind(Append(notice[c], m), Wave)
      BY Zenon, <3>3, CoordinatorFacts, AppendBehind
    <3>5. first' \in [Client -> Seq(Engine)]
      BY Zenon, <2>2, <3>2 DEF Inv, TypeOK
    <3>6. /\ notice' \in [Client -> Seq(Notice)]
          /\ \A d \in Client : Behind(notice'[d], Wave)
      BY Zenon, <2>2, <3>4, CoordinatorFacts DEF Inv, TypeOK
    <3>. QED BY Zenon, <3>5, <3>6
  <2>. QED BY Zenon, <1>3, <2>1, <2>2
<1>9. TypeOK'
  BY Zenon, <1>1, <1>2, <1>6, <1>7, <1>8 DEF Inv, TypeOK
<1>10. NothingAhead'
  BY Zenon, <1>1, <1>6, <1>7, <1>8 DEF Inv, NothingAhead, Wave
<1>11. FirstPending'
  <2>1. polled' = [polled EXCEPT ![c] = {}]
    BY Zenon DEF ServeSockets
  <2>2. \A d \in Client \ {c} : first'[d] = first[d]
    BY Zenon, <1>3 DEF Inv, TypeOK
  <2>. QED BY Zenon, <2>1, <2>2 DEF Inv, TypeOK, FirstPending
<1>. QED BY Zenon, <1>1, <1>9, <1>10, <1>11 DEF Inv, InLockstep

\* A wave that the engines have reached is announced to engines and clients.
LEMMA AnnounceFacts ==
    ASSUME Inv, NEW wave \in Nat, wave <= Wave, NEW x \in Engine \union {NoEngine},
           Announce(wave, x)
    PROVE  /\ coord' \in State /\ coord'.wave <= Wave
           /\ start' \in [Engine -> Seq(Start)]
           /\ \A e \in Engine : Behind(start'[e], Wave)
           /\ news' \in [Client -> Seq(State)]
           /\ \A c \in Client : Behind(news'[c], Wave)
<1>1. coord' \in State /\ coord'.wave <= Wave
  BY Zenon DEF Announce, State
<1> DEFINE m == [wave |-> wave, exclude |-> x]
<1>2. m \in Start /\ m.wave <= Wave
  BY Zenon DEF Start
<1>3. start' = [e \in Engine |-> Append(start[e], m)]
  BY Zenon DEF Announce
<1>. HIDE DEF m
<1>4. \A e \in Engine : Append(start[e], m) \in Seq(Start) /\ Behind(Append(start[e], m), Wave)
  BY Zenon, <1>2, CoordinatorFacts, AppendBehind
<1>5. \A c \in Client : /\ Append(news[c], coord') \in Seq(State)
                        /\ Behind(Append(news[c], coord'), Wave)
  BY Zenon, <1>1, CoordinatorFacts, AppendBehind
<1>6. news' = [c \in Client |-> Append(news[c], coord')]
  BY Zenon DEF Announce
<1>. QED BY Zenon, <1>1, <1>3, <1>4, <1>5, <1>6

\* The coordinator starts a wave for a client.
LEMMA HandleNoticeInv ==
    ASSUME Inv, NEW c \in Client, HandleNotice(c)
    PROVE  Inv'
<1> DEFINE m == Head(notice[c])
<1>1. UNCHANGED <<engine, client, first, polled, req, input, report>>
  BY Zenon DEF HandleNotice, clients
<1>2. /\ m \in Notice /\ Tail(notice[c]) \in Seq(Notice) /\ Behind(Tail(notice[c]), Wave)
  BY Zenon, CoordinatorFacts, TailBehind DEF HandleNotice
<1>3. /\ notice' \in [Client -> Seq(Notice)]
      /\ \A d \in Client : Behind(notice'[d], Wave)
  BY Zenon, <1>2, CoordinatorFacts DEF Inv, TypeOK, HandleNotice
<1>4. /\ coord' \in State /\ coord'.wave <= Wave
      /\ start' \in [Engine -> Seq(Start)] /\ \A e \in Engine : Behind(start'[e], Wave)
      /\ news' \in [Client -> Seq(State)] /\ \A d \in Client : Behind(news'[d], Wave)
  <2>1. CASE UNCHANGED <<coord, start, news>>
    BY Zenon, <2>1, CoordinatorFacts DEF Inv, TypeOK
  <2>2. CASE Announce(coord.wave, Exclude(m))
    <3>1. Exclude(m) \in Engine \union {NoEngine}
      BY Zenon, <1>2 DEF Exclude, Notice
    <3>2. coord.wave \in Nat /\ coord.wave <= Wave
      BY Zenon, CoordinatorFacts DEF State
    <3>. HIDE DEF m
    <3>. QED BY Zenon, <2>2, <3>1, <3>2, AnnounceFacts
  <2>. QED BY Zenon, <2>1, <2>2 DEF HandleNotice
<1>5. TypeOK'
  BY Zenon, <1>1, <1>3, <1>4 DEF Inv, TypeOK
<1>6. NothingAhead'
  BY Zenon, <1>1, <1>3, <1>4 DEF Inv, NothingAhead, Wave
<1>. QED BY Zenon, <1>1, <1>5, <1>6 DEF Inv, InLockstep, FirstPending

\* The coordinator learns that a wave is over or has begun.
LEMMA HandleReportInv ==
    ASSUME Inv, NEW e \in Engine, HandleReport(e)
    PROVE  Inv'
<1> DEFINE m == Head(report[e])
<1>1. UNCHANGED <<engine, client, first, polled, req, input, notice>>
  BY Zenon DEF HandleReport, clients
<1>2. /\ m \in Report /\ m.wave <= Wave
      /\ Tail(report[e]) \in Seq(Report) /\ Behind(Tail(report[e]), Wave)
  BY Zenon, CoordinatorFacts, TailBehind DEF HandleReport
<1>3. /\ report' \in [Engine -> Seq(Report)]
      /\ \A f \in Engine : Behind(report'[f], Wave)
  BY Zenon, <1>2, CoordinatorFacts DEF Inv, TypeOK, HandleReport
<1>4. \A f \in Engine : \A i \in 1..Len(report[f]) :
        report[f][i].type = "complete" => report[f][i].wave < Wave
  BY Zenon DEF Inv, NothingAhead, Wave
<1>5. \A f \in Engine : \A i \in 1..Len(report'[f]) :
        report'[f][i].type = "complete" => report'[f][i].wave < Wave
  <2>1. \A f \in Engine : report'[f] = report[f] \/ (f = e /\ report'[f] = Tail(report[e]))
    BY Zenon DEF Inv, TypeOK, HandleReport
  <2>2. report[e] \in Seq(Report) /\ report[e] # << >>
    BY Zenon, CoordinatorFacts DEF HandleReport
  <2>3. \A i \in 1..Len(Tail(report[e])) : /\ Tail(report[e])[i] = report[e][i + 1]
                                         /\ i + 1 \in 1..Len(report[e])
    BY ONLY <2>2
  <2>. QED BY Zenon, <1>4, <2>1, <2>3
<1>6. m.type = "complete" => m.wave < Wave
  <2>1. report[e] \in Seq(Report) /\ report[e] # << >>
    BY Zenon, CoordinatorFacts DEF HandleReport
  <2>2. m = report[e][1] /\ 1 \in 1..Len(report[e])
    BY ONLY <2>1
  <2>. QED BY Zenon, <1>4, <2>2
<1>7. /\ coord' \in State /\ coord'.wave <= Wave
      /\ start' \in [Engine -> Seq(Start)] /\ \A f \in Engine : Behind(start'[f], Wave)
      /\ news' \in [Client -> Seq(State)] /\ \A d \in Client : Behind(news'[d], Wave)
  <2>1. CASE UNCHANGED <<coord, start, news>>
    BY Zenon, <2>1, CoordinatorFacts DEF Inv, TypeOK
  <2>2. CASE /\ m.type = "complete"
             /\ coord' = AfterComplete(m)
             /\ news' = [d \in Client |-> Append(news[d], coord')]
             /\ UNCHANGED start
    <3>1. coord' \in State /\ coord'.wave <= Wave
      BY <1>2, <1>6, <2>2, EngineFacts DEF AfterComplete, State, Report
    <3>2. \A d \in Client : /\ Append(news[d], coord') \in Seq(State)
                            /\ Behind(Append(news[d], coord'), Wave)
      BY Zenon, <3>1, CoordinatorFacts, AppendBehind
    <3>. HIDE DEF m
    <3>. QED BY Zenon, <2>2, <3>1, <3>2, CoordinatorFacts DEF Inv, TypeOK
  <2>3. CASE Announce(m.wave, e)
    <3>1. m.wave \in Nat
      BY Zenon, <1>2 DEF Report
    <3>. QED BY Zenon, <1>2, <2>3, <3>1, AnnounceFacts
  <2>. QED BY Zenon, <2>1, <2>2, <2>3 DEF HandleReport
<1>8. TypeOK'
  BY Zenon, <1>1, <1>3, <1>7 DEF Inv, TypeOK
<1>9. NothingAhead'
  BY Zenon, <1>1, <1>3, <1>5, <1>7 DEF Inv, NothingAhead, Wave
<1>. QED BY Zenon, <1>1, <1>8, <1>9 DEF Inv, InLockstep, FirstPending

\* The coordinator publishes what it knows.
LEMMA PublishInv == Inv /\ Publish => Inv'
<1>. SUFFICES ASSUME Inv, Publish PROVE Inv'
  BY Zenon
<1>1. UNCHANGED <<engine, coord, client, first, polled, req, input, notice, start, report>>
  BY Zenon DEF Publish, clients
<1>2. \A c \in Client : /\ Append(news[c], coord) \in Seq(State)
                        /\ Behind(Append(news[c], coord), Wave)
  BY Zenon, CoordinatorFacts, AppendBehind
<1>3. news' = [c \in Client |-> Append(news[c], coord)]
  BY Zenon DEF Publish
<1>4. news' \in [Client -> Seq(State)] /\ \A c \in Client : Behind(news'[c], Wave)
  BY Zenon, <1>2, <1>3
<1>5. TypeOK'
  BY Zenon, <1>1, <1>4 DEF Inv, TypeOK
<1>6. NothingAhead'
  BY Zenon, <1>1, <1>4 DEF Inv, NothingAhead, Wave
<1>. QED BY Zenon, <1>1, <1>5, <1>6 DEF Inv, InLockstep, FirstPending

\* An engine receives a request or an abort.  The wave of the message is one the
\* engine has reached, so its own wave does not change.
LEMMA ReceiveInputInv ==
    ASSUME Inv, NEW c \in Client, NEW e \in Engine, ReceiveInput(c, e)
    PROVE  Inv'
<1> DEFINE m == Head(input[c][e])
<1> DEFINE q == AfterAdd(engine[e], m.wave)
<1>1. UNCHANGED <<coord, client, first, polled, notice, start, news>>
  BY Zenon DEF ReceiveInput, clients
<1>2. /\ m \in Input /\ m.wave <= Wave
      /\ Tail(input[c][e]) \in Seq(Input) /\ Behind(Tail(input[c][e]), Wave)
  BY Zenon, InputFacts, TailBehind DEF ReceiveInput
<1>3. /\ input' \in [Client -> [Engine -> Seq(Input)]]
      /\ \A d \in Client, f \in Engine : Behind(input'[d][f], Wave)
  <2>1. input' = [input EXCEPT ![c][e] = Tail(@)]
    BY Zenon DEF ReceiveInput
  <2>. QED BY Zenon, <1>2, <2>1, InputFacts
<1>4. q \in EngineState /\ q.wave = Wave /\ q.step = engine[e].step /\ q.pc = engine[e].pc
  <2>1. m.wave \in Nat
    BY Zenon, <1>2 DEF Input
  <2>2. ~ (m.wave > engine[e].wave)
    BY <1>2, <2>1, EngineFacts
  <2>. QED BY Zenon, <2>1, <2>2, EngineFacts DEF AfterAdd, EngineState
<1>5. \/ /\ req' = [req EXCEPT ![m.req].status = "active"]
         /\ engine' = [engine EXCEPT ![e] = q]
         /\ \/ UNCHANGED report
            \/ report' = [report EXCEPT ![e] = Append(@, [type |-> "start", wave |-> q.wave])]
      \/ /\ req' = [req EXCEPT ![m.req].status = "done"]
         /\ UNCHANGED <<engine, report>>
  BY Zenon DEF ReceiveInput
<1>6. /\ engine' \in [Engine -> EngineState]
      /\ \A f \in Engine : /\ engine'[f].wave = engine[f].wave
                          /\ engine'[f].step = engine[f].step
                          /\ engine'[f].pc = engine[f].pc
  <2>1. CASE engine' = engine
    BY Zenon, <2>1 DEF Inv, TypeOK
  <2>2. CASE engine' = [engine EXCEPT ![e] = q]
    <3>. HIDE DEF q
    <3>. QED BY Zenon, <1>4, <2>2, EngineFacts DEF Inv, TypeOK
  <2>. QED BY Zenon, <1>5, <2>1, <2>2
<1>7. Wave' = Wave
  BY Zenon, <1>6, CoordinatorAssumption DEF Wave
<1>8. req' \in [Req -> Request]
  <2>1. m.req \in Req
    BY Zenon, <1>2 DEF Input
  <2>2. \A status \in {"active", "done"} : [req[m.req] EXCEPT !.status = status] \in Request
    BY <2>1, ZenonT(30) DEF Inv, TypeOK, Request
  <2>. QED BY Zenon, <1>5, <2>1, <2>2 DEF Inv, TypeOK
<1>9. /\ report' \in [Engine -> Seq(Report)]
      /\ \A f \in Engine : Behind(report'[f], Wave)
      /\ \A f \in Engine : \A i \in 1..Len(report'[f]) :
           report'[f][i].type = "complete" => report'[f][i].wave < Wave
  <2>1. \A f \in Engine : \A i \in 1..Len(report[f]) :
          report[f][i].type = "complete" => report[f][i].wave < Wave
    BY Zenon DEF Inv, NothingAhead, Wave
  <2>2. CASE report' = report
    BY Zenon, <2>1, <2>2, CoordinatorFacts DEF Inv, TypeOK
  <2> DEFINE n == [type |-> "start", wave |-> q.wave]
  <2>3. CASE report' = [report EXCEPT ![e] = Append(@, n)]
    <3>1. n \in Report /\ n.wave <= Wave /\ n.type # "complete"
      BY <1>4, EngineFacts, SMTT(60) DEF Report
    <3>2. report[e] \in Seq(Report) /\ Behind(report[e], Wave)
      BY Zenon, CoordinatorFacts
    <3>. HIDE DEF n
    <3>3. Append(report[e], n) \in Seq(Report) /\ Behind(Append(report[e], n), Wave)
      BY Zenon, <3>1, <3>2, AppendBehind
    <3>4. \A i \in 1..Len(Append(report[e], n)) :
            Append(report[e], n)[i].type = "complete" => Append(report[e], n)[i].wave < Wave
      BY ONLY <2>1, <3>1, <3>2
    <3>5. report \in [Engine -> Seq(Report)]
      BY Zenon DEF Inv, TypeOK
    <3>6. report' \in [Engine -> Seq(Report)]
      BY Zenon, <2>3, <3>3, <3>5
    <3>7. \A f \in Engine : report'[f] = report[f] \/ report'[f] = Append(report[e], n)
      BY Zenon, <2>3, <3>5
    <3>. QED BY Zenon, <2>1, <3>3, <3>4, <3>6, <3>7, CoordinatorFacts
  <2>. QED BY Zenon, <1>5, <2>2, <2>3
<1>10. TypeOK'
  BY Zenon, <1>1, <1>3, <1>6, <1>8, <1>9 DEF Inv, TypeOK
<1>11. NothingAhead'
  BY Zenon, <1>1, <1>3, <1>7, <1>9 DEF Inv, NothingAhead, Wave
<1>12. InLockstep'
  BY <1>6 DEF Inv, InLockstep
<1>. QED BY Zenon, <1>1, <1>10, <1>11, <1>12 DEF Inv, FirstPending

\* An engine receives START_DP_WAVE; it heeds only the wave it is in.
LEMMA ReceiveStartInv ==
    ASSUME Inv, NEW e \in Engine, ReceiveStart(e)
    PROVE  Inv'
<1> DEFINE m == Head(start[e])
<1>1. UNCHANGED <<coord, client, first, polled, req, input, notice, news, report>>
  BY Zenon DEF ReceiveStart, clients
<1>2. /\ m \in Start /\ m.wave <= Wave
      /\ Tail(start[e]) \in Seq(Start) /\ Behind(Tail(start[e]), Wave)
  BY Zenon, CoordinatorFacts, TailBehind DEF ReceiveStart
<1>3. start' \in [Engine -> Seq(Start)] /\ \A f \in Engine : Behind(start'[f], Wave)
  BY Zenon, <1>2, CoordinatorFacts DEF Inv, TypeOK, ReceiveStart
<1>4. /\ engine' \in [Engine -> EngineState]
      /\ \A f \in Engine : /\ engine'[f].wave = engine[f].wave
                          /\ engine'[f].step = engine[f].step
                          /\ engine'[f].pc = engine[f].pc
  <2>1. CASE engine' = engine
    BY Zenon, <2>1 DEF Inv, TypeOK
  <2>2. CASE /\ Heeds(e, m)
             /\ engine' = [engine EXCEPT ![e].wave = m.wave, ![e].running = TRUE]
    <3>1. m.wave = engine[e].wave
      BY <1>2, <2>2, EngineFacts DEF Heeds, Start
    <3>2. engine[e] \in EngineState /\ engine \in [Engine -> EngineState]
      BY Zenon, EngineFacts DEF Inv, TypeOK
    <3>. HIDE DEF m
    <3>3. engine' = [engine EXCEPT ![e] = [@ EXCEPT !.wave = m.wave, !.running = TRUE]]
      BY Zenon, <2>2, <3>2 DEF EngineState
    <3>. QED BY Zenon, <3>1, <3>2, <3>3 DEF EngineState
  <2>. QED BY Zenon, <2>1, <2>2 DEF ReceiveStart
<1>5. Wave' = Wave
  BY Zenon, <1>4, CoordinatorAssumption DEF Wave
<1>6. TypeOK'
  BY Zenon, <1>1, <1>3, <1>4 DEF Inv, TypeOK
<1>7. NothingAhead'
  BY Zenon, <1>1, <1>3, <1>5 DEF Inv, NothingAhead, Wave
<1>8. InLockstep'
  BY <1>4 DEF Inv, InLockstep
<1>. QED BY Zenon, <1>1, <1>6, <1>7, <1>8 DEF Inv, FirstPending

\* An engine enters a forward pass: none is in the all-reduce, which is reached
\* by all at once.
LEMMA BeginPassInv ==
    ASSUME Inv, NEW e \in Engine, BeginPass(e)
    PROVE  Inv'
<1>1. UNCHANGED <<coord, client, first, polled, req, input, notice, start, news, report>>
  BY Zenon DEF BeginPass, clients, channels
<1>2. engine' \in [Engine -> EngineState]
  BY ZenonT(60) DEF Inv, TypeOK, EngineState, BeginPass
<1>3. \A f \in Engine : /\ engine'[f].wave = engine[f].wave
                        /\ engine'[f].step = engine[f].step
                        /\ engine'[f].pc # "reduce"
  BY DEF Inv, TypeOK, InLockstep, EngineState, BeginPass
<1>4. Wave' = Wave
  BY Zenon, <1>3, CoordinatorAssumption DEF Wave
<1>5. TypeOK'
  BY Zenon, <1>1, <1>2 DEF Inv, TypeOK
<1>6. NothingAhead'
  BY Zenon, <1>1, <1>4 DEF Inv, NothingAhead, Wave
<1>7. InLockstep'
  BY <1>3 DEF Inv, InLockstep
<1>. QED BY Zenon, <1>1, <1>5, <1>6, <1>7 DEF Inv, FirstPending

EngineAt(w, b, n, p) == [wave |-> w, running |-> b, step |-> n, pc |-> p]

\* The state of an engine is made of its four parts.
LEMMA EngineRecord ==
    ASSUME NEW w \in Nat, NEW b \in BOOLEAN, NEW n \in 0..(SyncEvery - 1),
           NEW p \in {"input", "forward", "reduce"}
    PROVE  /\ EngineAt(w, b, n, p) \in EngineState
           /\ EngineAt(w, b, n, p).wave = w
           /\ EngineAt(w, b, n, p).step = n
           /\ EngineAt(w, b, n, p).pc = p
BY Zenon DEF EngineState, EngineAt

\* A request after a pass.
LEMMA RequestUpdate ==
    ASSUME NEW x \in Request, NEW n \in Int, NEW status \in {"active", "done"}
    PROVE  [x EXCEPT !.left = n, !.status = status] \in Request
BY Zenon DEF Request

\* All engines leave a pass with the same count.
LEMMA ForwardInv ==
    ASSUME Inv, Forward
    PROVE  Inv'
<1>1. UNCHANGED <<coord, client, first, polled, input, notice, start, news, report>>
  BY Zenon DEF Forward, clients, channels
<1> DEFINE step == NextStep(engine[Rank0].step)
<1>2. step \in 0..(SyncEvery - 1)
  BY EngineFacts, CoordinatorAssumption DEF EngineState, NextStep
<1>3. \A e \in Engine :
        /\ engine[e] \in EngineState
        /\ engine[e].wave \in Nat
        /\ engine'[e] = EngineAt(engine[e].wave, step # 0 \/ engine[e].running, step,
                                 IF step = 0 THEN "reduce" ELSE "input")
  BY Zenon, EngineFacts DEF Forward, EngineAt
<1>. HIDE DEF step
<1>4. \A e \in Engine : /\ engine'[e] \in EngineState
                        /\ engine'[e].wave = engine[e].wave
                        /\ engine'[e].step = step
                        /\ engine'[e].pc = IF step = 0 THEN "reduce" ELSE "input"
  <2>. SUFFICES ASSUME NEW e \in Engine
                PROVE  /\ engine'[e] \in EngineState
                       /\ engine'[e].wave = engine[e].wave
                       /\ engine'[e].step = step
                       /\ engine'[e].pc = IF step = 0 THEN "reduce" ELSE "input"
    BY Zenon
  <2> DEFINE b == step # 0 \/ engine[e].running
             p == IF step = 0 THEN "reduce" ELSE "input"
  <2>1. b \in BOOLEAN /\ p \in {"input", "forward", "reduce"}
    BY Zenon
  <2>2. engine[e].wave \in Nat /\ engine'[e] = EngineAt(engine[e].wave, b, step, p)
    BY Zenon, <1>3
  <2>. HIDE DEF b, p
  <2>3. /\ engine'[e] \in EngineState
        /\ engine'[e].wave = engine[e].wave
        /\ engine'[e].step = step
        /\ engine'[e].pc = p
    BY ONLY <1>2, <2>1, <2>2, EngineRecord
  <2>. QED BY Zenon, <2>3 DEF p
<1>5. engine' \in [Engine -> EngineState]
  BY Zenon, <1>4 DEF Forward
<1>6. req' \in [Req -> Request]
  <2>1. \A r \in Req : req[r] \in Request /\ req[r].left - 1 \in Int
    BY DEF Inv, TypeOK, Request
  <2>2. \A r \in Req, status \in {"active", "done"} :
          [req[r] EXCEPT !.left = req[r].left - 1, !.status = status] \in Request
    BY <2>1, RequestUpdate, Zenon
  <2>3. \A r \in Req : req'[r] \in Request
    <3>. SUFFICES ASSUME NEW r \in Req, req[r].status = "active" PROVE req'[r] \in Request
      BY Zenon, <2>1 DEF Forward
    <3>1. req'[r] = [req[r] EXCEPT !.left = req[r].left - 1,
                                   !.status = IF req[r].left = 1 THEN "done" ELSE "active"]
      BY Zenon DEF Forward
    <3>. QED BY <2>2, <3>1, Zenon
  <2>. QED BY Zenon, <2>3 DEF Forward
<1>7. Wave' = Wave
  BY Zenon, <1>4, CoordinatorAssumption DEF Wave
<1>8. TypeOK'
  BY Zenon, <1>1, <1>5, <1>6 DEF Inv, TypeOK
<1>9. NothingAhead'
  BY Zenon, <1>1, <1>7 DEF Inv, NothingAhead, Wave
<1>10. InLockstep'
  BY <1>4 DEF Inv, InLockstep
<1>. QED BY Zenon, <1>1, <1>8, <1>9, <1>10 DEF Inv, FirstPending

\* All engines leave the all-reduce together; when nothing is unfinished they
\* go on to the next wave, and rank 0 reports the one that is over.
LEMMA AllReduceInv ==
    ASSUME Inv, AllReduce
    PROVE  Inv'
<1>1. UNCHANGED <<coord, client, first, polled, req, input, notice, start, news>>
  BY Zenon DEF AllReduce, clients
<1>2. /\ engine' \in [Engine -> EngineState] /\ InLockstep'
      /\ Wave' = Wave + (IF Unfinished THEN 0 ELSE 1)
  <2> DEFINE d == IF Unfinished THEN 0 ELSE 1
  <2>1. \A e \in Engine :
          /\ engine[e] \in EngineState
          /\ engine[e].step \in 0..(SyncEvery - 1)
          /\ engine'[e] = EngineAt(engine[e].wave + d, Unfinished, engine[e].step, "input")
    BY Zenon, EngineFacts DEF AllReduce, EngineState, EngineAt
  <2>2. Unfinished \in BOOLEAN
    BY Zenon DEF Unfinished
  <2>3. d \in Nat
    BY Zenon
  <2>. HIDE DEF d
  <2>4. \A e \in Engine : engine[e].wave + d \in Nat
    <3>. SUFFICES ASSUME NEW e \in Engine PROVE engine[e].wave + d \in Nat
      BY Zenon
    <3>1. engine[e].wave \in Nat
      BY Zenon, EngineFacts
    <3>. QED BY ONLY <2>3, <3>1
  <2>5. \A e \in Engine : /\ engine'[e] \in EngineState
                          /\ engine'[e].wave = engine[e].wave + d
                          /\ engine'[e].step = engine[e].step
                          /\ engine'[e].pc = "input"
    BY ONLY <2>1, <2>2, <2>4, EngineRecord
  <2>6. engine' \in [Engine -> EngineState]
    BY Zenon, <2>5 DEF AllReduce
  <2>7. InLockstep'
    BY <2>5, SMTT(60) DEF Inv, InLockstep
  <2>8. Wave' = Wave + d
    BY Zenon, <2>5, CoordinatorAssumption DEF Wave
  <2>. QED BY Zenon, <2>6, <2>7, <2>8 DEF d
<1>3. CASE Unfinished
  <2>2. Wave' = Wave
    BY <1>2, <1>3, InputFacts
  <2>3. report' = report
    BY Zenon, <1>3 DEF AllReduce
  <2>4. TypeOK'
    BY Zenon, <1>1, <1>2, <2>3 DEF Inv, TypeOK
  <2>5. NothingAhead'
    BY Zenon, <1>1, <2>2, <2>3 DEF Inv, NothingAhead, Wave
  <2>. QED BY Zenon, <1>1, <1>2, <2>4, <2>5 DEF Inv, FirstPending
<1>4. CASE ~ Unfinished
  <2>2. Wave' = Wave + 1
    BY Zenon, <1>2, <1>4
  <2>3. Wave \in Nat /\ Wave' \in Nat /\ Wave <= Wave'
    BY <2>2, InputFacts
  <2> DEFINE m == [type |-> "complete", wave |-> Wave]
  <2>4. report' = [report EXCEPT ![Rank0] = Append(@, m)]
    BY Zenon, <1>4 DEF AllReduce, Wave
  <2>5. m \in Report /\ m.wave <= Wave
    BY ONLY <2>3 DEF Report
  <2>. HIDE DEF m
  <2>6. \A f \in Engine : report'[f] \in Seq(Report) /\ Behind(report'[f], Wave)
    <3>1. Append(report[Rank0], m) \in Seq(Report) /\ Behind(Append(report[Rank0], m), Wave)
      BY Zenon, <2>5, CoordinatorFacts, CoordinatorAssumption, AppendBehind
    <3>. QED BY Zenon, <2>4, <3>1, CoordinatorFacts DEF Inv, TypeOK
  <2>7. TypeOK'
    BY Zenon, <1>1, <1>2, <2>4, <2>6 DEF Inv, TypeOK
  <2>8. \A S : \A s \in Seq(S) :
          (\A x \in S : x.wave \in Nat) /\ Behind(s, Wave) => Behind(s, Wave')
    BY Zenon, <2>3, LaterBehind
  <2>9. /\ \A x \in Report : x.wave \in Nat
        /\ \A x \in State : x.wave \in Nat
        /\ \A x \in Input : x.wave \in Nat
        /\ \A x \in Start : x.wave \in Nat
        /\ \A x \in Notice : x.wave \in Nat
    BY Zenon DEF Report, State, Input, Start, Notice
  <2>10. \A f \in Engine : \A i \in 1..Len(report'[f]) : report'[f][i].wave < Wave'
    <3>. SUFFICES ASSUME NEW f \in Engine, NEW i \in 1..Len(report'[f])
                  PROVE  report'[f][i].wave < Wave'
      BY Zenon
    <3>1. report'[f][i] \in Report /\ report'[f][i].wave <= Wave
      BY ONLY <2>6 DEF Behind
    <3>. QED BY ONLY <2>2, <2>3, <2>9, <3>1
  <2>11. /\ \A f \in Engine : Behind(report'[f], Wave') /\ Behind(start'[f], Wave')
         /\ \A c \in Client, f \in Engine : Behind(input'[c][f], Wave')
         /\ \A c \in Client : Behind(notice'[c], Wave') /\ Behind(news'[c], Wave')
    BY Zenon, <1>1, <2>6, <2>8, <2>9, CoordinatorFacts, InputFacts
  <2>12. /\ coord'.wave <= Wave'
         /\ \A c \in Client : client'[c].wave <= Wave'
    BY <1>1, <2>2, <2>3, <2>9, CoordinatorFacts
  <2>13. NothingAhead'
    BY <2>10, <2>11, <2>12, Zenon DEF NothingAhead, Wave
  <2>. QED BY Zenon, <1>1, <1>2, <2>7, <2>13 DEF Inv, FirstPending
<1>. QED BY Zenon, <1>3, <1>4

\* Every step keeps the invariant.
LEMMA NextInv == Inv /\ [Next]_vars => Inv'
<1>. SUFFICES ASSUME Inv, [Next]_vars PROVE Inv'
  BY Zenon
<1>1. ASSUME NEW c \in Client, NEW r \in Req, NEW e \in Engine, AddRequest(c, r, e)
      PROVE  Inv'
  BY Zenon, <1>1, AddRequestInv
<1>2. ASSUME NEW c \in Client, NEW r \in Req, AbortRequest(c, r)
      PROVE  Inv'
  BY Zenon, <1>2, AbortRequestInv
<1>3. ASSUME NEW c \in Client, ClientTask(c)
      PROVE  Inv'
  BY Zenon, <1>3, PollInv, ServeSocketsInv DEF ClientTask
<1>4. ASSUME NEW e \in Engine, Receive(e) \/ BeginPass(e)
      PROVE  Inv'
  BY Zenon, <1>4, ReceiveStartInv, ReceiveInputInv, BeginPassInv DEF Receive
<1>5. CASE Coordinator
  BY Zenon, <1>5, HandleNoticeInv, HandleReportInv DEF Coordinator
<1>6. CASE Publish
  BY Zenon, <1>6, PublishInv
<1>7. CASE Collective
  BY Zenon, <1>7, ForwardInv, AllReduceInv DEF Collective
<1>8. CASE UNCHANGED vars
  BY <1>8, ZenonT(60) DEF vars, clients, channels, Inv, TypeOK, InLockstep, NothingAhead,
              Behind, FirstPending
<1>. QED BY Zenon, <1>1, <1>2, <1>3, <1>4, <1>5, <1>6, <1>7, <1>8 DEF Next

-----------------------------------------------------------------------------

\* The inductive invariant holds in every behaviour.
THEOREM InvariantHolds == Spec => []Inv
BY InitInv, NextInv, PTL DEF Spec

\* In every behaviour all variables have their types; in particular the step
\* counter of run_busy_loop stays within the all-reduce period.
THEOREM TypeCorrect == Spec => []TypeOK
<1>1. Inv => TypeOK
  BY DEF Inv
<1>. QED BY <1>1, InvariantHolds, PTL

\* In every behaviour all engines are in the same wave, count the same passes
\* and are in the all-reduce of _has_global_unfinished_reqs only together.
THEOREM Lockstep == Spec => []InLockstep
<1>1. Inv => InLockstep
  BY DEF Inv
<1>. QED BY <1>1, InvariantHolds, PTL

\* In every behaviour no message carries, and neither client nor coordinator
\* knows of, a wave that the engines have not reached.
THEOREM NeverAhead == Spec => []NothingAhead
<1>1. Inv => NothingAhead
  BY DEF Inv
<1>. QED BY <1>1, InvariantHolds, PTL

-----------------------------------------------------------------------------
(* What coordinator and clients know *)

\* A client knows the coordinator's state, will read it, or believes in a wave that
\* its notice is about to start.
ClientsInformed ==
    \A c \in Client :
        \/ news[c] # << >> /\ news[c][Len(news[c])] = coord
        \/ news[c] = << >> /\ client[c] = coord
        \/ /\ news[c] = << >> /\ notice[c] # << >>
           /\ client[c] = [wave |-> coord.wave, running |-> TRUE]

\* The end of a wave the coordinator has not heard of is on its way.
EndReported ==
    coord.wave < Wave =>
        \E i \in 1..Len(report[Rank0]) : /\ report[Rank0][i].type = "complete"
                                        /\ report[Rank0][i].wave + 1 = Wave

WillStart(e) ==
    \E i \in 1..Len(start[e]) : start[e][i].wave = Wave /\ start[e][i].exclude # e

\* A wave the coordinator has started is run by some engine, or will be.
StartHeeded ==
    coord.running /\ coord.wave = Wave =>
        \E e \in Engine : engine[e].running \/ WillStart(e)

Knows == ClientsInformed /\ EndReported /\ StartHeeded

\* The last of several messages when some have been read.
LEMMA LastOfRest ==
    ASSUME NEW S, NEW s \in Seq(S), NEW k \in 0..Len(s)
    PROVE  LET rest == SubSeq(s, k + 1, Len(s))
           IN  /\ k = Len(s) => rest = << >>
               /\ k < Len(s) => rest # << >> /\ rest[Len(rest)] = s[Len(s)]
<1> DEFINE rest == SubSeq(s, k + 1, Len(s))
<1>1. rest \in Seq(S) /\ Len(rest) = Len(s) - k
  OBVIOUS
<1>2. \A i \in 1..(Len(s) - k) : rest[i] = s[k + i]
  OBVIOUS
<1>3. Len(s) \in Nat
  OBVIOUS
<1>. HIDE DEF rest
<1>4. k = Len(s) => rest = << >>
  BY ONLY <1>1, <1>3
<1>5. ASSUME k < Len(s) PROVE rest # << >> /\ rest[Len(rest)] = s[Len(s)]
  <2>1. Len(s) - k \in 1..(Len(s) - k) /\ k + (Len(s) - k) = Len(s)
    BY ONLY <1>3, <1>5
  <2>. QED BY ONLY <1>1, <1>2, <2>1
<1>. QED BY Zenon, <1>4, <1>5 DEF rest

\* The oldest message of a queue.
LEMMA FirstMessage ==
    ASSUME NEW S, NEW s \in Seq(S), s # << >>
    PROVE  Head(s) = s[1] /\ Head(s) \in S
OBVIOUS

\* What a client believes once it has forwarded a first request.
LEMMA BelievesRunning ==
    ASSUME NEW x \in State
    PROVE  [x EXCEPT !.running = TRUE] = [wave |-> x.wave, running |-> TRUE]
<1> DEFINE y == [x EXCEPT !.running = TRUE]
<1>1. y \in State /\ y.wave = x.wave /\ y.running = TRUE
  BY Zenon DEF State
<1>. HIDE DEF y
<1>2. y = [wave |-> y.wave, running |-> y.running]
  BY ONLY <1>1 DEF State
<1>. QED BY Zenon, <1>1, <1>2 DEF y

\* A client forwards its first request, or reads news.
LEMMA ServeSocketsKnows ==
    ASSUME Inv, Knows, NEW c \in Client, ServeSockets(c)
    PROVE  Knows'
<1>1. UNCHANGED <<engine, coord, start, report>>
  BY Zenon DEF ServeSockets
<1>2. EndReported' /\ StartHeeded'
  BY Zenon, <1>1 DEF Knows, EndReported, StartHeeded, WillStart, Wave
<1>3. /\ news \in [Client -> Seq(State)] /\ notice \in [Client -> Seq(Notice)]
      /\ client \in [Client -> State] /\ news[c] \in Seq(State) /\ Len(news[c]) \in Nat
      /\ client[c] \in State /\ coord \in State /\ notice[c] \in Seq(Notice)
  BY DEF Inv, TypeOK
<1>4. polled[c] \in SUBSET {"stats", "first"} /\ polled[c] # {}
  BY Zenon DEF Inv, TypeOK, ServeSockets
<1>5. PICK k \in (IF "stats" \in polled[c] THEN 1 ELSE 0)..Len(news[c]) :
        /\ client' = [client EXCEPT ![c] = IF k > 0 THEN news[c][k]
                                          ELSE [@ EXCEPT !.running = TRUE]]
        /\ news' = [news EXCEPT ![c] = SubSeq(@, k + 1, Len(@))]
  BY Zenon DEF ServeSockets
<1>6. k \in 0..Len(news[c]) /\ (k = 0 => "stats" \notin polled[c])
  BY ONLY <1>3, <1>5
<1> DEFINE rest == SubSeq(news[c], k + 1, Len(news[c]))
<1>7. /\ k = Len(news[c]) => rest = << >>
      /\ k < Len(news[c]) => rest # << >> /\ rest[Len(rest)] = news[c][Len(news[c])]
  BY Zenon, <1>3, <1>6, LastOfRest
<1>8. /\ news'[c] = rest
      /\ client'[c] = IF k > 0 THEN news[c][k] ELSE [client[c] EXCEPT !.running = TRUE]
      /\ \A d \in Client \ {c} : news'[d] = news[d] /\ client'[d] = client[d]
  BY Zenon, <1>3, <1>5
<1>. HIDE DEF rest
<1> DEFINE m == [engine |-> Head(first[c]), wave |-> client[c].wave]
<1>9. \/ UNCHANGED notice /\ k # 0
      \/ notice' = [notice EXCEPT ![c] = Append(@, m)]
  <2>1. k = 0 => "first" \in polled[c]
    BY ONLY <1>4, <1>6
  <2>. QED BY <1>6, <2>1, Zenon DEF ServeSockets
<1>. HIDE DEF m
<1>10. /\ \A d \in Client \ {c} : notice'[d] = notice[d]
       /\ k = 0 => notice'[c] # << >>
  BY ONLY <1>3, <1>9
<1>11. CASE k = 0
  <2>1. client'[c] = [wave |-> client[c].wave, running |-> TRUE]
    <3>1. ~ (k > 0)
      BY ONLY <1>11
    <3>2. client'[c] = [client[c] EXCEPT !.running = TRUE]
      BY Zenon, <1>8, <3>1
    <3>. QED BY Zenon, <1>3, <3>2, BelievesRunning
  <2>2. CASE news[c] = << >>
    <3>1. news'[c] = << >>
      BY Zenon, <1>7, <1>8, <1>11, <2>2
    <3>2. client[c].wave = coord.wave
      BY <2>2 DEF Knows, ClientsInformed
    <3>. QED BY Zenon, <1>1, <1>2, <1>8, <1>10, <1>11, <2>1, <3>1, <3>2 DEF Knows, ClientsInformed
  <2>3. CASE news[c] # << >>
    <3>1. k < Len(news[c])
      BY ONLY <1>3, <1>11, <2>3
    <3>2. news'[c] # << >> /\ news'[c][Len(news'[c])] = coord
      BY Zenon, <1>7, <1>8, <2>3, <3>1 DEF Knows, ClientsInformed
    <3>. QED BY Zenon, <1>1, <1>2, <1>8, <1>10, <3>2 DEF Knows, ClientsInformed
  <2>. QED BY Zenon, <2>2, <2>3
<1>12. CASE k # 0
  <2>1. news[c] # << >> /\ news[c][Len(news[c])] = coord
    <3>1. news[c] # << >>
      BY ONLY <1>3, <1>6, <1>12
    <3>. QED BY Zenon, <3>1 DEF Knows, ClientsInformed
  <2>2. CASE k = Len(news[c])
    <3>1. news'[c] = << >> /\ client'[c] = coord
      BY ONLY <1>3, <1>6, <1>7, <1>8, <1>12, <2>1, <2>2
    <3>. QED BY Zenon, <1>1, <1>2, <1>8, <1>10, <3>1 DEF Knows, ClientsInformed
  <2>3. CASE k # Len(news[c])
    <3>1. k < Len(news[c])
      BY ONLY <1>3, <1>6, <2>3
    <3>2. news'[c] # << >> /\ news'[c][Len(news'[c])] = coord
      BY Zenon, <1>7, <1>8, <2>1, <3>1
    <3>. QED BY Zenon, <1>1, <1>2, <1>8, <1>10, <3>2 DEF Knows, ClientsInformed
  <2>. QED BY Zenon, <2>2, <2>3
<1>. QED BY Zenon, <1>11, <1>12

\* What is published comes last.
LEMMA PublishedLast ==
    ASSUME Inv, news' = [c \in Client |-> Append(news[c], coord')]
    PROVE  ClientsInformed'
<1>. SUFFICES ASSUME NEW c \in Client
              PROVE  news'[c] # << >> /\ news'[c][Len(news'[c])] = coord'
  BY Zenon DEF ClientsInformed
<1>1. news[c] \in Seq(State)
  BY Zenon DEF Inv, TypeOK
<1>2. news'[c] = Append(news[c], coord')
  BY Zenon
<1>. QED BY ONLY <1>1, <1>2

\* Some engine is told of a wave: all but the excluded one are, and there are two.
LEMMA AnnounceKnows ==
    ASSUME Inv, NEW wave \in Nat, NEW x \in Engine \union {NoEngine},
           Announce(wave, x), UNCHANGED engine
    PROVE  ClientsInformed' /\ StartHeeded'
<1>1. ClientsInformed'
  BY Zenon, PublishedLast DEF Announce
<1>2. ASSUME coord'.wave = Wave' PROVE \E e \in Engine : WillStart(e)'
  <2>1. PICK e \in Engine : e # x
    BY Zenon, CoordinatorAssumption
  <2> DEFINE m == [wave |-> wave, exclude |-> x]
  <2>2. start'[e] = Append(start[e], m) /\ start[e] \in Seq(Start)
    BY Zenon DEF Announce, Inv, TypeOK
  <2>3. coord' = [wave |-> wave, running |-> TRUE]
    BY Zenon DEF Announce
  <2>4. m.wave = Wave' /\ m.exclude # e
    BY Zenon, <1>2, <2>1, <2>3
  <2>. HIDE DEF m
  <2>5. /\ Len(start[e]) + 1 \in 1..Len(Append(start[e], m))
        /\ Append(start[e], m)[Len(start[e]) + 1] = m
    BY ONLY <2>2
  <2>. QED BY Zenon, <2>2, <2>4, <2>5 DEF WillStart
<1>. QED BY Zenon, <1>1, <1>2 DEF StartHeeded

\* The coordinator hears of a client's first request: now it runs, or did before.
LEMMA HandleNoticeKnows ==
    ASSUME Inv, Knows, NEW c \in Client, HandleNotice(c)
    PROVE  Knows'
<1> DEFINE m == Head(notice[c])
<1>1. UNCHANGED <<engine, client, report>>
  BY Zenon DEF HandleNotice, clients
<1>2. /\ coord \in State /\ \A d \in Client : client[d] \in State
      /\ notice[c] \in Seq(Notice) /\ notice[c] # << >>
  BY Zenon DEF Inv, TypeOK, HandleNotice
<1>3. CASE coord.running
  <2>1. UNCHANGED <<coord, start, news>>
    BY Zenon, <1>3 DEF HandleNotice
  <2>2. \A d \in Client \ {c} : notice'[d] = notice[d]
    BY Zenon DEF HandleNotice, Inv, TypeOK
  <2>3. coord = [wave |-> coord.wave, running |-> TRUE]
    BY Zenon, <1>2, <1>3 DEF State
  <2>4. ClientsInformed'
    BY Zenon, <1>1, <2>1, <2>2, <2>3 DEF Knows, ClientsInformed
  <2>. QED BY Zenon, <1>1, <2>1, <2>4 DEF Knows, EndReported, StartHeeded, WillStart, Wave
<1>4. CASE ~ coord.running
  <2>1. Announce(coord.wave, Exclude(m))
    BY Zenon, <1>4 DEF HandleNotice
  <2>2. m \in Notice
    BY ONLY <1>2
  <2>3. Exclude(m) \in Engine \union {NoEngine} /\ coord.wave \in Nat
    BY Zenon, <1>2, <2>2 DEF Exclude, Notice, State
  <2>. HIDE DEF m
  <2>4. ClientsInformed' /\ StartHeeded'
    BY Zenon, <1>1, <2>1, <2>3, AnnounceKnows
  <2>5. coord'.wave = coord.wave
    BY Zenon, <2>1 DEF Announce
  <2>6. EndReported'
    BY Zenon, <1>1, <2>5 DEF Knows, EndReported, Wave
  <2>. QED BY Zenon, <2>4, <2>6 DEF Knows
<1>. QED BY Zenon, <1>3, <1>4

\* The coordinator hears that a wave is over or has begun.  It passes over the end
\* of a wave only when it knows of a later one.
LEMMA HandleReportKnows ==
    ASSUME Inv, Knows, NEW e \in Engine, HandleReport(e)
    PROVE  Knows'
<1> DEFINE m == Head(report[e])
<1>1. UNCHANGED <<engine, client, notice>>
  BY Zenon DEF HandleReport, clients
<1>2. /\ coord \in State /\ report[e] \in Seq(Report) /\ report[e] # << >>
      /\ report \in [Engine -> Seq(Report)] /\ coord.wave \in Nat
      /\ m = report[e][1] /\ m \in Report /\ m.wave \in Nat /\ Wave \in Nat
  <2>1. /\ coord \in State /\ report[e] \in Seq(Report) /\ report[e] # << >>
        /\ report \in [Engine -> Seq(Report)]
    BY Zenon DEF Inv, TypeOK, HandleReport
  <2>2. m = report[e][1] /\ m \in Report
    BY Zenon, <2>1, FirstMessage
  <2>3. coord.wave \in Nat /\ m.wave \in Nat
    BY Zenon, <2>1, <2>2 DEF State, Report
  <2>. QED BY Zenon, <2>1, <2>2, <2>3, InputFacts
<1>3. \/ UNCHANGED <<coord, start, news>> /\ (m.type = "complete" => m.wave < coord.wave)
      \/ /\ m.type = "complete" /\ coord' = AfterComplete(m) /\ coord.wave <= m.wave
         /\ news' = [d \in Client |-> Append(news[d], coord')] /\ UNCHANGED start
      \/ Announce(m.wave, e) /\ StartsWave(m) /\ m.type = "start"
  <2>1. CASE m.type = "complete" /\ coord.wave <= m.wave
    BY Zenon, <2>1 DEF HandleReport
  <2>2. CASE ~ (m.type = "complete" /\ coord.wave <= m.wave) /\ m.type = "start" /\ StartsWave(m)
    BY Zenon, <2>2 DEF HandleReport
  <2>3. CASE ~ (m.type = "complete" /\ coord.wave <= m.wave) /\ ~ (m.type = "start" /\ StartsWave(m))
    <3>1. m.type = "complete" => m.wave < coord.wave
      BY ONLY <1>2, <2>3
    <3>. QED BY Zenon, <2>3, <3>1 DEF HandleReport
  <2>. QED BY Zenon, <2>1, <2>2, <2>3
<1>4. /\ coord'.wave \in Nat /\ coord.wave <= coord'.wave
      /\ m.type = "complete" => m.wave < coord'.wave
  BY ONLY <1>2, <1>3 DEF AfterComplete, Announce, StartsWave
<1>5. \A f \in Engine \ {e} : report'[f] = report[f]
  BY Zenon, <1>2 DEF HandleReport
<1>6. /\ report'[e] = Tail(report[e])
      /\ \A i \in 2..Len(report[e]) : /\ i - 1 \in 1..Len(Tail(report[e]))
                                     /\ Tail(report[e])[i - 1] = report[e][i]
  BY <1>2 DEF HandleReport
<1>7. EndReported'
  <2>. SUFFICES ASSUME coord'.wave < Wave
                PROVE  \E i \in 1..Len(report'[Rank0]) :
                         /\ report'[Rank0][i].type = "complete"
                         /\ report'[Rank0][i].wave + 1 = Wave
    BY Zenon, <1>1 DEF EndReported, Wave
  <2>1. PICK i \in 1..Len(report[Rank0]) : /\ report[Rank0][i].type = "complete"
                                           /\ report[Rank0][i].wave + 1 = Wave
    BY <1>2, <1>4 DEF Knows, EndReported
  <2>2. CASE Rank0 # e
    BY Zenon, <1>5, <2>1, <2>2, CoordinatorAssumption
  <2>3. CASE Rank0 = e
    <3>1. i # 1
      BY <1>2, <1>4, <2>1, <2>3
    <3>2. i \in 2..Len(report[e])
      BY ONLY <1>2, <2>1, <2>3, <3>1
    <3>. QED BY Zenon, <1>6, <2>1, <2>3, <3>2
  <2>. QED BY Zenon, <2>2, <2>3
<1>8. ClientsInformed' /\ StartHeeded'
  <2>1. CASE UNCHANGED <<coord, start, news>>
    BY Zenon, <1>1, <2>1 DEF Knows, ClientsInformed, StartHeeded, WillStart, Wave
  <2>2. CASE /\ coord' = AfterComplete(m)
             /\ news' = [d \in Client |-> Append(news[d], coord')]
    <3>1. coord'.running = FALSE
      BY Zenon, <2>2 DEF AfterComplete
    <3>. QED BY Zenon, <2>2, <3>1, PublishedLast DEF StartHeeded
  <2>3. CASE Announce(m.wave, e)
    <3>. HIDE DEF m
    <3>. QED BY Zenon, <1>1, <1>2, <2>3, AnnounceKnows
  <2>. QED BY Zenon, <1>3, <2>1, <2>2, <2>3
<1>. QED BY Zenon, <1>7, <1>8 DEF Knows

\* Engines that run go on, and reports stay in their queues.
LEMMA RunningStays ==
    ASSUME Inv, Knows, Wave' = Wave,
           UNCHANGED <<coord, client, notice, news, start>>,
           \A e \in Engine : engine[e].running => engine'[e].running,
           \A i \in 1..Len(report[Rank0]) : /\ i \in 1..Len(report'[Rank0])
                                           /\ report'[Rank0][i] = report[Rank0][i]
    PROVE  Knows'
<1>1. ClientsInformed'
  BY Zenon DEF Knows, ClientsInformed
<1>2. EndReported'
  BY Zenon DEF Knows, EndReported
<1>3. StartHeeded'
  BY Zenon DEF Knows, StartHeeded, WillStart
<1>. QED BY Zenon, <1>1, <1>2, <1>3 DEF Knows

\* An engine receives START_DP_WAVE.  If it was to be woken by it, it runs.
LEMMA ReceiveStartKnows ==
    ASSUME Inv, Knows, NEW e \in Engine, ReceiveStart(e)
    PROVE  Knows'
<1> DEFINE m == Head(start[e])
<1>1. UNCHANGED <<coord, client, notice, news, report>>
  BY Zenon DEF ReceiveStart, clients
<1>2. /\ start \in [Engine -> Seq(Start)] /\ start[e] \in Seq(Start) /\ start[e] # << >>
      /\ m = start[e][1] /\ m \in Start /\ m.wave \in Nat /\ m.wave <= Wave
  <2>1. start \in [Engine -> Seq(Start)] /\ start[e] \in Seq(Start) /\ start[e] # << >>
    BY Zenon DEF Inv, TypeOK, ReceiveStart
  <2>2. m = start[e][1] /\ m \in Start
    BY Zenon, <2>1, FirstMessage
  <2>3. m.wave \in Nat
    BY Zenon, <2>2 DEF Start
  <2>4. m.wave <= Wave
    BY Zenon, <2>1, CoordinatorFacts, TailBehind
  <2>. QED BY Zenon, <2>1, <2>2, <2>3, <2>4
<1>3. \A f \in Engine : engine[f] \in EngineState /\ engine[f].wave = Wave
  BY Zenon, EngineFacts
<1>4. /\ \A f \in Engine : engine[f].running => engine'[f].running
      /\ \A f \in Engine : engine'[f].wave = engine[f].wave
      /\ m.wave = Wave /\ m.exclude # e => engine'[e].running
  <2>1. engine \in [Engine -> EngineState]
    BY Zenon DEF Inv, TypeOK
  <2>2. CASE Heeds(e, m)
    <3>1. engine' = [engine EXCEPT ![e] = [@ EXCEPT !.wave = m.wave, !.running = TRUE]]
      BY Zenon, <1>3, <2>1, <2>2 DEF ReceiveStart, EngineState
    <3>2. m.wave = engine[e].wave
      BY <1>2, <1>3, <2>2, InputFacts DEF Heeds
    <3>. HIDE DEF m
    <3>. QED BY Zenon, <1>3, <2>1, <3>1, <3>2 DEF EngineState
  <2>3. CASE ~ Heeds(e, m)
    BY Zenon, <1>2, <1>3, <2>3, InputFacts DEF ReceiveStart, Heeds
  <2>. QED BY Zenon, <2>2, <2>3
<1>5. Wave' = Wave
  BY Zenon, <1>4, CoordinatorAssumption DEF Wave
<1>6. \A f \in Engine \ {e} : start'[f] = start[f]
  BY Zenon, <1>2 DEF ReceiveStart
<1>7. /\ start'[e] = Tail(start[e])
      /\ \A i \in 2..Len(start[e]) : /\ i - 1 \in 1..Len(Tail(start[e]))
                                    /\ Tail(start[e])[i - 1] = start[e][i]
  BY <1>2 DEF ReceiveStart
<1>8. ASSUME NEW f \in Engine, WillStart(f) PROVE engine'[f].running \/ WillStart(f)'
  <2>1. PICK i \in 1..Len(start[f]) : start[f][i].wave = Wave /\ start[f][i].exclude # f
    BY Zenon, <1>8 DEF WillStart
  <2>2. CASE f # e
    BY Zenon, <1>5, <1>6, <2>1, <2>2 DEF WillStart
  <2>3. CASE f = e /\ i = 1
    BY Zenon, <1>2, <1>4, <2>1, <2>3
  <2>4. CASE f = e /\ i # 1
    <3>1. i \in 2..Len(start[e])
      BY ONLY <1>2, <2>1, <2>4
    <3>. QED BY ZenonT(30), <1>5, <1>7, <2>1, <2>4, <3>1 DEF WillStart
  <2>. QED BY Zenon, <2>2, <2>3, <2>4
<1>9. StartHeeded'
  BY Zenon, <1>1, <1>4, <1>5, <1>8 DEF Knows, StartHeeded
<1>10. ClientsInformed' /\ EndReported'
  BY Zenon, <1>1, <1>5 DEF Knows, ClientsInformed, EndReported
<1>. QED BY Zenon, <1>9, <1>10 DEF Knows

\* An engine receives a request or an abort.
LEMMA ReceiveInputKnows ==
    ASSUME Inv, Knows, NEW c \in Client, NEW e \in Engine, ReceiveInput(c, e)
    PROVE  Knows'
<1> DEFINE m == Head(input[c][e])
           q == AfterAdd(engine[e], m.wave)
           n == [type |-> "start", wave |-> q.wave]
<1>1. UNCHANGED <<coord, client, notice, news, start>>
  BY Zenon DEF ReceiveInput, clients
<1>2. m \in Input /\ m.wave <= Wave /\ m.wave \in Nat
  <2>1. input[c][e] \in Seq(Input) /\ input[c][e] # << >> /\ Behind(input[c][e], Wave)
    BY Zenon, InputFacts DEF ReceiveInput
  <2>2. m \in Input /\ m.wave <= Wave
    BY Zenon, <2>1, TailBehind
  <2>. QED BY Zenon, <2>2 DEF Input
<1>3. q.wave = Wave /\ (engine[e].running => q.running)
  <2>1. ~ (m.wave > engine[e].wave)
    BY <1>2, EngineFacts
  <2>. QED BY Zenon, <2>1, EngineFacts DEF AfterAdd, EngineState
<1>4. engine' = engine \/ engine' = [engine EXCEPT ![e] = q]
  BY Zenon DEF ReceiveInput
<1>5. report' = report \/ report' = [report EXCEPT ![e] = Append(@, n)]
  BY Zenon DEF ReceiveInput
<1>11. n \in Report
  BY Zenon, <1>3, EngineFacts DEF Report
<1>. HIDE DEF q, n
<1>6. /\ \A f \in Engine : engine[f].running => engine'[f].running
      /\ \A f \in Engine : engine'[f].wave = engine[f].wave
  BY Zenon, <1>3, <1>4, EngineFacts DEF Inv, TypeOK
<1>7. Wave' = Wave
  BY Zenon, <1>6, CoordinatorAssumption DEF Wave
<1>8. report \in [Engine -> Seq(Report)] /\ report[Rank0] \in Seq(Report)
  BY Zenon, CoordinatorAssumption DEF Inv, TypeOK
<1>9. report'[Rank0] = report[Rank0] \/ report'[Rank0] = Append(report[Rank0], n)
  BY Zenon, <1>5, <1>8, CoordinatorAssumption
<1>10. \A i \in 1..Len(report[Rank0]) : /\ i \in 1..Len(report'[Rank0])
                                       /\ report'[Rank0][i] = report[Rank0][i]
  <2>1. \A i \in 1..Len(report[Rank0]) : /\ i \in 1..Len(Append(report[Rank0], n))
                                         /\ Append(report[Rank0], n)[i] = report[Rank0][i]
    BY ONLY <1>8, <1>11
  <2>. QED BY Zenon, <1>9, <2>1
<1>. QED BY Zenon, <1>1, <1>6, <1>7, <1>10, RunningStays

\* All engines leave a pass, or the all-reduce.
LEMMA CollectiveKnows ==
    ASSUME Inv, Knows, Collective
    PROVE  Knows'
<1>1. UNCHANGED <<coord, client, notice, news, start>>
  BY Zenon DEF Collective, Forward, AllReduce, clients, channels
<1>2. /\ \A e \in Engine : engine[e] \in EngineState /\ engine[e].wave = Wave
      /\ Wave \in Nat /\ Rank0 \in Engine
  BY Zenon, EngineFacts, CoordinatorAssumption
<1>3. CASE Forward
  <2>1. /\ \A e \in Engine : engine[e].running => engine'[e].running
        /\ \A e \in Engine : engine'[e].wave = engine[e].wave
    BY Zenon, <1>3 DEF Forward
  <2>2. Wave' = Wave
    BY Zenon, <1>2, <2>1 DEF Wave
  <2>3. UNCHANGED report
    BY Zenon, <1>3 DEF Forward, channels
  <2>. QED BY Zenon, <1>1, <2>1, <2>2, <2>3, RunningStays
<1>4. CASE AllReduce /\ Unfinished
  <2>1. \A e \in Engine : engine'[e].running /\ engine'[e].wave = engine[e].wave
    BY ONLY <1>2, <1>4 DEF AllReduce
  <2>2. Wave' = Wave
    BY Zenon, <1>2, <2>1 DEF Wave
  <2>3. UNCHANGED report
    BY Zenon, <1>4 DEF AllReduce
  <2>. QED BY Zenon, <1>1, <2>1, <2>2, <2>3, RunningStays
<1>5. CASE AllReduce /\ ~ Unfinished
  <2>1. Wave' = Wave + 1
    BY Zenon, <1>2, <1>5 DEF AllReduce, Wave
  <2>2. coord.wave <= Wave /\ coord.wave \in Nat
    BY Zenon, CoordinatorFacts DEF State
  <2>3. StartHeeded'
    BY ONLY <1>1, <1>2, <2>1, <2>2 DEF StartHeeded
  <2> DEFINE m == [type |-> "complete", wave |-> Wave]
  <2>4. report'[Rank0] = Append(report[Rank0], m) /\ report[Rank0] \in Seq(Report)
    BY Zenon, <1>2, <1>5 DEF AllReduce, Inv, TypeOK, Wave
  <2>5. m.type = "complete" /\ m.wave + 1 = Wave'
    BY Zenon, <2>1
  <2>. HIDE DEF m
  <2>6. /\ Len(report[Rank0]) + 1 \in 1..Len(Append(report[Rank0], m))
        /\ Append(report[Rank0], m)[Len(report[Rank0]) + 1] = m
    BY ONLY <2>4
  <2>7. EndReported'
    BY Zenon, <2>4, <2>5, <2>6 DEF EndReported
  <2>. QED BY Zenon, <1>1, <2>3, <2>7 DEF Knows, ClientsInformed
<1>. QED BY Zenon, <1>3, <1>4, <1>5 DEF Collective

\* Every step keeps what coordinator and clients know.
LEMMA NextKnows == Inv /\ Knows /\ [Next]_vars => Knows'
<1>. SUFFICES ASSUME Inv, Knows, [Next]_vars PROVE Knows'
  BY Zenon
<1>1. ASSUME NEW c \in Client, NEW r \in Req, NEW e \in Engine, AddRequest(c, r, e)
      PROVE  Knows'
  BY Zenon, <1>1, RunningStays DEF AddRequest, Wave
<1>2. ASSUME NEW c \in Client, NEW r \in Req, AbortRequest(c, r)
      PROVE  Knows'
  BY Zenon, <1>2, RunningStays DEF AbortRequest, clients, Wave
<1>3. ASSUME NEW c \in Client, ClientTask(c)
      PROVE  Knows'
  <2>1. CASE Poll(c)
    BY Zenon, <2>1, RunningStays DEF Poll, channels, Wave
  <2>. QED BY Zenon, <1>3, <2>1, ServeSocketsKnows DEF ClientTask
<1>4. ASSUME NEW e \in Engine, Receive(e)
      PROVE  Knows'
  BY Zenon, <1>4, ReceiveStartKnows, ReceiveInputKnows DEF Receive
<1>5. ASSUME NEW e \in Engine, BeginPass(e)
      PROVE  Knows'
  <2>1. \A f \in Engine : /\ engine'[f].running = engine[f].running
                         /\ engine'[f].wave = engine[f].wave
    BY Zenon, <1>5 DEF BeginPass, Inv, TypeOK, EngineState
  <2>2. Wave' = Wave
    BY Zenon, <2>1, CoordinatorAssumption DEF Wave
  <2>3. UNCHANGED <<coord, client, notice, news, start, report>>
    BY Zenon, <1>5 DEF BeginPass, clients, channels
  <2>. QED BY Zenon, <2>1, <2>2, <2>3, RunningStays
<1>6. CASE Coordinator
  BY Zenon, <1>6, HandleNoticeKnows, HandleReportKnows DEF Coordinator
<1>7. CASE Publish
  <2>1. UNCHANGED <<engine, coord, start, report>> /\ ClientsInformed'
    BY Zenon, <1>7, PublishedLast DEF Publish
  <2>. QED BY Zenon, <2>1 DEF Knows, EndReported, StartHeeded, WillStart, Wave
<1>8. CASE Collective
  BY Zenon, <1>8, CollectiveKnows
<1>9. CASE UNCHANGED vars
  BY Zenon, <1>9, RunningStays DEF vars, clients, channels, Wave
<1>. QED BY Zenon, <1>1, <1>2, <1>3, <1>4, <1>5, <1>6, <1>7, <1>8, <1>9 DEF Next

\* When the messages are delivered and the engines pause, coordinator and clients
\* know of it: the coordinator has heard of the end of the wave, or it would be
\* on its way, and a wave it started would still be run.
LEMMA KnownWhenQuiet == Inv /\ Knows => KnownToBePaused
<1>. SUFFICES ASSUME Inv, Knows, Quiet, NEW e \in Engine, NEW c \in Client
              PROVE  /\ coord = [wave |-> engine[e].wave, running |-> FALSE]
                     /\ client[c] = coord
  BY Zenon DEF KnownToBePaused
<1>1. client[c] = coord
  BY Zenon DEF Knows, ClientsInformed, Quiet
<1>2. coord.wave = Wave
  <2>1. ~ (coord.wave < Wave)
    BY CoordinatorAssumption DEF Knows, EndReported, Quiet
  <2>. QED BY <2>1, CoordinatorFacts, InputFacts DEF State
<1>3. ~ coord.running
  BY <1>2 DEF Knows, StartHeeded, WillStart, Quiet, HasWork
<1>. QED BY Zenon, <1>1, <1>2, <1>3, EngineFacts, CoordinatorFacts DEF State

\* In every behaviour, when nothing is under way and the engines are paused,
\* coordinator and clients know it, so the next request wakes them; aborts and
\* clients that answer late included.
THEOREM PauseIsKnown == Spec => []KnownToBePaused
<1>1. Init => Knows
  BY ONLY CoordinatorAssumption
     DEF Init, Knows, ClientsInformed, EndReported, StartHeeded, Paused, Wave
<1>. QED BY <1>1, InitInv, NextInv, NextKnows, KnownWhenQuiet, PTL DEF Spec

=============================================================================
