---------------------------- MODULE HostIoProofs ----------------------------
(***************************************************************************)
(* Proofs about HostIo, for any processes, files, requests and addresses.  *)
(***************************************************************************)
EXTENDS HostIo, SequenceTheorems, FiniteSetTheorems, TLAPS

\* The request at the head of the queue is a request, and the rest of the queue is a queue.
LEMMA TakesType == TypeOK /\ Takes => NextRequest \in Requests /\ requestQueue' \in Seq(Requests)
<1> SUFFICES ASSUME TypeOK, Takes PROVE NextRequest \in Requests /\ requestQueue' \in Seq(Requests)
  OBVIOUS
<1>1. requestQueue \in Seq(Requests) /\ requestQueue # <<>>
  BY DEF TypeOK, Takes
<1> QED BY <1>1, HeadTailProperties DEF Takes, NextRequest

\* A wake-up changes pc only, to a place that there is.
LEMMA WakeupType == \A r : TypeOK /\ Wakeup(r) => pc' \in [Procs -> {"running", "asleep", "woken"}]
BY DEF TypeOK, Wakeup

-----------------------------------------------------------------------------
\* What TypeOK rests on: what the host has done at an address was done for a request.
IInv == TypeOK /\ AddressesKept

LEMMA InitIInv == Init => IInv
<1> SUFFICES ASSUME Init PROVE IInv OBVIOUS
<1>1. PICK f \in Files : fileOf = [r \in Requests |-> f]
  BY DEF Init
<1>2. requestQueue \in Seq(Requests)
  BY EmptySeq DEF Init
<1>3. nextRequestId \in 1 .. MaxRequests + 1
  BY HostIoAssumption DEF Init
<1>4. TypeOK BY <1>1, <1>2, <1>3 DEF Init, TypeOK
<1>5. AddressesKept BY DEF Init, AddressesKept
<1> QED BY <1>4, <1>5 DEF IInv

LEMMA SubmitIInv == \A p \in Procs, f \in Files : IInv /\ Submit(p, f) => IInv'
<1> SUFFICES ASSUME NEW p \in Procs, NEW f \in Files, IInv, Submit(p, f) PROVE IInv'
  OBVIOUS
<1>1. nextRequestId \in Requests /\ nextRequestId' \in 1 .. MaxRequests + 1
  BY HostIoAssumption DEF Submit, IInv, TypeOK, Requests
<1>2. requestQueue' \in Seq(Requests)
  BY <1>1, AppendProperties DEF Submit, IInv, TypeOK
<1>3. TypeOK' BY <1>1, <1>2 DEF Submit, IInv, TypeOK, fileVars, threadVars, hostVars
<1>4. AddressesKept' BY DEF Submit, IInv, AddressesKept, hostVars
<1> QED BY <1>3, <1>4 DEF IInv

LEMMA RefuseFileIInv == IInv /\ RefuseFile => IInv'
<1> SUFFICES ASSUME IInv, RefuseFile PROVE IInv' OBVIOUS
<1> USE DEF hostVars, threadVars
<1>1. NextRequest \in Requests /\ requestQueue' \in Seq(Requests)
  BY TakesType DEF RefuseFile, IInv
<1>2. pc' \in [Procs -> {"running", "asleep", "woken"}] /\ error' \subseteq Requests
  BY <1>1, WakeupType DEF RefuseFile, Refused, IInv, TypeOK
<1>3. opened' \in [Files -> BOOLEAN] /\ handle' \in [Files -> {"none", "ofPort", "elsewhere"}]
  <2>1. CASE UNCHANGED <<opened, handle>>
    BY <2>1 DEF IInv, TypeOK
  <2>2. ASSUME NEW how \in {"fails", "unassociated"}, Opens(fileOf[NextRequest], how)
        PROVE opened' \in [Files -> BOOLEAN] /\ handle' \in [Files -> {"none", "ofPort", "elsewhere"}]
    BY <2>2 DEF Opens, IInv, TypeOK
  <2> QED BY <2>1, <2>2 DEF RefuseFile
<1>4. TypeOK' BY <1>1, <1>2, <1>3 DEF RefuseFile, IInv, TypeOK
<1>5. AddressesKept' BY DEF RefuseFile, IInv, AddressesKept
<1> QED BY <1>4, <1>5 DEF IInv

\* The address that a request gets is not in use, so nothing is left there of another.
LEMMA IssueIInv == \A accepted \in BOOLEAN : IInv /\ Issue(accepted) => IInv'
<1> SUFFICES ASSUME NEW accepted \in BOOLEAN, IInv, Issue(accepted) PROVE IInv' OBVIOUS
<1> USE DEF threadVars
<1>1. NextRequest \in Requests /\ requestQueue' \in Seq(Requests)
  BY TakesType DEF Issue, IInv
<1>2. pc' \in [Procs -> {"running", "asleep", "woken"}] /\ error' \subseteq Requests
  <2>1. CASE accepted BY <2>1 DEF Issue, IInv, TypeOK
  <2>2. CASE ~accepted
    <3>1. error' = error \cup {NextRequest} /\ Wakeup(NextRequest) BY <2>2 DEF Issue, Refused
    <3>2. pc' \in [Procs -> {"running", "asleep", "woken"}] BY <3>1, WakeupType DEF IInv
    <3> QED BY <1>1, <3>1, <3>2 DEF IInv, TypeOK
  <2> QED BY <2>1, <2>2
<1>3. opened' \in [Files -> BOOLEAN] /\ handle' \in [Files -> {"none", "ofPort", "elsewhere"}]
  BY DEF Issue, Opens, IInv, TypeOK
<1>4. PICK a \in Addresses :
          /\ overlappedMap[a] = NoRequest
          /\ overlappedMap' = [overlappedMap EXCEPT ![a] = NextRequest]
          /\ atHost' = IF accepted THEN atHost \cup {a} ELSE atHost
  BY DEF Issue
<1>5. overlappedMap' \in [Addresses -> Requests \cup {NoRequest}] /\ atHost' \subseteq Addresses
  BY <1>1, <1>4 DEF IInv, TypeOK
<1>6. TypeOK' BY <1>1, <1>2, <1>3, <1>5 DEF Issue, IInv, TypeOK
<1>7. a \notin atHost /\ \A success \in BOOLEAN : <<a, success>> \notin packets
  BY <1>4, HostIoAssumption DEF IInv, AddressesKept
<1>8. overlappedMap \in [Addresses -> Requests \cup {NoRequest}] /\ packets' = packets
  BY DEF Issue, IInv, TypeOK
<1>9. AddressesKept' BY <1>1, <1>4, <1>7, <1>8 DEF IInv, AddressesKept
<1> QED BY <1>6, <1>9 DEF IInv

LEMMA HostCompletesIInv ==
    \A a \in Addresses, success \in BOOLEAN : IInv /\ HostCompletes(a, success) => IInv'
<1> SUFFICES ASSUME NEW a \in Addresses, NEW success \in BOOLEAN, IInv, HostCompletes(a, success)
             PROVE IInv'
  OBVIOUS
<1> USE DEF processVars, requestVars, fileVars, threadVars
<1>1. overlappedMap[a] \in Requests /\ \A s \in BOOLEAN : <<a, s>> \notin packets
  BY DEF HostCompletes, IInv, AddressesKept
<1>2. TypeOK' BY <1>1 DEF HostCompletes, IInv, TypeOK
<1>3. /\ atHost' = atHost \ {a} /\ overlappedMap' = overlappedMap
      /\ packets' = packets \cup {<<a, success>>} \/ packets' = packets
  BY DEF HostCompletes
<1>4. ASSUME NEW b \in Addresses PROVE AddressesKept!(b)'
  <2>1. CASE b = a BY <1>1, <1>3, <2>1
  <2>2. CASE b # a BY <1>3, <2>2 DEF IInv, AddressesKept
  <2> QED BY <2>1, <2>2
<1>5. AddressesKept' BY <1>4 DEF AddressesKept
<1> QED BY <1>2, <1>5 DEF IInv

\* The packet that is taken was the only one for its address, and the host is done there.
LEMMA HandleCompletionIInv == \A a \in Addresses : IInv /\ HandleCompletion(a) => IInv'
<1> SUFFICES ASSUME NEW a \in Addresses, IInv, HandleCompletion(a) PROVE IInv' OBVIOUS
<1>1. pc' \in [Procs -> {"running", "asleep", "woken"}]
  BY WakeupType DEF HandleCompletion, IInv
<1>2. TypeOK' BY <1>1 DEF HandleCompletion, IInv, TypeOK, fileVars, threadVars
<1>3. a \notin atHost /\ <<a, FALSE>> \notin packets
  BY DEF HandleCompletion, IInv, AddressesKept
<1>4. AddressesKept' BY <1>3 DEF HandleCompletion, IInv, TypeOK, AddressesKept
<1> QED BY <1>2, <1>4 DEF IInv

LEMMA NextIInv == IInv /\ [Next]_vars => IInv'
<1> SUFFICES ASSUME IInv, [Next]_vars PROVE IInv' OBVIOUS
<1> USE DEF processVars, requestVars, fileVars, threadVars, hostVars
<1>1. ASSUME NEW p \in Procs, NEW f \in Files, Submit(p, f) PROVE IInv'
  BY <1>1, SubmitIInv
<1>2. ASSUME NEW p \in Procs, Return(p) PROVE IInv'
  <2>1. TypeOK' BY <1>2 DEF Return, Outcome, IInv, TypeOK
  <2>2. AddressesKept' BY <1>2 DEF Return, IInv, AddressesKept
  <2> QED BY <2>1, <2>2 DEF IInv
<1>3. ASSUME NEW f \in Files, CloseHostFile(f) PROVE IInv'
  BY <1>3 DEF CloseHostFile, IInv, TypeOK, AddressesKept
<1>4. CASE RefuseFile BY <1>4, RefuseFileIInv
<1>5. ASSUME NEW accepted \in BOOLEAN, Issue(accepted) PROVE IInv'
  BY <1>5, IssueIInv
<1>6. ASSUME NEW a \in Addresses, NEW success \in BOOLEAN, HostCompletes(a, success) PROVE IInv'
  BY <1>6, HostCompletesIInv
<1>7. ASSUME NEW a \in Addresses, HandleCompletion(a) PROVE IInv'
  BY <1>7, HandleCompletionIInv
<1>8. ASSUME NEW a \in Addresses, CompletionThreadEnds(a) PROVE IInv'
  BY <1>8 DEF CompletionThreadEnds, IInv, TypeOK, AddressesKept
<1>9. CASE CreatePort
  BY <1>9 DEF CreatePort, IInv, TypeOK, AddressesKept
<1>10. CASE RequestThreadEnds
  <2>1. requestQueue' \in Seq(Requests) BY <1>10, TakesType DEF RequestThreadEnds, IInv
  <2>2. TypeOK' BY <1>10, <2>1 DEF RequestThreadEnds, IInv, TypeOK
  <2>3. AddressesKept' BY <1>10 DEF RequestThreadEnds, IInv, AddressesKept
  <2> QED BY <2>2, <2>3 DEF IInv
<1>11. CASE UNCHANGED vars
  BY <1>11 DEF vars, IInv, TypeOK, AddressesKept
<1> QED BY <1>1, <1>2, <1>3, <1>4, <1>5, <1>6, <1>7, <1>8, <1>9, <1>10, <1>11
        DEF Next, HandleRequest

\* Every variable keeps its type: the queue, the map of addresses and the completions
\* hold requests only.
THEOREM TypeCorrect == Spec => []TypeOK
<1>1. IInv => TypeOK BY DEF IInv
<1> QED BY InitIInv, NextIInv, <1>1, PTL DEF Spec

\* Whatever the order in which the host completes, the address of a request under way is
\* not given to another, and a completion is that of the request that is there.
THEOREM OneAnswerPerAddress == Spec => []AddressesKept
<1>1. IInv => AddressesKept BY DEF IInv
<1> QED BY InitIInv, NextIInv, <1>1, PTL DEF Spec

-----------------------------------------------------------------------------
(* Where a request is, and what has become of it.                          *)

Queued == {requestQueue[n] : n \in DOMAIN requestQueue}
WorkedOn == {overlappedMap[a] : a \in atHost}
Completed == {overlappedMap[x[1]] : x \in packets}

Made == 1 .. nextRequestId - 1

\* A request is once in the queue, or at one address, or nowhere any more.
OncePlaced ==
    /\ \A n, m \in DOMAIN requestQueue : requestQueue[n] = requestQueue[m] => n = m
    /\ \A r \in Queued :
           /\ r \in Made
           /\ \A a \in Addresses : overlappedMap[a] # r
    /\ \A a \in Addresses :
           overlappedMap[a] # NoRequest =>
               /\ overlappedMap[a] \in Made
               /\ \A b \in Addresses : overlappedMap[b] = overlappedMap[a] => a = b

\* Nothing is decided about a request before the host has answered it or it is refused.
DecidedOnce ==
    /\ performed \cap error = {}
    /\ \A r \in performed \cup error : r \in Made /\ r \notin Queued
    /\ \A a \in atHost : overlappedMap[a] \notin performed \cup error
    /\ \A a \in Addresses : <<a, TRUE>> \in packets => overlappedMap[a] \in performed

\* A file has no handle before it is opened, and has one while the host works on it.
HandlesKept ==
    /\ \A f \in Files : ~opened[f] => handle[f] = "none"
    /\ \A a \in atHost : handle[fileOf[overlappedMap[a]]] # "none"

\* A process waits for its own request, until that is decided.
Waits(p) ==
    /\ pc[p] # "running" =>
           /\ waitsFor[p] \in Made /\ waitsFor[p] \in requestMap
           /\ \A q \in Procs : pc[q] # "running" /\ waitsFor[q] = waitsFor[p] => q = p
    /\ pc[p] = "woken" => waitsFor[p] \in performed \cup error
    /\ pc[p] = "asleep" =>
           /\ waitsFor[p] \notin error
           /\ waitsFor[p] \in Queued \cup WorkedOn \cup Completed \/ Unanswerable(waitsFor[p])

RequestInv == OncePlaced /\ DecidedOnce /\ HandlesKept /\ \A p \in Procs : Waits(p)

\* A request that joins the queue joins the set; one that leaves it was there once.
LEMMA AppendQueued ==
    \A r \in Requests : requestQueue \in Seq(Requests) /\ requestQueue' = Append(requestQueue, r)
        => /\ Queued' = Queued \cup {r}
           /\ Len(requestQueue') = Len(requestQueue) + 1
           /\ \A n \in DOMAIN requestQueue : requestQueue'[n] = requestQueue[n]
           /\ requestQueue'[Len(requestQueue')] = r
<1> SUFFICES ASSUME NEW r \in Requests, requestQueue \in Seq(Requests),
                    requestQueue' = Append(requestQueue, r)
             PROVE  /\ Queued' = Queued \cup {r}
                    /\ Len(requestQueue') = Len(requestQueue) + 1
                    /\ \A n \in DOMAIN requestQueue : requestQueue'[n] = requestQueue[n]
                    /\ requestQueue'[Len(requestQueue')] = r
  OBVIOUS
<1> DEFINE k == Len(requestQueue)
<1>1. /\ requestQueue' \in Seq(Requests)
      /\ Len(requestQueue') = k + 1
      /\ requestQueue'[k + 1] = r
      /\ \A n \in 1 .. k : requestQueue'[n] = requestQueue[n]
  BY AppendProperties
<1>2. k \in Nat /\ DOMAIN requestQueue = 1 .. k /\ DOMAIN requestQueue' = 1 .. k + 1
  BY <1>1
<1> HIDE DEF k
<1>3. 1 .. k + 1 = (1 .. k) \cup {k + 1} /\ k + 1 \notin 1 .. k BY <1>2
<1>4. Queued' = Queued \cup {r} BY <1>1, <1>2, <1>3 DEF Queued
<1> QED BY <1>1, <1>2, <1>4 DEF k

LEMMA TakesQueued ==
    TypeOK /\ OncePlaced /\ Takes
        => /\ NextRequest \in Queued
           /\ Queued' = Queued \ {NextRequest}
           /\ \A n, m \in DOMAIN requestQueue' : requestQueue'[n] = requestQueue'[m] => n = m
<1> SUFFICES ASSUME TypeOK, OncePlaced, Takes
             PROVE  /\ NextRequest \in Queued
                    /\ Queued' = Queued \ {NextRequest}
                    /\ \A n, m \in DOMAIN requestQueue' :
                           requestQueue'[n] = requestQueue'[m] => n = m
  OBVIOUS
<1> DEFINE k == Len(requestQueue)
<1>1. requestQueue \in Seq(Requests) /\ requestQueue # <<>> /\ requestQueue' = Tail(requestQueue)
  BY DEF TypeOK, Takes
<1>2. /\ requestQueue' \in Seq(Requests)
      /\ Len(requestQueue') = k - 1
      /\ \A n \in 1 .. k - 1 : requestQueue'[n] = requestQueue[n + 1]
      /\ NextRequest = requestQueue[1]
  BY <1>1, HeadTailProperties DEF NextRequest
<1>3. /\ k \in Nat /\ k # 0
      /\ DOMAIN requestQueue = 1 .. k /\ DOMAIN requestQueue' = 1 .. k - 1
  BY <1>1, <1>2, EmptySeq
<1> HIDE DEF k
<1>4. \A n \in 1 .. k : n = 1 \/ (n - 1 \in 1 .. k - 1 /\ (n - 1) + 1 = n) BY <1>3
<1>5. \A n \in 1 .. k - 1 : n + 1 \in 1 .. k /\ n + 1 # 1 BY <1>3
<1>6. 1 \in 1 .. k BY <1>3
<1>7. NextRequest \in Queued BY <1>2, <1>3, <1>6 DEF Queued
<1>8. ASSUME NEW n \in 1 .. k - 1 PROVE requestQueue'[n] \in Queued \ {NextRequest}
  <2>1. requestQueue'[n] = requestQueue[n + 1] /\ n + 1 \in 1 .. k /\ n + 1 # 1 BY <1>2, <1>5
  <2> QED BY <2>1, <1>2, <1>3, <1>6, SMTT(30) DEF Queued, OncePlaced
<1>9. ASSUME NEW r \in Queued, r # NextRequest PROVE r \in Queued'
  <2>1. PICK n \in 1 .. k : r = requestQueue[n] BY <1>3 DEF Queued
  <2>2. n - 1 \in 1 .. k - 1 /\ (n - 1) + 1 = n BY <1>4, <2>1, <1>9, <1>2
  <2>3. requestQueue'[n - 1] = r BY <2>1, <2>2, <1>2
  <2> QED BY <2>2, <2>3, <1>3 DEF Queued
<1>10. Queued' \subseteq Queued \ {NextRequest} BY <1>8, <1>3 DEF Queued
<1>11. ASSUME NEW n \in 1 .. k - 1, NEW m \in 1 .. k - 1, requestQueue'[n] = requestQueue'[m]
       PROVE n = m
  <2>1. n + 1 = m + 1 BY <1>2, <1>3, <1>5, <1>11 DEF OncePlaced
  <2> QED BY <2>1
<1> QED BY <1>7, <1>9, <1>10, <1>11, <1>3

LEMMA InitRequestInv == Init => RequestInv
<1> SUFFICES ASSUME Init PROVE RequestInv OBVIOUS
<1>1. DOMAIN requestQueue = {} /\ Queued = {} BY DEF Init, Queued
<1>2. OncePlaced BY <1>1 DEF Init, OncePlaced
<1>3. DecidedOnce BY DEF Init, DecidedOnce
<1>4. HandlesKept BY DEF Init, HandlesKept
<1>5. \A p \in Procs : Waits(p) BY DEF Init, Waits
<1> QED BY <1>2, <1>3, <1>4, <1>5 DEF RequestInv

\* A new request is that of its process only.
LEMMA SubmitRequestInv == \A p \in Procs, f \in Files : IInv /\ RequestInv /\ Submit(p, f) => RequestInv'
<1> SUFFICES ASSUME NEW p \in Procs, NEW f \in Files, IInv, RequestInv, Submit(p, f)
             PROVE RequestInv'
  OBVIOUS
<1>0. PICK r : r = nextRequestId OBVIOUS
<1>1. /\ r \in Requests /\ r # NoRequest /\ r \notin Made
      /\ Made' = Made \cup {r} /\ Made \subseteq Requests
  BY <1>0, HostIoAssumption DEF Submit, IInv, TypeOK, Requests, Made
<1>2. /\ Queued' = Queued \cup {r}
      /\ Len(requestQueue') = Len(requestQueue) + 1
      /\ \A n \in DOMAIN requestQueue : requestQueue'[n] = requestQueue[n]
      /\ requestQueue'[Len(requestQueue')] = r
  BY <1>0, <1>1, AppendQueued DEF Submit, IInv, TypeOK
<1>3. /\ DOMAIN requestQueue' = DOMAIN requestQueue \cup {Len(requestQueue')}
  <2>1. requestQueue \in Seq(Requests) /\ requestQueue' \in Seq(Requests)
    BY <1>0, <1>1, AppendProperties DEF Submit, IInv, TypeOK
  <2>2. DOMAIN requestQueue = 1 .. Len(requestQueue) /\ DOMAIN requestQueue' = 1 .. Len(requestQueue')
        /\ Len(requestQueue) \in Nat
    BY <2>1
  <2> QED BY <2>2, <1>2
<1>4. /\ requestMap' = requestMap \cup {r} /\ fileOf' = [fileOf EXCEPT ![r] = f]
      /\ pc[p] = "running" /\ pc' = [pc EXCEPT ![p] = "asleep"] /\ waitsFor' = [waitsFor EXCEPT ![p] = r]
      /\ UNCHANGED <<result, error, overlappedMap, opened, handle, requestThread, completionThread>>
      /\ UNCHANGED <<atHost, packets, performed>>
  BY <1>0 DEF Submit, fileVars, threadVars, hostVars
<1>5. \A n \in DOMAIN requestQueue : requestQueue[n] \in Queued BY DEF Queued
<1>6. /\ pc \in [Procs -> {"running", "asleep", "woken"}]
      /\ waitsFor \in [Procs -> Requests \cup {NoRequest}]
      /\ fileOf \in [Requests -> Files]
      /\ overlappedMap \in [Addresses -> Requests \cup {NoRequest}]
  BY DEF IInv, TypeOK
<1>7. OncePlaced'
  <2>1. \A n, m \in DOMAIN requestQueue' : requestQueue'[n] = requestQueue'[m] => n = m
    BY <1>1, <1>2, <1>3, <1>5 DEF OncePlaced, RequestInv
  <2>2. ASSUME NEW s \in Queued' PROVE s \in Made' /\ \A a \in Addresses : overlappedMap'[a] # s
    BY <1>1, <1>2, <1>4 DEF OncePlaced, RequestInv
  <2>3. ASSUME NEW a \in Addresses, overlappedMap'[a] # NoRequest
        PROVE overlappedMap'[a] \in Made'
              /\ \A b \in Addresses : overlappedMap'[b] = overlappedMap'[a] => a = b
    BY <1>1, <1>4, <2>3 DEF OncePlaced, RequestInv
  <2> QED BY <2>1, <2>2, <2>3, <1>4 DEF OncePlaced
<1>8. DecidedOnce' BY <1>1, <1>2, <1>4 DEF DecidedOnce, RequestInv
<1>9. HandlesKept'
  <2>1. ASSUME NEW a \in atHost PROVE fileOf'[overlappedMap[a]] = fileOf[overlappedMap[a]]
    <3>1. a \in Addresses /\ overlappedMap[a] \in Requests BY DEF IInv, TypeOK, AddressesKept
    <3>2. overlappedMap[a] \in Made BY <3>1, HostIoAssumption DEF RequestInv, OncePlaced
    <3> QED BY <3>1, <3>2, <1>1, <1>4, <1>6
  <2> QED BY <2>1, <1>4 DEF HandlesKept, RequestInv
<1>10. ASSUME NEW q \in Procs PROVE Waits(q)'
  <2>1. CASE q = p
    <3>1. pc'[p] = "asleep" /\ waitsFor'[p] = r BY <1>4, <1>6
    <3>2. \A o \in Procs : pc'[o] # "running" /\ waitsFor'[o] = r => o = p
      BY <1>1, <1>4, <1>6 DEF RequestInv, Waits
    <3>3. r \notin error BY <1>1 DEF RequestInv, DecidedOnce
    <3> QED BY <2>1, <3>1, <3>2, <3>3, <1>1, <1>2, <1>4 DEF Waits
  <2>2. CASE q # p
    <3>1. pc'[q] = pc[q] /\ waitsFor'[q] = waitsFor[q] BY <2>2, <1>4, <1>6
    <3>2. Waits(q) BY DEF RequestInv
    <3>3. pc[q] # "running" =>
             /\ waitsFor[q] \in Made /\ waitsFor[q] # r
             /\ fileOf'[waitsFor[q]] = fileOf[waitsFor[q]]
      BY <3>2, <1>1, <1>4, <1>6 DEF Waits
    <3>4. WorkedOn' = WorkedOn /\ Completed' = Completed BY <1>4 DEF WorkedOn, Completed
    <3>5. pc[q] # "running" =>
             \A o \in Procs : pc'[o] # "running" /\ waitsFor'[o] = waitsFor[q] => o = q
      BY <3>2, <3>3, <2>2, <1>4, <1>6 DEF Waits
    <3>6. pc[q] # "running" /\ Unanswerable(waitsFor[q]) => Unanswerable(waitsFor[q])'
      BY <3>1, <3>3, <1>4 DEF Unanswerable
    <3>7. pc'[q] # "running" => /\ waitsFor'[q] \in Made' /\ waitsFor'[q] \in requestMap'
                               /\ \A o \in Procs : pc'[o] # "running" /\ waitsFor'[o] = waitsFor'[q] => o = q
      BY <3>1, <3>2, <3>3, <3>5, <1>1, <1>4 DEF Waits
    <3>8. pc'[q] = "woken" => waitsFor'[q] \in performed' \cup error'
      BY <3>1, <3>2, <1>4 DEF Waits
    <3>9. pc'[q] = "asleep" =>
             /\ waitsFor'[q] \notin error'
             /\ waitsFor'[q] \in Queued' \cup WorkedOn' \cup Completed' \/ Unanswerable(waitsFor[q])'
      BY <3>1, <3>2, <3>4, <3>6, <1>2, <1>4 DEF Waits
    <3> QED BY <3>7, <3>8, <3>9 DEF Waits
  <2> QED BY <2>1, <2>2
<1> QED BY <1>7, <1>8, <1>9, <1>10 DEF RequestInv
\* The places a sleeper can be found at, and those who are up for a reason, are all that
\* a step that makes and ends no request has to keep.
LEMMA WaitsKept ==
    ASSUME RequestInv,
           UNCHANGED <<waitsFor, nextRequestId, requestMap>>,
           \A q \in Procs : pc'[q] = "running" <=> pc[q] = "running",
           \A q \in Procs : pc'[q] = "woken" => waitsFor[q] \in performed' \cup error',
           \A q \in Procs : pc'[q] = "asleep" =>
               /\ waitsFor[q] \notin error'
               /\ waitsFor[q] \in Queued' \cup WorkedOn' \cup Completed' \/ Unanswerable(waitsFor[q])'
    PROVE  \A q \in Procs : Waits(q)'
<1> SUFFICES ASSUME NEW q \in Procs PROVE Waits(q)' OBVIOUS
<1>1. Waits(q) /\ Made' = Made BY DEF RequestInv, Made
<1>2. pc'[q] # "running" =>
          /\ waitsFor'[q] \in Made' /\ waitsFor'[q] \in requestMap'
          /\ \A o \in Procs : pc'[o] # "running" /\ waitsFor'[o] = waitsFor'[q] => o = q
  BY <1>1 DEF Waits
<1> QED BY <1>2 DEF Waits

LEMMA ReturnRequestInv == \A p \in Procs : IInv /\ RequestInv /\ Return(p) => RequestInv'
<1> SUFFICES ASSUME NEW p \in Procs, IInv, RequestInv, Return(p) PROVE RequestInv'
  OBVIOUS
<1>1. /\ pc[p] = "woken" /\ pc' = [pc EXCEPT ![p] = "running"]
      /\ waitsFor' = [waitsFor EXCEPT ![p] = NoRequest]
      /\ requestMap' = requestMap \ {waitsFor[p]}
      /\ UNCHANGED <<nextRequestId, fileOf, error, requestQueue, overlappedMap>>
      /\ UNCHANGED <<opened, handle, requestThread, completionThread, atHost, packets, performed>>
  BY DEF Return, fileVars, threadVars, hostVars
<1>2. Queued' = Queued /\ WorkedOn' = WorkedOn /\ Completed' = Completed /\ Made' = Made
  BY <1>1 DEF Queued, WorkedOn, Completed, Made
<1>3. OncePlaced' BY <1>1, <1>2 DEF OncePlaced, RequestInv
<1>4. DecidedOnce' BY <1>1, <1>2 DEF DecidedOnce, RequestInv
<1>5. HandlesKept' BY <1>1 DEF HandlesKept, RequestInv
<1>6. ASSUME NEW q \in Procs PROVE Waits(q)'
  <2>1. pc \in [Procs -> {"running", "asleep", "woken"}]
        /\ waitsFor \in [Procs -> Requests \cup {NoRequest}]
    BY DEF IInv, TypeOK
  <2>2. CASE q = p BY <1>1, <2>1, <2>2 DEF Waits
  <2>3. CASE q # p
    <3>1. Waits(q) /\ Waits(p) /\ pc'[q] = pc[q] /\ waitsFor'[q] = waitsFor[q]
      BY <1>1, <2>1, <2>3 DEF RequestInv
    <3>2. pc'[q] # "running" => /\ waitsFor'[q] \in Made' /\ waitsFor'[q] \in requestMap'
                                /\ \A o \in Procs : pc'[o] # "running" /\ waitsFor'[o] = waitsFor'[q] => o = q
      BY <3>1, <1>1, <1>2, <2>1, <2>3 DEF Waits
    <3>3. pc[q] # "running" /\ Unanswerable(waitsFor[q]) => Unanswerable(waitsFor[q])'
      BY <3>1, <1>1 DEF Unanswerable
    <3>4. pc'[q] = "asleep" =>
             /\ waitsFor'[q] \notin error'
             /\ waitsFor'[q] \in Queued' \cup WorkedOn' \cup Completed' \/ Unanswerable(waitsFor[q])'
      BY <3>1, <3>3, <1>1, <1>2 DEF Waits
    <3>5. pc'[q] = "woken" => waitsFor'[q] \in performed' \cup error'
      BY <3>1, <1>1 DEF Waits
    <3> QED BY <3>2, <3>4, <3>5 DEF Waits
  <2> QED BY <2>2, <2>3
<1> QED BY <1>3, <1>4, <1>5, <1>6 DEF RequestInv

\* A step of the request thread that refuses the request at the head of the queue: its
\* process is woken, and nothing else loses its place.
LEMMA RefusedRequestInv ==
    ASSUME IInv, RequestInv, Takes, Refused(NextRequest),
           UNCHANGED <<waitsFor, nextRequestId, requestMap, fileOf, requestThread, completionThread>>,
           UNCHANGED <<atHost, packets, performed>>,
           OncePlaced', HandlesKept', \A a \in atHost : overlappedMap'[a] = overlappedMap[a],
           \A a \in Addresses, s \in BOOLEAN : <<a, s>> \in packets => overlappedMap'[a] = overlappedMap[a],
           \A r \in Requests : Unanswerable(r) => Unanswerable(r)'
    PROVE  RequestInv'
<1>1. PICK r : r = NextRequest OBVIOUS
<1>2. /\ r \in Queued /\ Queued' = Queued \ {r} /\ r \in Made /\ r \in Requests
  BY <1>1, TakesQueued, TakesType DEF IInv, RequestInv, OncePlaced
<1>3. Made' = Made /\ error' = error \cup {r} /\ Wakeup(r) /\ r \notin performed
  BY <1>1, <1>2 DEF Made, Refused, RequestInv, DecidedOnce
<1>4. atHost \subseteq Addresses /\ packets \subseteq Addresses \X BOOLEAN
  BY DEF IInv, TypeOK
<1>5. WorkedOn' = WorkedOn /\ Completed' = Completed
  <2>1. WorkedOn' = WorkedOn BY DEF WorkedOn
  <2>2. ASSUME NEW x \in packets PROVE overlappedMap'[x[1]] = overlappedMap[x[1]]
    <3>1. x = <<x[1], x[2]>> /\ x[1] \in Addresses /\ x[2] \in BOOLEAN BY <1>4
    <3> QED BY <3>1
  <2> QED BY <2>1, <2>2 DEF Completed
<1>6. ASSUME NEW a \in atHost PROVE overlappedMap[a] # r
  BY <1>2, <1>4 DEF RequestInv, OncePlaced
<1>7. DecidedOnce' BY <1>2, <1>3, <1>4, <1>6 DEF DecidedOnce, RequestInv
<1>8. pc \in [Procs -> {"running", "asleep", "woken"}] BY DEF IInv, TypeOK
<1>9. ASSUME NEW q \in Procs PROVE
          /\ pc'[q] = "running" <=> pc[q] = "running"
          /\ pc'[q] = "woken" => waitsFor[q] \in performed' \cup error'
          /\ pc'[q] = "asleep" =>
               /\ waitsFor[q] \notin error'
               /\ waitsFor[q] \in Queued' \cup WorkedOn' \cup Completed' \/ Unanswerable(waitsFor[q])'
  <2>1. Waits(q) BY DEF RequestInv
  <2>2. pc'[q] = IF pc[q] = "asleep" /\ waitsFor[q] = r THEN "woken" ELSE pc[q]
    BY <1>3 DEF Wakeup
  <2>3. pc[q] = "asleep" => waitsFor[q] \in Requests
    BY <2>1, HostIoAssumption DEF Waits, Made, IInv, TypeOK, Requests
  <2>4. pc[q] = "asleep" /\ Unanswerable(waitsFor[q]) => Unanswerable(waitsFor[q])'
    BY <2>3
  <2> QED BY <2>1, <2>2, <2>4, <1>2, <1>3, <1>5, <1>8 DEF Waits
<1> QED BY <1>7, <1>9, WaitsKept DEF RequestInv

\* A file that is opened for a request loses no handle, and no answer gets possible
\* that was not before.
LEMMA OpensKeeps ==
    ASSUME NEW f \in Files, NEW how \in {"fails", "unassociated", "opens"},
           IInv, RequestInv, Opens(f, how), requestThread = "running",
           UNCHANGED <<fileOf, requestThread, completionThread>>
    PROVE  /\ \A g \in Files : ~opened'[g] => handle'[g] = "none"
           /\ \A g \in Files : handle[g] # "none" => handle'[g] = handle[g]
           /\ \A r \in Requests : Unanswerable(r) => Unanswerable(r)'
<1>1. opened \in [Files -> BOOLEAN] /\ handle \in [Files -> {"none", "ofPort", "elsewhere"}]
      /\ fileOf \in [Requests -> Files]
  BY DEF IInv, TypeOK
<1>2. \A g \in Files : ~opened[g] => handle[g] = "none" BY DEF RequestInv, HandlesKept
<1>3. \A g \in Files : ~opened'[g] => handle'[g] = "none" BY <1>1, <1>2 DEF Opens
<1>4. \A g \in Files : handle[g] # "none" => handle'[g] = handle[g]
  BY <1>1, <1>2 DEF Opens
<1>5. \A r \in Requests : Unanswerable(r) => Unanswerable(r)'
  BY <1>1, <1>4 DEF Unanswerable
<1> QED BY <1>3, <1>4, <1>5

LEMMA RefuseFileRequestInv == IInv /\ RequestInv /\ RefuseFile => RequestInv'
<1> SUFFICES ASSUME IInv, RequestInv, RefuseFile PROVE RequestInv' OBVIOUS
<1>1. /\ Takes /\ Refused(NextRequest)
      /\ requestThread = "running"
      /\ UNCHANGED <<waitsFor, nextRequestId, requestMap, fileOf, requestThread, completionThread>>
      /\ UNCHANGED <<atHost, packets, performed>> /\ overlappedMap' = overlappedMap
  BY DEF RefuseFile, Takes, threadVars, hostVars
<1>2. NextRequest \in Requests BY <1>1, TakesType DEF IInv
<1>3. /\ \A g \in Files : ~opened'[g] => handle'[g] = "none"
      /\ \A g \in Files : handle[g] # "none" => handle'[g] = handle[g]
      /\ \A r \in Requests : Unanswerable(r) => Unanswerable(r)'
  <2>1. CASE UNCHANGED <<opened, handle>>
    BY <2>1, <1>1 DEF RequestInv, HandlesKept, Unanswerable
  <2>2. ASSUME NEW how \in {"fails", "unassociated"}, Opens(fileOf[NextRequest], how)
        PROVE  /\ \A g \in Files : ~opened'[g] => handle'[g] = "none"
               /\ \A g \in Files : handle[g] # "none" => handle'[g] = handle[g]
               /\ \A r \in Requests : Unanswerable(r) => Unanswerable(r)'
    <3>1. fileOf[NextRequest] \in Files BY <1>2 DEF IInv, TypeOK
    <3> QED BY <3>1, <2>2, <1>1, OpensKeeps
  <2> QED BY <2>1, <2>2 DEF RefuseFile
<1>4. OncePlaced'
  <2>1. Made' = Made BY <1>1 DEF Made
  <2> QED BY <2>1, <1>1, TakesQueued DEF OncePlaced, RequestInv, IInv
<1>5. HandlesKept'
  <2>1. ASSUME NEW a \in atHost PROVE fileOf[overlappedMap[a]] \in Files
    BY DEF IInv, TypeOK, AddressesKept
  <2> QED BY <2>1, <1>1, <1>3 DEF HandlesKept, RequestInv
<1> QED BY <1>1, <1>3, <1>4, <1>5, RefusedRequestInv
\* A request that is issued leaves the queue for an address that no other request has.
LEMMA IssueRequestInv == \A accepted \in BOOLEAN : IInv /\ RequestInv /\ Issue(accepted) => RequestInv'
<1> SUFFICES ASSUME NEW accepted \in BOOLEAN, IInv, RequestInv, Issue(accepted)
             PROVE RequestInv'
  OBVIOUS
<1>0. PICK r : r = NextRequest OBVIOUS
<1>1. /\ Takes /\ Opens(fileOf[r], "opens")
      /\ accepted => handle'[fileOf[r]] # "none" /\ UNCHANGED <<error, pc>>
      /\ ~accepted => Refused(r)
      /\ requestThread = "running"
      /\ UNCHANGED <<waitsFor, nextRequestId, requestMap, fileOf, requestThread, completionThread>>
      /\ UNCHANGED <<packets, performed>>
  BY <1>0 DEF Issue, Takes, threadVars
<1>2. PICK a \in Addresses :
          /\ overlappedMap[a] = NoRequest
          /\ overlappedMap' = [overlappedMap EXCEPT ![a] = r]
          /\ atHost' = IF accepted THEN atHost \cup {a} ELSE atHost
  BY <1>0 DEF Issue
<1>3. /\ r \in Requests /\ r \in Queued /\ Queued' = Queued \ {r} /\ r \in Made /\ Made' = Made
      /\ \A b \in Addresses : overlappedMap[b] # r
      /\ \A n, m \in DOMAIN requestQueue' : requestQueue'[n] = requestQueue'[m] => n = m
  BY <1>0, <1>1, TakesQueued, TakesType DEF IInv, RequestInv, OncePlaced, Made
<1>4. /\ overlappedMap \in [Addresses -> Requests \cup {NoRequest}] /\ fileOf \in [Requests -> Files]
      /\ atHost \subseteq Addresses /\ packets \subseteq Addresses \X BOOLEAN
      /\ r # NoRequest
  BY <1>3, HostIoAssumption DEF IInv, TypeOK
<1>5. overlappedMap'[a] = r /\ \A b \in Addresses : b # a => overlappedMap'[b] = overlappedMap[b]
  BY <1>2, <1>4
<1>6. a \notin atHost /\ \A s \in BOOLEAN : <<a, s>> \notin packets
  BY <1>2, HostIoAssumption DEF IInv, AddressesKept
<1>7. /\ \A g \in Files : ~opened'[g] => handle'[g] = "none"
      /\ \A g \in Files : handle[g] # "none" => handle'[g] = handle[g]
      /\ \A s \in Requests : Unanswerable(s) => Unanswerable(s)'
  <2>1. fileOf[r] \in Files BY <1>3, <1>4
  <2> QED BY <2>1, <1>1, OpensKeeps
<1>8. OncePlaced'
  <2>1. ASSUME NEW s \in Queued' PROVE s \in Made' /\ \A b \in Addresses : overlappedMap'[b] # s
    BY <1>3, <1>5 DEF RequestInv, OncePlaced
  <2>2. ASSUME NEW b \in Addresses, overlappedMap'[b] # NoRequest
        PROVE /\ overlappedMap'[b] \in Made'
              /\ \A c \in Addresses : overlappedMap'[c] = overlappedMap'[b] => b = c
    <3>1. CASE b = a BY <3>1, <1>3, <1>5
    <3>2. CASE b # a BY <3>2, <2>2, <1>3, <1>5 DEF RequestInv, OncePlaced
    <3> QED BY <3>1, <3>2
  <2> QED BY <2>1, <2>2, <1>3 DEF OncePlaced
<1>9. HandlesKept'
  <2>1. ASSUME NEW b \in atHost' PROVE handle'[fileOf[overlappedMap'[b]]] # "none"
    <3>1. CASE b \in atHost
      <4>1. overlappedMap'[b] = overlappedMap[b] /\ overlappedMap[b] \in Requests
        BY <3>1, <1>4, <1>5, <1>6 DEF IInv, AddressesKept
      <4>2. fileOf[overlappedMap[b]] \in Files /\ handle[fileOf[overlappedMap[b]]] # "none"
        BY <3>1, <4>1, <1>4 DEF RequestInv, HandlesKept
      <4> QED BY <4>1, <4>2, <1>7
    <3>2. CASE b \notin atHost
      BY <3>2, <1>1, <1>2, <1>5
    <3> QED BY <3>1, <3>2
  <2> QED BY <2>1, <1>1, <1>7 DEF HandlesKept
<1>10. CASE ~accepted
  <2>1. atHost' = atHost BY <1>2, <1>10
  <2>2. \A b \in atHost : overlappedMap'[b] = overlappedMap[b]
    BY <1>4, <1>5, <1>6
  <2>3. \A b \in Addresses, s \in BOOLEAN : <<b, s>> \in packets => overlappedMap'[b] = overlappedMap[b]
    BY <1>5, <1>6
  <2> QED BY <1>0, <1>1, <1>7, <1>8, <1>9, <1>10, <2>1, <2>2, <2>3, RefusedRequestInv
<1>11. CASE accepted
  <2>1. atHost' = atHost \cup {a} /\ error' = error /\ pc' = pc BY <1>1, <1>2, <1>11
  <2>2. DecidedOnce'
    <3>1. ASSUME NEW b \in atHost' PROVE overlappedMap'[b] \notin performed \cup error
      <4>1. CASE b = a BY <4>1, <1>3, <1>5 DEF RequestInv, DecidedOnce
      <4>2. CASE b # a BY <4>2, <2>1, <1>4, <1>5 DEF RequestInv, DecidedOnce
      <4> QED BY <4>1, <4>2
    <3>2. ASSUME NEW b \in Addresses, <<b, TRUE>> \in packets PROVE overlappedMap'[b] \in performed
      BY <3>2, <1>5, <1>6 DEF RequestInv, DecidedOnce
    <3> QED BY <3>1, <3>2, <2>1, <1>1, <1>3 DEF RequestInv, DecidedOnce
  <2>3. WorkedOn \cup {r} \subseteq WorkedOn' /\ Completed \subseteq Completed'
    <3>1. r \in WorkedOn' BY <2>1, <1>5 DEF WorkedOn
    <3>2. ASSUME NEW b \in atHost PROVE overlappedMap[b] \in WorkedOn'
      <4>1. overlappedMap[b] = overlappedMap'[b] /\ b \in atHost' BY <1>4, <1>5, <1>6, <2>1
      <4> QED BY <4>1 DEF WorkedOn
    <3>3. ASSUME NEW x \in packets PROVE overlappedMap[x[1]] \in Completed'
      <4>1. x = <<x[1], x[2]>> /\ x[1] \in Addresses /\ x[2] \in BOOLEAN BY <1>4
      <4>2. overlappedMap[x[1]] = overlappedMap'[x[1]] BY <4>1, <1>5, <1>6
      <4> QED BY <4>2, <1>1 DEF Completed
    <3> QED BY <3>1, <3>2, <3>3 DEF WorkedOn, Completed
  <2>4. ASSUME NEW q \in Procs PROVE
            /\ pc[q] = "woken" => waitsFor[q] \in performed \cup error
            /\ pc[q] = "asleep" =>
                 /\ waitsFor[q] \notin error
                 /\ waitsFor[q] \in Queued' \cup WorkedOn' \cup Completed' \/ Unanswerable(waitsFor[q])'
    <3>1. Waits(q) BY DEF RequestInv
    <3>2. pc[q] = "asleep" => waitsFor[q] \in Requests
      BY <3>1, HostIoAssumption DEF Waits, Made, IInv, TypeOK, Requests
    <3>3. pc[q] = "asleep" /\ Unanswerable(waitsFor[q]) => Unanswerable(waitsFor[q])'
      BY <3>2, <1>1, <1>7 DEF Unanswerable
    <3> QED BY <3>1, <3>3, <2>3, <1>3 DEF Waits
  <2> QED BY <2>1, <2>2, <2>4, <1>1, <1>8, <1>9, WaitsKept DEF RequestInv
<1> QED BY <1>10, <1>11

\* What the host has done goes to the port, where the completion thread takes it, or to
\* a port that nobody reads.
LEMMA HostCompletesRequestInv ==
    \A a \in Addresses, success \in BOOLEAN :
        IInv /\ RequestInv /\ HostCompletes(a, success) => RequestInv'
<1> SUFFICES ASSUME NEW a \in Addresses, NEW success \in BOOLEAN,
                    IInv, RequestInv, HostCompletes(a, success)
             PROVE RequestInv'
  OBVIOUS
<1>0. PICK r : r = overlappedMap[a] OBVIOUS
<1>1. /\ a \in atHost /\ atHost' = atHost \ {a}
      /\ packets' = IF Associated(a) THEN packets \cup {<<a, success>>} ELSE packets
      /\ performed' = IF success THEN performed \cup {r} ELSE performed
      /\ UNCHANGED <<pc, waitsFor, nextRequestId, fileOf, error, requestMap, requestQueue>>
      /\ UNCHANGED <<overlappedMap, opened, handle, requestThread, completionThread>>
  BY <1>0 DEF HostCompletes, processVars, requestVars, fileVars, threadVars
<1>2. /\ r \in Requests /\ r # NoRequest /\ \A s \in BOOLEAN : <<a, s>> \notin packets
      /\ handle[fileOf[r]] # "none" /\ r \notin performed \cup error
  BY <1>0, <1>1, HostIoAssumption DEF IInv, AddressesKept, RequestInv, HandlesKept, DecidedOnce
<1>3. /\ r \in Made /\ r \notin Queued /\ \A b \in Addresses : overlappedMap[b] = r => b = a
  BY <1>0, <1>2 DEF RequestInv, OncePlaced
<1>4. Queued' = Queued /\ Made' = Made BY <1>1 DEF Queued, Made
<1>5. /\ handle \in [Files -> {"none", "ofPort", "elsewhere"}] /\ fileOf \in [Requests -> Files]
      /\ atHost \subseteq Addresses /\ packets \subseteq Addresses \X BOOLEAN
      /\ overlappedMap \in [Addresses -> Requests \cup {NoRequest}]
  BY DEF IInv, TypeOK
<1>6. OncePlaced' BY <1>1, <1>4 DEF RequestInv, OncePlaced
<1>7. HandlesKept' BY <1>1 DEF RequestInv, HandlesKept
<1>8. DecidedOnce'
  <2>1. performed' \cap error' = {} BY <1>1, <1>2 DEF RequestInv, DecidedOnce
  <2>2. \A s \in performed' \cup error' : s \in Made' /\ s \notin Queued'
    BY <1>1, <1>3, <1>4 DEF RequestInv, DecidedOnce
  <2>3. ASSUME NEW b \in atHost' PROVE overlappedMap'[b] \notin performed' \cup error'
    BY <1>0, <1>1, <1>3, <1>5 DEF RequestInv, DecidedOnce
  <2>4. ASSUME NEW b \in Addresses, <<b, TRUE>> \in packets' PROVE overlappedMap'[b] \in performed'
    <3>1. CASE b = a BY <3>1, <2>4, <1>0, <1>1, <1>2
    <3>2. CASE b # a BY <3>2, <2>4, <1>1 DEF RequestInv, DecidedOnce
    <3> QED BY <3>1, <3>2
  <2> QED BY <2>1, <2>2, <2>3, <2>4 DEF DecidedOnce
<1>9. r \in Completed' \/ Unanswerable(r)
  <2>1. CASE Associated(a)
    <3>1. <<a, success>> \in packets' BY <2>1, <1>1
    <3>2. overlappedMap'[<<a, success>>[1]] = r BY <1>0, <1>1
    <3> QED BY <3>1, <3>2 DEF Completed
  <2>2. CASE ~Associated(a) BY <2>2, <1>0, <1>2, <1>5 DEF Associated, Unanswerable
  <2> QED BY <2>1, <2>2
<1>10. WorkedOn \subseteq WorkedOn' \cup {r} /\ Completed \subseteq Completed'
  BY <1>0, <1>1 DEF WorkedOn, Completed
<1>11. ASSUME NEW q \in Procs PROVE
          /\ pc[q] = "woken" => waitsFor[q] \in performed' \cup error
          /\ pc[q] = "asleep" =>
               /\ waitsFor[q] \notin error
               /\ waitsFor[q] \in Queued' \cup WorkedOn' \cup Completed' \/ Unanswerable(waitsFor[q])
  BY <1>1, <1>4, <1>9, <1>10 DEF RequestInv, Waits
<1>12. \A q \in Procs : Unanswerable(waitsFor[q]) => Unanswerable(waitsFor[q])'
  BY <1>1 DEF Unanswerable
<1> QED BY <1>1, <1>6, <1>7, <1>8, <1>11, <1>12, WaitsKept DEF RequestInv
\* The process of a request that is done is woken before its address is free again.
LEMMA HandleCompletionRequestInv == \A a \in Addresses : IInv /\ RequestInv /\ HandleCompletion(a) => RequestInv'
<1> SUFFICES ASSUME NEW a \in Addresses, IInv, RequestInv, HandleCompletion(a) PROVE RequestInv'
  OBVIOUS
<1>0. PICK r : r = overlappedMap[a] OBVIOUS
<1>1. /\ <<a, TRUE>> \in packets /\ packets' = packets \ {<<a, TRUE>>}
      /\ Wakeup(r) /\ overlappedMap' = [overlappedMap EXCEPT ![a] = NoRequest]
      /\ UNCHANGED <<waitsFor, nextRequestId, fileOf, error, requestMap, requestQueue>>
      /\ UNCHANGED <<opened, handle, requestThread, completionThread, atHost, performed>>
  BY <1>0 DEF HandleCompletion, RequestAt, fileVars, threadVars
<1>2. /\ r \in Requests /\ r # NoRequest /\ a \notin atHost /\ <<a, FALSE>> \notin packets
      /\ r \in performed
  BY <1>0, <1>1, HostIoAssumption DEF IInv, AddressesKept, RequestInv, DecidedOnce
<1>3. Queued' = Queued /\ Made' = Made BY <1>1 DEF Queued, Made
<1>4. /\ pc \in [Procs -> {"running", "asleep", "woken"}]
      /\ overlappedMap \in [Addresses -> Requests \cup {NoRequest}]
      /\ atHost \subseteq Addresses /\ packets \subseteq Addresses \X BOOLEAN
  BY DEF IInv, TypeOK
<1>5. /\ overlappedMap'[a] = NoRequest
      /\ \A b \in Addresses : b # a => overlappedMap'[b] = overlappedMap[b]
  BY <1>1, <1>4
<1>6. \A b \in atHost : overlappedMap'[b] = overlappedMap[b] BY <1>2, <1>4, <1>5
<1>7. OncePlaced'
  <2>1. NoRequest \notin Made BY HostIoAssumption DEF Made, IInv, TypeOK, Requests
  <2>2. ASSUME NEW s \in Queued' PROVE s \in Made' /\ \A b \in Addresses : overlappedMap'[b] # s
    BY <1>3, <1>5, <2>1 DEF RequestInv, OncePlaced
  <2>3. ASSUME NEW b \in Addresses, overlappedMap'[b] # NoRequest
        PROVE /\ overlappedMap'[b] \in Made'
              /\ \A c \in Addresses : overlappedMap'[c] = overlappedMap'[b] => b = c
    BY <2>3, <1>3, <1>5 DEF RequestInv, OncePlaced
  <2> QED BY <2>2, <2>3, <1>1 DEF OncePlaced, RequestInv
<1>8. HandlesKept' BY <1>1, <1>6 DEF RequestInv, HandlesKept
<1>9. DecidedOnce'
  <2>1. ASSUME NEW b \in Addresses, <<b, TRUE>> \in packets' PROVE overlappedMap'[b] \in performed
    <3>1. b # a BY <2>1, <1>1
    <3> QED BY <3>1, <2>1, <1>1, <1>5 DEF RequestInv, DecidedOnce
  <2> QED BY <2>1, <1>1, <1>3, <1>6 DEF RequestInv, DecidedOnce
<1>10. WorkedOn' = WorkedOn /\ Completed \subseteq Completed' \cup {r}
  <2>1. ASSUME NEW x \in packets, x # <<a, TRUE>> PROVE overlappedMap[x[1]] \in Completed'
    <3>1. x = <<x[1], x[2]>> /\ x[1] \in Addresses /\ x[2] \in BOOLEAN BY <1>4
    <3>2. x[1] # a BY <2>1, <3>1, <1>2
    <3>3. x \in packets' /\ overlappedMap'[x[1]] = overlappedMap[x[1]] BY <2>1, <3>1, <3>2, <1>1, <1>5
    <3> QED BY <3>3 DEF Completed
  <2>2. WorkedOn' = WorkedOn BY <1>1, <1>6 DEF WorkedOn
  <2>3. <<a, TRUE>>[1] = a OBVIOUS
  <2> QED BY <2>1, <2>2, <2>3, <1>0 DEF Completed
<1>11. ASSUME NEW q \in Procs PROVE
          /\ pc'[q] = "running" <=> pc[q] = "running"
          /\ pc'[q] = "woken" => waitsFor[q] \in performed \cup error
          /\ pc'[q] = "asleep" =>
               /\ waitsFor[q] \notin error
               /\ waitsFor[q] \in Queued' \cup WorkedOn' \cup Completed' \/ Unanswerable(waitsFor[q])
  <2>1. Waits(q) BY DEF RequestInv
  <2>2. pc'[q] = IF pc[q] = "asleep" /\ waitsFor[q] = r THEN "woken" ELSE pc[q]
    BY <1>1 DEF Wakeup
  <2> QED BY <2>1, <2>2, <1>2, <1>3, <1>4, <1>10 DEF Waits
<1>12. \A q \in Procs : Unanswerable(waitsFor[q]) /\ waitsFor[q] # NoRequest => Unanswerable(waitsFor[q])'
  BY <1>1, <1>4, <1>5 DEF Unanswerable
<1>13. \A q \in Procs : pc[q] = "asleep" => waitsFor[q] # NoRequest
  BY HostIoAssumption DEF RequestInv, Waits, Made, IInv, TypeOK, Requests
<1>14. \A q \in Procs : pc'[q] = "asleep" => pc[q] = "asleep"
  BY <1>1, <1>4 DEF Wakeup
<1> QED BY <1>1, <1>7, <1>8, <1>9, <1>11, <1>12, <1>13, <1>14, WaitsKept DEF RequestInv

\* With the completion thread gone nobody is answered any more.
LEMMA CompletionThreadEndsRequestInv ==
    \A a \in Addresses : IInv /\ RequestInv /\ CompletionThreadEnds(a) => RequestInv'
<1> SUFFICES ASSUME NEW a \in Addresses, IInv, RequestInv, CompletionThreadEnds(a) PROVE RequestInv'
  OBVIOUS
<1>1. /\ packets' \subseteq packets /\ completionThread' = "ended"
      /\ UNCHANGED <<pc, waitsFor, nextRequestId, fileOf, error, requestMap, requestQueue>>
      /\ UNCHANGED <<overlappedMap, opened, handle, atHost, performed>>
  BY DEF CompletionThreadEnds, processVars, requestVars, fileVars
<1>2. Queued' = Queued /\ Made' = Made /\ WorkedOn' = WorkedOn BY <1>1 DEF Queued, Made, WorkedOn
<1>3. OncePlaced' BY <1>1, <1>2 DEF RequestInv, OncePlaced
<1>4. HandlesKept' BY <1>1 DEF RequestInv, HandlesKept
<1>5. DecidedOnce' BY <1>1, <1>2 DEF RequestInv, DecidedOnce
<1>6. \A q \in Procs : Unanswerable(waitsFor[q])' BY <1>1 DEF Unanswerable
<1>7. \A q \in Procs : /\ pc[q] = "woken" => waitsFor[q] \in performed \cup error
                       /\ pc[q] = "asleep" => waitsFor[q] \notin error
  BY DEF RequestInv, Waits
<1> QED BY <1>1, <1>3, <1>4, <1>5, <1>6, <1>7, WaitsKept DEF RequestInv

\* With the request thread gone, the requests that have no address yet are not answered
\* any more: those in the queue, and the one that it had taken.
LEMMA RequestThreadEndsRequestInv == IInv /\ RequestInv /\ RequestThreadEnds => RequestInv'
<1> SUFFICES ASSUME IInv, RequestInv, RequestThreadEnds PROVE RequestInv'
  OBVIOUS
<1>0. PICK r : r = NextRequest OBVIOUS
<1>1. /\ Takes /\ requestThread' = "ended"
      /\ ~opened[fileOf[r]] /\ opened' = [opened EXCEPT ![fileOf[r]] = TRUE]
      /\ UNCHANGED <<pc, waitsFor, nextRequestId, fileOf, error, requestMap>>
      /\ UNCHANGED <<overlappedMap, handle, completionThread, atHost, packets, performed>>
  BY <1>0 DEF RequestThreadEnds, processVars, hostVars
<1>2. /\ r \in Queued /\ Queued' = Queued \ {r}
      /\ \A n, m \in DOMAIN requestQueue' : requestQueue'[n] = requestQueue'[m] => n = m
      /\ \A a \in Addresses : overlappedMap[a] # r
  BY <1>0, <1>1, TakesQueued DEF IInv, RequestInv, OncePlaced
<1>3. Made' = Made /\ WorkedOn' = WorkedOn /\ Completed' = Completed
  BY <1>1 DEF Made, WorkedOn, Completed
<1>4. OncePlaced' BY <1>1, <1>2, <1>3 DEF RequestInv, OncePlaced
<1>5. HandlesKept'
  <2>1. opened \in [Files -> BOOLEAN] BY DEF IInv, TypeOK
  <2> QED BY <2>1, <1>1 DEF RequestInv, HandlesKept
<1>6. DecidedOnce' BY <1>1, <1>2, <1>3 DEF RequestInv, DecidedOnce
<1>7. Unanswerable(r)' BY <1>1, <1>2 DEF Unanswerable
<1>8. \A q \in Procs : Unanswerable(waitsFor[q]) => Unanswerable(waitsFor[q])'
  BY <1>1 DEF Unanswerable
<1>9. ASSUME NEW q \in Procs PROVE
          /\ pc[q] = "woken" => waitsFor[q] \in performed \cup error
          /\ pc[q] = "asleep" =>
               /\ waitsFor[q] \notin error
               /\ waitsFor[q] \in Queued' \cup WorkedOn' \cup Completed' \/ Unanswerable(waitsFor[q])'
  <2>1. Waits(q) BY DEF RequestInv
  <2>2. waitsFor[q] = r => Unanswerable(waitsFor[q])' BY <1>1, <1>7
  <2>3. waitsFor[q] # r => (waitsFor[q] \in Queued => waitsFor[q] \in Queued') BY <1>2
  <2> QED BY <2>1, <2>2, <2>3, <1>3, <1>8 DEF Waits
<1> QED BY <1>1, <1>4, <1>5, <1>6, <1>9, WaitsKept DEF RequestInv

LEMMA NextRequestInv == IInv /\ RequestInv /\ [Next]_vars => RequestInv'
<1> SUFFICES ASSUME IInv, RequestInv, [Next]_vars PROVE RequestInv' OBVIOUS
<1>1. ASSUME NEW p \in Procs, NEW f \in Files, Submit(p, f) PROVE RequestInv'
  BY <1>1, SubmitRequestInv
<1>2. ASSUME NEW p \in Procs, Return(p) PROVE RequestInv'
  BY <1>2, ReturnRequestInv
<1>3. CASE RefuseFile BY <1>3, RefuseFileRequestInv
<1>4. ASSUME NEW accepted \in BOOLEAN, Issue(accepted) PROVE RequestInv'
  BY <1>4, IssueRequestInv
<1>5. ASSUME NEW a \in Addresses, NEW success \in BOOLEAN, HostCompletes(a, success) PROVE RequestInv'
  BY <1>5, HostCompletesRequestInv
<1>6. ASSUME NEW a \in Addresses, HandleCompletion(a) PROVE RequestInv'
  BY <1>6, HandleCompletionRequestInv
<1>7. ASSUME NEW a \in Addresses, CompletionThreadEnds(a) PROVE RequestInv'
  BY <1>7, CompletionThreadEndsRequestInv
<1>8. ASSUME \/ \E f \in Files : CloseHostFile(f)
             \/ CreatePort
             \/ UNCHANGED vars
      PROVE RequestInv'
  <2>1. /\ UNCHANGED <<pc, waitsFor, nextRequestId, fileOf, error, requestMap, requestQueue>>
        /\ UNCHANGED <<overlappedMap, opened, handle, atHost, packets, performed>>
        /\ completionThread = "ended" => completionThread' = "ended"
        /\ requestThread' = requestThread
    BY <1>8 DEF CloseHostFile, CreatePort, vars, processVars, requestVars, fileVars, threadVars, hostVars
  <2>2. /\ Queued' = Queued /\ Made' = Made /\ WorkedOn' = WorkedOn /\ Completed' = Completed
    BY <2>1 DEF Queued, Made, WorkedOn, Completed
  <2>3. OncePlaced' BY <2>1, <2>2 DEF RequestInv, OncePlaced
  <2>4. HandlesKept' BY <2>1 DEF RequestInv, HandlesKept
  <2>5. DecidedOnce' BY <2>1, <2>2 DEF RequestInv, DecidedOnce
  <2>6. \A q \in Procs : Unanswerable(waitsFor[q]) => Unanswerable(waitsFor[q])'
    BY <2>1 DEF Unanswerable
  <2>7. \A q \in Procs :
            /\ pc[q] = "woken" => waitsFor[q] \in performed \cup error
            /\ pc[q] = "asleep" =>
                 /\ waitsFor[q] \notin error
                 /\ waitsFor[q] \in Queued' \cup WorkedOn' \cup Completed' \/ Unanswerable(waitsFor[q])
    BY <2>2 DEF RequestInv, Waits
  <2> QED BY <2>1, <2>3, <2>4, <2>5, <2>6, <2>7, WaitsKept DEF RequestInv
<1>9. CASE RequestThreadEnds BY <1>9, RequestThreadEndsRequestInv
<1> QED BY <1>1, <1>2, <1>3, <1>4, <1>5, <1>6, <1>7, <1>8, <1>9 DEF Next, HandleRequest

THEOREM Invariance == Spec => [](IInv /\ RequestInv)
BY InitIInv, NextIInv, InitRequestInv, NextRequestInv, PTL DEF Spec
-----------------------------------------------------------------------------
(* Why a sleeper sleeps, and what a transfer promises.                     *)

LEMMA AtMostOne ==
    ASSUME NEW S, \A x, y \in S : x = y
    PROVE  Cardinality(S) = IF S = {} THEN 0 ELSE 1
<1>1. CASE S = {} BY <1>1, FS_EmptySet
<1>2. CASE S # {}
  <2>1. PICK x : x \in S BY <1>2
  <2>2. S = {x} BY <2>1
  <2> QED BY <1>2, <2>2, FS_Singleton
<1> QED BY <1>1, <1>2

\* The three counts of Places: each is 0 or 1, and no two of them are 1.
LEMMA CountedOnce ==
    ASSUME IInv, RequestInv, NEW r \in Requests
    PROVE  Places(r) = IF r \in Queued \cup WorkedOn \cup Completed THEN 1 ELSE 0
<1> DEFINE Q == {n \in DOMAIN requestQueue : requestQueue[n] = r}
           W == {a \in atHost : overlappedMap[a] = r}
           C == {x \in packets : overlappedMap[x[1]] = r}
<1>1. atHost \subseteq Addresses /\ packets \subseteq Addresses \X BOOLEAN /\ r # NoRequest
  BY HostIoAssumption DEF IInv, TypeOK
<1>2. \A a, b \in Addresses : overlappedMap[a] = r /\ overlappedMap[b] = r => a = b
  BY <1>1 DEF RequestInv, OncePlaced
<1>3. Cardinality(Q) = IF r \in Queued THEN 1 ELSE 0
  <2>1. \A n, m \in Q : n = m BY DEF RequestInv, OncePlaced
  <2>2. r \in Queued <=> Q # {} BY DEF Queued
  <2> HIDE DEF Q
  <2> QED BY <2>1, <2>2, AtMostOne
<1>4. Cardinality(W) = IF r \in WorkedOn THEN 1 ELSE 0
  <2>1. \A a, b \in W : a = b BY <1>1, <1>2
  <2>2. r \in WorkedOn <=> W # {} BY DEF WorkedOn
  <2> HIDE DEF W
  <2> QED BY <2>1, <2>2, AtMostOne
<1>5. \A x \in packets : x = <<x[1], x[2]>> /\ x[1] \in Addresses /\ x[2] \in BOOLEAN
  BY <1>1
<1>6. Cardinality(C) = IF r \in Completed THEN 1 ELSE 0
  <2>1. ASSUME NEW x \in C, NEW y \in C PROVE x = y
    <3>1. x[1] = y[1] BY <1>2, <1>5
    <3>2. PICK a \in Addresses : a = x[1] BY <1>5
    <3>3. <<a, x[2]>> \in packets /\ <<a, y[2]>> \in packets /\ x[2] \in BOOLEAN /\ y[2] \in BOOLEAN
      BY <3>1, <3>2, <1>5
    <3>4. ~(<<a, TRUE>> \in packets /\ <<a, FALSE>> \in packets) BY DEF IInv, AddressesKept
    <3>5. \A s, t \in BOOLEAN : s = t \/ (s = TRUE /\ t = FALSE) \/ (s = FALSE /\ t = TRUE)
      OBVIOUS
    <3>6. x[2] = y[2] BY <3>3, <3>4, <3>5
    <3> QED BY <3>1, <3>6, <1>5
  <2>2. r \in Completed <=> C # {} BY DEF Completed
  <2> HIDE DEF C
  <2> QED BY <2>1, <2>2, AtMostOne
<1>7. /\ r \in Queued => r \notin WorkedOn /\ r \notin Completed
  BY <1>1, <1>5 DEF RequestInv, OncePlaced, WorkedOn, Completed
<1>8. r \in WorkedOn => r \notin Completed
  <2> SUFFICES ASSUME r \in WorkedOn, r \in Completed PROVE FALSE OBVIOUS
  <2>1. PICK a \in atHost : overlappedMap[a] = r BY DEF WorkedOn
  <2>2. PICK x \in packets : overlappedMap[x[1]] = r BY DEF Completed
  <2>3. x[1] = a BY <2>1, <2>2, <1>1, <1>2, <1>5
  <2> QED BY <2>1, <2>2, <2>3, <1>1, <1>5 DEF IInv, AddressesKept
<1>9. Places(r) = Cardinality(Q) + Cardinality(W) + Cardinality(C)
  BY DEF Places
<1> HIDE DEF Q, W, C
<1> QED BY <1>3, <1>4, <1>6, <1>7, <1>8, <1>9

\* No lost wakeup: while a process sleeps its request exists, has no error, and is in
\* exactly one of the queue, the host and the port, unless nobody will ever answer it.
THEOREM NoLostWakeup == Spec => []SleepersHaveReason
<1>1. ASSUME IInv, RequestInv PROVE SleepersHaveReason
  <2> SUFFICES ASSUME NEW p \in Procs, pc[p] = "asleep"
               PROVE LET r == waitsFor[p] IN
                     /\ r \in requestMap \ error
                     /\ Places(r) = 1 \/ (Places(r) = 0 /\ Unanswerable(r))
    BY DEF SleepersHaveReason
  <2>1. PICK r : r = waitsFor[p] OBVIOUS
  <2>2. /\ r \in requestMap \ error
        /\ r \in Queued \cup WorkedOn \cup Completed \/ Unanswerable(r)
    BY <1>1, <2>1 DEF RequestInv, Waits
  <2>3. r \in Requests BY <1>1, <2>2 DEF IInv, TypeOK
  <2>4. Places(r) = IF r \in Queued \cup WorkedOn \cup Completed THEN 1 ELSE 0
    BY <1>1, <2>3, CountedOnce
  <2> QED BY <2>1, <2>2, <2>4
<1> QED BY <1>1, Invariance, PTL

LEMMA MovesTo ==
    ASSUME NEW p \in Procs, NEW from, NEW to, Phase(p) = from, Phase(p)' = to,
           \A q \in Procs : q # p => Phase(q)' = Phase(q)
    PROVE  Transfer!Moves(p, from, to)
BY DEF Transfer!Moves

\* A step by which the transfer of the process that made a request, if it still waits,
\* is decided, and that of nobody else.
LEMMA DecidesOne ==
    ASSUME IInv, RequestInv, NEW r, r \notin performed \cup error, NEW to,
           \/ to = "performed" /\ performed' = performed \cup {r} /\ error' = error
           \/ to = "refused" /\ performed' = performed /\ error' = error \cup {r},
           UNCHANGED <<waitsFor, result>>,
           \A q \in Procs : pc'[q] = "running" <=> pc[q] = "running"
    PROVE  \/ \E p \in Procs : Transfer!Moves(p, "asked", to) /\ UNCHANGED result
           \/ UNCHANGED Transfer!vars
<1>1. ASSUME NEW q \in Procs, ~(pc[q] # "running" /\ waitsFor[q] = r) PROVE Phase(q)' = Phase(q)
  BY <1>1 DEF Phase
<1>2. CASE \E p \in Procs : pc[p] # "running" /\ waitsFor[p] = r
  <2>1. PICK p \in Procs : pc[p] # "running" /\ waitsFor[p] = r BY <1>2
  <2>2. \A q \in Procs : q # p => ~(pc[q] # "running" /\ waitsFor[q] = r)
    BY <2>1 DEF RequestInv, Waits
  <2>3. Phase(p) = "asked" BY <2>1 DEF Phase
  <2>4. Phase(p)' = to BY <2>1 DEF Phase
  <2>5. Transfer!Moves(p, "asked", to) BY <2>2, <2>3, <2>4, <1>1, MovesTo
  <2> QED BY <2>5
<1>3. CASE ~\E p \in Procs : pc[p] # "running" /\ waitsFor[p] = r
  <2>1. \A q \in Procs : Phase(q)' = Phase(q) BY <1>1, <1>3
  <2> QED BY <2>1 DEF Transfer!vars
<1> QED BY <1>2, <1>3

LEMMA TransferInit == Init => Transfer!Init
BY DEF Init, Transfer!Init, Phase

\* Each step of the processes, the threads and the host is a step of the transfer of one
\* process, or none.
LEMMA TransferStep == IInv /\ RequestInv /\ [Next]_vars => [Transfer!Next]_(Transfer!vars)
<1> SUFFICES ASSUME IInv, RequestInv, [Next]_vars PROVE Transfer!Next \/ UNCHANGED Transfer!vars
  OBVIOUS
<1>0. /\ pc \in [Procs -> {"running", "asleep", "woken"}]
      /\ waitsFor \in [Procs -> Requests \cup {NoRequest}]
  BY DEF IInv, TypeOK
<1>1. ASSUME NEW p \in Procs, NEW f \in Files, Submit(p, f) PROVE Transfer!Next
  <2>1. PICK r : r = nextRequestId OBVIOUS
  <2>2. /\ pc[p] = "running" /\ pc' = [pc EXCEPT ![p] = "asleep"]
        /\ waitsFor' = [waitsFor EXCEPT ![p] = r]
        /\ UNCHANGED <<result, error, performed>>
    BY <1>1, <2>1 DEF Submit, hostVars
  <2>3. r \notin performed \cup error
    BY <2>1 DEF RequestInv, DecidedOnce, Made, IInv, TypeOK
  <2>4. Phase(p) = "idle" BY <2>2 DEF Phase
  <2>5. Phase(p)' = "asked"
    <3>1. pc'[p] = "asleep" /\ waitsFor'[p] = r BY <2>2, <1>0
    <3> QED BY <3>1, <2>2, <2>3 DEF Phase
  <2>6. ASSUME NEW q \in Procs, q # p PROVE Phase(q)' = Phase(q)
    <3>1. pc'[q] = pc[q] /\ waitsFor'[q] = waitsFor[q] BY <2>2, <2>6, <1>0
    <3> QED BY <3>1, <2>2 DEF Phase
  <2>7. Transfer!Ask(p) BY <2>2, <2>4, <2>5, <2>6, MovesTo DEF Transfer!Ask
  <2> QED BY <2>7 DEF Transfer!Next
<1>2. ASSUME NEW p \in Procs, Return(p) PROVE Transfer!Next
  <2>1. /\ pc[p] = "woken" /\ pc' = [pc EXCEPT ![p] = "running"]
        /\ waitsFor' = [waitsFor EXCEPT ![p] = NoRequest]
        /\ result' = [result EXCEPT ![p] = Outcome(waitsFor[p])]
        /\ UNCHANGED <<error, performed>>
    BY <1>2 DEF Return, hostVars
  <2>2. waitsFor[p] \in performed \cup error /\ performed \cap error = {}
    BY <2>1 DEF RequestInv, Waits, DecidedOnce
  <2>3. Phase(p)' = "idle"
    <3>1. pc'[p] = "running" BY <2>1, <1>0
    <3> QED BY <3>1 DEF Phase
  <2>4. ASSUME NEW q \in Procs, q # p PROVE Phase(q)' = Phase(q)
    <3>1. pc'[q] = pc[q] /\ waitsFor'[q] = waitsFor[q] BY <2>1, <2>4, <1>0
    <3> QED BY <3>1, <2>1 DEF Phase
  <2>5. CASE waitsFor[p] \in performed
    <3>1. Phase(p) = "performed" BY <2>1, <2>2, <2>5 DEF Phase
    <3>2. result' = [result EXCEPT ![p] = "success"] BY <2>1, <2>2, <2>5 DEF Outcome
    <3>3. Transfer!Succeed(p) BY <2>3, <2>4, <3>1, <3>2, MovesTo DEF Transfer!Succeed
    <3> QED BY <3>3 DEF Transfer!Next
  <2>6. CASE waitsFor[p] \notin performed
    <3>1. Phase(p) = "refused" BY <2>1, <2>2, <2>6 DEF Phase
    <3>2. result' = [result EXCEPT ![p] = "error"] BY <2>1, <2>2, <2>6 DEF Outcome
    <3>3. Transfer!Fail(p) BY <2>3, <2>4, <3>1, <3>2, MovesTo DEF Transfer!Fail
    <3> QED BY <3>3 DEF Transfer!Next
  <2> QED BY <2>5, <2>6
<1>3. ASSUME NEW r, Wakeup(r)
      PROVE \A q \in Procs : pc'[q] = "running" <=> pc[q] = "running"
  BY <1>3, <1>0 DEF Wakeup
<1>4. ASSUME Takes, Refused(NextRequest), UNCHANGED <<waitsFor, result, performed>>
      PROVE Transfer!Next \/ UNCHANGED Transfer!vars
  <2>1. PICK r : r = NextRequest OBVIOUS
  <2>2. r \notin performed \cup error
    BY <1>4, <2>1, TakesQueued DEF IInv, RequestInv, DecidedOnce
  <2>3. error' = error \cup {r} /\ \A q \in Procs : pc'[q] = "running" <=> pc[q] = "running"
    BY <1>3, <1>4, <2>1 DEF Refused
  <2>4. \/ \E p \in Procs : Transfer!Moves(p, "asked", "refused") /\ UNCHANGED result
        \/ UNCHANGED Transfer!vars
    BY <1>4, <2>2, <2>3, DecidesOne
  <2> QED BY <2>4 DEF Transfer!Next, Transfer!Refuse
<1>5. CASE RefuseFile
  BY <1>4, <1>5 DEF RefuseFile, hostVars
<1>6. ASSUME UNCHANGED <<waitsFor, result, error, performed>>,
             \A q \in Procs : pc'[q] = "running" <=> pc[q] = "running"
      PROVE UNCHANGED Transfer!vars
  <2>1. \A q \in Procs : Phase(q)' = Phase(q) BY <1>6 DEF Phase
  <2> QED BY <2>1, <1>6 DEF Transfer!vars
<1>7. ASSUME NEW accepted \in BOOLEAN, Issue(accepted) PROVE Transfer!Next \/ UNCHANGED Transfer!vars
  <2>1. Takes /\ UNCHANGED <<waitsFor, result, performed>> BY <1>7 DEF Issue
  <2>2. CASE accepted
    <3>1. error' = error /\ pc' = pc BY <1>7, <2>2 DEF Issue
    <3> QED BY <2>1, <3>1, <1>6
  <2>3. CASE ~accepted
    <3>1. Refused(NextRequest) BY <1>7, <2>3 DEF Issue
    <3> QED BY <2>1, <3>1, <1>4
  <2> QED BY <2>2, <2>3
<1>8. ASSUME NEW a \in Addresses, NEW success \in BOOLEAN, HostCompletes(a, success)
      PROVE Transfer!Next \/ UNCHANGED Transfer!vars
  <2>1. PICK r : r = overlappedMap[a] OBVIOUS
  <2>2. /\ UNCHANGED <<pc, waitsFor, result, error>> /\ a \in atHost
        /\ performed' = IF success THEN performed \cup {r} ELSE performed
    BY <1>8, <2>1 DEF HostCompletes, processVars, requestVars
  <2>3. CASE success
    <3>1. r \notin performed \cup error BY <2>1, <2>2 DEF RequestInv, DecidedOnce
    <3>2. \/ \E p \in Procs : Transfer!Moves(p, "asked", "performed") /\ UNCHANGED result
          \/ UNCHANGED Transfer!vars
      BY <2>2, <2>3, <3>1, DecidesOne
    <3> QED BY <3>2 DEF Transfer!Next, Transfer!Perform
  <2>4. CASE ~success BY <2>2, <2>4, <1>6
  <2> QED BY <2>3, <2>4
<1>9. ASSUME NEW a \in Addresses, HandleCompletion(a) PROVE UNCHANGED Transfer!vars
  <2>1. Wakeup(RequestAt(a)) /\ UNCHANGED <<waitsFor, result, error, performed>>
    BY <1>9 DEF HandleCompletion
  <2> QED BY <2>1, <1>3, <1>6
<1>10. ASSUME \/ \E f \in Files : CloseHostFile(f)
              \/ \E a \in Addresses : CompletionThreadEnds(a)
              \/ CreatePort
              \/ RequestThreadEnds
              \/ UNCHANGED vars
       PROVE UNCHANGED Transfer!vars
  <2>1. UNCHANGED <<pc, waitsFor, result, error, performed>>
    BY <1>10 DEF CloseHostFile, CompletionThreadEnds, CreatePort, RequestThreadEnds, vars,
                 processVars, requestVars, hostVars
  <2> QED BY <2>1, <1>6
<1> QED BY <1>1, <1>2, <1>5, <1>7, <1>8, <1>9, <1>10 DEF Next, HandleRequest

\* Whatever the order in which the host completes, and however files are closed and
\* addresses used again meanwhile, a process goes on only once its own transfer is over,
\* with a success only if the host did it and an error only if it was refused.
THEOREM TransferIsDone == Spec => ImplementsTransfer
<1>1. Init => Transfer!Init BY TransferInit
<1>2. IInv /\ RequestInv /\ [Next]_vars => [Transfer!Next]_(Transfer!vars)
  BY TransferStep
<1> QED BY <1>1, <1>2, Invariance, PTL DEF Spec, ImplementsTransfer, Transfer!Spec
=============================================================================
