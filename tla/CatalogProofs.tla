---------------------------- MODULE CatalogProofs ----------------------------
(***************************************************************************)
(* Proofs about CatalogExchange, for every set of namespaces, catalogs and *)
(* client configurations.                                                  *)
(***************************************************************************)
EXTENDS CatalogExchange, TLAPS

(***************************************************************************)
(* The handlers.                                                           *)
(***************************************************************************)

\* The catalogs lie in their namespaces, apart from moq-mi and from strangers.
LEMMA CatalogFacts ==
  ASSUME NEW n \in WithCatalog
  PROVE  /\ n # Interop /\ n \notin MoqMI /\ n # "unknown"
         /\ DOMAIN Catalogs[n] # {}
         /\ \A t \in DOMAIN Catalogs[n] : Catalogs[n][t] \in {"cmaf", "locmaf", "loc"}
         /\ n \in LOC => \A t \in DOMAIN Catalogs[n] : Catalogs[n][t] = "loc"
  BY ConfigAssumption DEF Strangers

\* The SUBSCRIBE handler in a namespace with a catalog.
LEMMA ReplyWithCatalog ==
  ASSUME NEW n \in WithCatalog, NEW t
  PROVE  SubscribeReply(n, t) =
           IF t = "catalog" THEN "PublishCatalog"
           ELSE IF t \in Subtitles THEN "PublishSubtitleTrack"
           ELSE IF t \in DOMAIN Catalogs[n] THEN Catalogs[n][t] ELSE "reject"
  <1>1. /\ n # Interop /\ n \notin MoqMI
        /\ n \in LOC => \A x \in DOMAIN Catalogs[n] : Catalogs[n][x] = "loc"
    BY CatalogFacts
  <1>2. CASE t = "catalog"
    BY <1>1, <1>2 DEF SubscribeReply
  <1>3. CASE t # "catalog" /\ t \in Subtitles
    BY <1>1, <1>3 DEF SubscribeReply
  <1>4. CASE t # "catalog" /\ t \notin Subtitles /\ t \in DOMAIN Catalogs[n]
    <2>1. CASE n \in LOC
      BY <1>1, <1>4, <2>1 DEF SubscribeReply
    <2>2. CASE n \notin LOC
      BY <1>1, <1>4, <2>2 DEF SubscribeReply
    <2> QED BY <2>1, <2>2
  <1>5. CASE t # "catalog" /\ t \notin Subtitles /\ t \notin DOMAIN Catalogs[n]
    BY <1>1, <1>5 DEF SubscribeReply
  <1> QED BY <1>2, <1>3, <1>4, <1>5

\* A namespace without a catalog turns the catalog subscription down; one with a
\* catalog answers it with PublishCatalog and accepts what the catalog lists.
LEMMA CatalogReply ==
  ASSUME NEW n \in WithCatalog \cup MoqMI \cup {"unknown"}
  PROVE  /\ n \in WithCatalog => SubscribeReply(n, "catalog") = "PublishCatalog"
         /\ n \notin WithCatalog => SubscribeReply(n, "catalog") = "reject"
  <1>1. CASE n \in WithCatalog
    BY <1>1, ReplyWithCatalog
  <1>2. CASE n \notin WithCatalog
    <2>1. n # Interop
      BY ConfigAssumption DEF Strangers, Interop
    <2>2. CASE n \in MoqMI
      BY <1>2, <2>1, <2>2 DEF SubscribeReply
    <2>3. CASE n \notin MoqMI
      BY <1>2, <2>1, <2>3 DEF SubscribeReply
    <2> QED BY <2>2, <2>3
  <1> QED BY <1>1, <1>2

LEMMA ListedIsAccepted ==
  ASSUME NEW n \in WithCatalog, NEW t \in DOMAIN Catalogs[n]
  PROVE  SubscribeReply(n, t) # "reject"
  BY ReplyWithCatalog, CatalogFacts

\* A catalog is not the nil catalog.
LEMMA CatalogNotNil ==
  ASSUME NEW n \in WithCatalog
  PROVE  Catalogs[n] # <<>>
  <1>1. DOMAIN <<>> = {}
    OBVIOUS
  <1> QED BY <1>1, CatalogFacts

-----------------------------------------------------------------------------
(***************************************************************************)
(* The inductive invariant.                                                *)
(***************************************************************************)

LEMMA InitInvariant == Init => IInv
  <1> SUFFICES ASSUME Init PROVE IInv
    OBVIOUS
  <1>1. TypeOK
    BY ConfigAssumption DEF Init, TypeOK
  <1>2. RetrievedOnce /\ AskedAsListed
    BY DEF Init, RetrievedOnce, AskedAsListed, Retrieving
  <1>3. FailsOnlyOnFaultUnlessJoiningDelayed /\ PanicsOnlyOnFault
    BY DEF Init, FailsOnlyOnFaultUnlessJoiningDelayed, FailsOnlyOnFault,
       PanicsOnlyOnFault
  <1> QED BY <1>1, <1>2, <1>3 DEF IInv

\* What is a Boolean stays one.
LEMMA BooleansStep ==
  ASSUME TypeOK, Next
  PROVE  delayed' \in BOOLEAN /\ fault' \in BOOLEAN
  <1> USE DEF TypeOK, confVars, Fault
  <1>1. CASE Announce \/ OtherSubscribe \/ PublishCatalog
    BY <1>1, Zenon DEF Announce, OtherSubscribe, PublishCatalog
  <1>2. CASE SubscribeCatalog \/ FetchCatalog \/ SelectTracks \/ SubscribeMedia
    BY <1>2, Zenon DEF SubscribeCatalog, FetchCatalog, ServeFetch, SelectTracks, SubscribeMedia
  <1>3. CASE ReadFetch \/ ReadSubscription \/ ReadUpdate
    BY <1>3, Zenon DEF ReadFetch, ReadSubscription, ReadUpdate, EndOfTrack
  <1> QED BY <1>1, <1>2, <1>3 DEF Next, Subscriber

\* Steps of the publisher and of other clients.
LEMMA PublisherStep ==
  ASSUME IInv, PublishCatalog \/ OtherSubscribe \/ Announce
  PROVE  IInv'
  <1> USE DEF IInv, confVars, annVars, subVars, pubVars
  <1>1. CASE PublishCatalog
    <2>0. delayed' \in BOOLEAN /\ fault' \in BOOLEAN
      BY <1>1, BooleansStep DEF Next, Subscriber
    <2>1. TypeOK'
      BY <1>1, <2>0 DEF PublishCatalog, TypeOK, Fault
    <2>2. RetrievedOnce'
      BY <1>1 DEF PublishCatalog, RetrievedOnce, Retrieving, Fault, TypeOK
    <2>3. AskedAsListed'
      BY <1>1 DEF PublishCatalog, AskedAsListed, Fault
    <2>5. FailsOnlyOnFaultUnlessJoiningDelayed' /\ PanicsOnlyOnFault'
      BY <1>1 DEF PublishCatalog, FailsOnlyOnFaultUnlessJoiningDelayed, FailsOnlyOnFault,
         PanicsOnlyOnFault, Fault
    <2> QED BY <2>1, <2>2, <2>3, <2>5
  <1>2. CASE OtherSubscribe
    <2>0. delayed' \in BOOLEAN /\ fault' \in BOOLEAN
      BY <1>2, BooleansStep DEF Next, Subscriber
    <2>1. TypeOK'
      BY <1>2, <2>0 DEF OtherSubscribe, TypeOK
    <2>2. RetrievedOnce' /\ AskedAsListed'
      BY <1>2 DEF OtherSubscribe, RetrievedOnce, Retrieving, AskedAsListed
    <2>4. FailsOnlyOnFaultUnlessJoiningDelayed' /\ PanicsOnlyOnFault'
      BY <1>2 DEF OtherSubscribe, FailsOnlyOnFaultUnlessJoiningDelayed, FailsOnlyOnFault,
         PanicsOnlyOnFault
    <2> QED BY <2>1, <2>2, <2>4
  <1>3. CASE Announce
    <2>0. delayed' \in BOOLEAN /\ fault' \in BOOLEAN
      BY <1>3, BooleansStep DEF Next, Subscriber
    <2>1. TypeOK'
      BY <1>3, <2>0 DEF Announce, TypeOK, Fault
    <2>2. RetrievedOnce' /\ AskedAsListed'
      BY <1>3 DEF Announce, RetrievedOnce, Retrieving, AskedAsListed, Fault
    <2>4. FailsOnlyOnFaultUnlessJoiningDelayed' /\ PanicsOnlyOnFault'
      BY <1>3 DEF Announce, FailsOnlyOnFaultUnlessJoiningDelayed, FailsOnlyOnFault,
         PanicsOnlyOnFault, Fault
    <2> QED BY <2>1, <2>2, <2>4
  <1> QED BY <1>1, <1>2, <1>3

\* Steps of the subscriber.
LEMMA SubscriberStep ==
  ASSUME IInv, Subscriber \/ ReadUpdate
  PROVE  IInv'
  <1> USE DEF IInv, confVars, annVars, subVars, pubVars
  <1> DEFINE Limits == FailsOnlyOnFaultUnlessJoiningDelayed /\ PanicsOnlyOnFault
  <1>n. ns \in WithCatalog \cup MoqMI \cup {"unknown"}
    BY DEF TypeOK
  <1>c. ns \in WithCatalog => Catalogs[ns] # <<>>
    BY CatalogNotNil
  <1>1. CASE SubscribeCatalog
    <2>0. delayed' \in BOOLEAN /\ fault' \in BOOLEAN
      BY <1>1, BooleansStep DEF Next, Subscriber
    <2>1. TypeOK'
      BY <1>1, <2>0 DEF SubscribeCatalog, AcceptCatalogSubscription, TypeOK, Fault, Fail
    <2>2. RetrievedOnce'
      BY <1>1 DEF SubscribeCatalog, AcceptCatalogSubscription, RetrievedOnce, Retrieving, Fault,
         Fail, TypeOK
    <2>3. AskedAsListed' /\ Limits'
      <3>1. CASE ns \in WithCatalog
        <4>1. SubscribeReply(ns, "catalog") = "PublishCatalog"
          BY <1>n, <3>1, CatalogReply
        <4>2. /\ UNCHANGED <<mode, delayed, ns, catalog, onFetch>>
              /\ pc' \in {"readSub", "failed", "fetch"}
              /\ pc' = "failed" => (mode = "joining" /\ delayed) \/ fault'
          BY <1>1, <4>1 DEF SubscribeCatalog, AcceptCatalogSubscription, Fault, Fail, CatalogLocation
        <4> QED BY <3>1, <4>2 DEF AskedAsListed, FailsOnlyOnFaultUnlessJoiningDelayed,
                   FailsOnlyOnFault, PanicsOnlyOnFault
      <3>2. CASE ns \notin WithCatalog
        <4>1. SubscribeReply(ns, "catalog") = "reject"
          BY <1>n, <3>2, CatalogReply
        <4>2. UNCHANGED <<mode, delayed, ns, catalog, onFetch, task>> /\ pc' = "failed"
          BY <1>1, <4>1 DEF SubscribeCatalog, Fail
        <4> QED BY <3>2, <4>2 DEF AskedAsListed, FailsOnlyOnFaultUnlessJoiningDelayed,
                   FailsOnlyOnFault, PanicsOnlyOnFault
      <3> QED BY <3>1, <3>2
    <2> QED BY <2>1, <2>2, <2>3
  <1>2. CASE FetchCatalog
    <2>0. delayed' \in BOOLEAN /\ fault' \in BOOLEAN
      BY <1>2, BooleansStep DEF Next, Subscriber
    <2>1. TypeOK'
      BY <1>2, <2>0 DEF FetchCatalog, ServeFetch, TypeOK, Fault, Fail
    <2>2. RetrievedOnce'
      BY <1>2 DEF FetchCatalog, ServeFetch, RetrievedOnce, Retrieving, Fault, Fail, TypeOK
    <2>3. AskedAsListed' /\ Limits'
      BY <1>2 DEF FetchCatalog, ServeFetch, FetchAccepted, AskedAsListed, Fault, Fail,
         FailsOnlyOnFaultUnlessJoiningDelayed, FailsOnlyOnFault, PanicsOnlyOnFault, TypeOK
    <2> QED BY <2>1, <2>2, <2>3
  <1>3. CASE ReadFetch
    <2>0. delayed' \in BOOLEAN /\ fault' \in BOOLEAN
      BY <1>3, BooleansStep DEF Next, Subscriber
    <2>1. TypeOK'
      BY <1>3, <2>0 DEF ReadFetch, Apply, EndOfTrack, TypeOK, Fault, Fail
    <2>2. RetrievedOnce'
      BY <1>3 DEF ReadFetch, Apply, EndOfTrack, RetrievedOnce, Retrieving, Fault, Fail, TypeOK
    <2>3. AskedAsListed' /\ Limits'
      BY <1>3, <1>c DEF ReadFetch, Apply, EndOfTrack, AskedAsListed, Fault, Fail,
         FailsOnlyOnFaultUnlessJoiningDelayed, FailsOnlyOnFault, PanicsOnlyOnFault, TypeOK
    <2> QED BY <2>1, <2>2, <2>3
  <1>4. CASE ReadSubscription
    <2>0. delayed' \in BOOLEAN /\ fault' \in BOOLEAN
      BY <1>4, BooleansStep DEF Next, Subscriber
    <2>1. TypeOK'
      BY <1>4, <2>0 DEF ReadSubscription, Apply, EndOfTrack, TypeOK, Fault, Fail
    <2>2. RetrievedOnce'
      BY <1>4 DEF ReadSubscription, Apply, EndOfTrack, RetrievedOnce, Retrieving, Fault, Fail, TypeOK
    <2>3. AskedAsListed' /\ Limits'
      BY <1>4, <1>c DEF ReadSubscription, Apply, EndOfTrack, AskedAsListed, Fault, Fail,
         FailsOnlyOnFaultUnlessJoiningDelayed, FailsOnlyOnFault, PanicsOnlyOnFault, TypeOK
    <2> QED BY <2>1, <2>2, <2>3
  <1>5. CASE SelectTracks
    <2>0. delayed' \in BOOLEAN /\ fault' \in BOOLEAN
      BY <1>5, BooleansStep DEF Next, Subscriber
    <2>1. TypeOK'
      BY <1>5, <2>0 DEF SelectTracks, TypeOK, Fault, Fail
    <2>2. RetrievedOnce'
      BY <1>5 DEF SelectTracks, RetrievedOnce, Retrieving, Fault, Fail, TypeOK
    <2>3. AskedAsListed'
      <3>1. ASSUME NEW s \in {<<t>> : t \in DOMAIN catalog}
                     \cup {p \in (DOMAIN catalog) \X (DOMAIN catalog) : p[1] # p[2]}
            PROVE  s \in Seq(DOMAIN catalog) /\ catalog # <<>>
        <4>1. DOMAIN <<>> = {}
          OBVIOUS
        <4> DEFINE D == DOMAIN catalog
        <4>2. CASE s \in {<<t>> : t \in D}
          <5>1. PICK t \in D : s = <<t>>
            BY <4>2
          <5> HIDE DEF D
          <5>2. s \in Seq(D)
            BY <5>1
          <5> QED BY <4>1, <5>1, <5>2 DEF D
        <4>3. CASE s \in D \X D
          <5>1. PICK t \in D, u \in D : s = <<t, u>>
            BY <4>3
          <5> HIDE DEF D
          <5>2. s \in Seq(D)
            BY <5>1
          <5> QED BY <4>1, <5>1, <5>2 DEF D
        <4> QED BY <3>1, <4>2, <4>3
      <3> QED BY <1>5, <3>1 DEF SelectTracks, AskedAsListed, Fault, Fail
    <2>4. Limits'
      BY <1>5 DEF SelectTracks, AskedAsListed, Fault, Fail,
         FailsOnlyOnFaultUnlessJoiningDelayed, FailsOnlyOnFault, PanicsOnlyOnFault, TypeOK
    <2> QED BY <2>1, <2>2, <2>3, <2>4
  <1>6. CASE SubscribeMedia
    <2>0. delayed' \in BOOLEAN /\ fault' \in BOOLEAN
      BY <1>6, BooleansStep DEF Next, Subscriber
    <2>1. TypeOK'
      BY <1>6, <2>0 DEF SubscribeMedia, TypeOK, Fault, Fail
    <2>2. RetrievedOnce'
      BY <1>6 DEF SubscribeMedia, RetrievedOnce, Retrieving, Fault, Fail, TypeOK
    <2>3. wanted \in Seq(DOMAIN catalog) /\ catalog = Catalogs[ns] /\ ns \in WithCatalog
      BY <1>6 DEF SubscribeMedia, AskedAsListed
    <2>4. wanted # <<>> => Tail(wanted) \in Seq(DOMAIN catalog) /\ Head(wanted) \in DOMAIN catalog
      BY <2>3
    <2>5. wanted # <<>> => SubscribeReply(ns, Head(wanted)) # "reject"
      BY <2>3, <2>4, ListedIsAccepted
    <2>6. AskedAsListed'
      BY <1>6, <2>4 DEF SubscribeMedia, AskedAsListed, Fault, Fail
    <2>7. Limits'
      BY <1>6, <2>5 DEF SubscribeMedia, Fault, Fail,
         FailsOnlyOnFaultUnlessJoiningDelayed, FailsOnlyOnFault, PanicsOnlyOnFault, TypeOK
    <2> QED BY <2>1, <2>2, <2>6, <2>7
  <1>7. CASE ReadUpdate
    <2>0. delayed' \in BOOLEAN /\ fault' \in BOOLEAN
      BY <1>7, BooleansStep DEF Next, Subscriber
    <2>1. TypeOK'
      BY <1>7, <2>0 DEF ReadUpdate, Apply, TypeOK, Fault
    <2>2. ~AfterLocation(CatalogLocation, CatalogLocation)
      BY DEF AfterLocation, CatalogLocation
    <2>3. UNCHANGED <<catalog, applied>>
      BY <1>7, <2>2 DEF ReadUpdate, RetrievedOnce, TypeOK
    <2>4. RetrievedOnce'
      BY <1>7, <2>3 DEF ReadUpdate, RetrievedOnce, Retrieving, TypeOK
    <2>5. AskedAsListed' /\ Limits'
      BY <1>7, <2>3 DEF ReadUpdate, AskedAsListed, Fault,
         FailsOnlyOnFaultUnlessJoiningDelayed, FailsOnlyOnFault, PanicsOnlyOnFault, TypeOK
    <2> QED BY <2>1, <2>4, <2>5
  <1> QED BY <1>1, <1>2, <1>3, <1>4, <1>5, <1>6, <1>7 DEF Subscriber

LEMMA StutterStep ==
  ASSUME IInv, UNCHANGED vars
  PROVE  IInv'
  BY DEF IInv, vars, confVars, annVars, subVars, pubVars, TypeOK, RetrievedOnce, Retrieving,
     AskedAsListed, FailsOnlyOnFaultUnlessJoiningDelayed, FailsOnlyOnFault,
     PanicsOnlyOnFault

\* IInv holds in every reachable state.
THEOREM Invariance == Spec => []IInv
  <1>1. IInv /\ [Next]_vars => IInv'
    BY PublisherStep, SubscriberStep, StutterStep DEF Next
  <1> QED BY InitInvariant, <1>1, PTL DEF Spec

\* The subscriber applies the one catalog object once, in every catalog mode and
\* for every interleaving of FETCH, subscription and background reader.
THEOREM CatalogAppliedOnce == Spec => []AppliedOnce
  <1>1. IInv => AppliedOnce
    BY DEF IInv, RetrievedOnce, AppliedOnce
  <1> QED BY Invariance, <1>1, PTL

\* Of all clients and catalog modes, only the joining client of a publisher with a
\* catalog delay gives up although no call failed, and none uses a nil catalog.
THEOREM OnlyJoiningDelayedFails == Spec => []EndsOnlyOnFault
  <1>1. IInv => EndsOnlyOnFault
    BY DEF IInv, EndsOnlyOnFault
  <1> QED BY Invariance, <1>1, PTL
===============================================================================
