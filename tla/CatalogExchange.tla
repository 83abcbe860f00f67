---------------------------- MODULE CatalogExchange ----------------------------
(***************************************************************************)
(* How a subscriber gets from a fresh session to its media tracks: the     *)
(* publisher's SUBSCRIBE and FETCH handlers and its PublishCatalog         *)
(* goroutine (internal/pub/pub.go), and the subscriber's three ways of     *)
(* retrieving the catalog followed by its track subscriptions              *)
(* (internal/sub/sub.go, handle).  Other clients may send the same         *)
(* handlers any request.  Meanwhile the publisher announces its            *)
(* namespaces, one after the other, to a client that answers by its own    *)
(* rules or only wants to discover them.                                   *)
(*                                                                         *)
(* A catalog is the function from the names it lists to their packaging.   *)
(* Failures of the transport and of the outputs are choices, recorded in   *)
(* fault.                                                                  *)
(***************************************************************************)
EXTENDS Naturals, Sequences

CONSTANTS
  Catalogs,       \* namespace -> its catalog, for the namespaces that have one
  MoqMI,          \* the namespaces with packaging "moqmi"
  MoqMITracks,    \* the names a MoqMITrackMap binds
  Subtitles,      \* the asset's subtitle tracks
  LOC,            \* the namespaces with packaging "loc"
  Names,          \* the names clients ask for
  Configs,        \* pairs of a catalog mode and whether CatalogDelay > 0
  Namespaces      \* the publisher's namespaces in the order of its configuration

Interop == "interop"
Strangers == {Interop, "unknown"}
WithCatalog == DOMAIN Catalogs

ASSUME ConfigAssumption ==
  /\ Configs \subseteq ({"joining", "subscribe", "fetch"} \X BOOLEAN)
  /\ \A n \in WithCatalog \cup MoqMI : \E i \in DOMAIN Namespaces : Namespaces[i] = n
  /\ \A i \in DOMAIN Namespaces : Namespaces[i] \in WithCatalog \cup MoqMI
  /\ LOC \subseteq WithCatalog /\ MoqMI \cap WithCatalog = {}
  /\ (MoqMI \cup WithCatalog) \cap Strangers = {}
  /\ \A n \in WithCatalog :
       /\ DOMAIN Catalogs[n] # {}
       /\ \A t \in DOMAIN Catalogs[n] : Catalogs[n][t] \in {"cmaf", "locmaf", "loc"}
       /\ n \in LOC <=> \A t \in DOMAIN Catalogs[n] : Catalogs[n][t] = "loc"

VARIABLES
  mode,       \* the subscriber's CatalogMode
  delayed,    \* the publisher's CatalogDelay > 0
  ns,         \* the subscriber's namespace
  answers,    \* which announcements the client takes: "own", "any" or "discover"
  pc,         \* where the subscriber's handle stands
  largest,    \* LargestLocation of the catalog subscription; <<>> when absent
  catalog,    \* h.catalog; <<>> is nil
  applied,    \* history: how many catalog objects were made the catalog
  reader,     \* the background reader of the catalog subscription
  task,       \* the publisher's PublishCatalog goroutine for this subscriber
  onSub,      \* objects on the catalog subscription, by location
  onFetch,    \* objects on the fetch stream
  wanted,     \* the tracks still to be subscribed to
  served,     \* history: the media subscription accepted last, and what publishes it
  announcing, \* Handle: the namespace to announce next; 0 when Handle has returned
  known,      \* the namespaces the client was told of and took
  fault       \* history: a call failed, or the user's track names match nothing

subVars == <<pc, largest, catalog, applied, reader, wanted>>
pubVars == <<task, onSub, onFetch, served>>
annVars == <<announcing, known>>
confVars == <<mode, delayed, ns, answers>>
vars == <<confVars, subVars, pubVars, annVars, fault>>

CatalogLocation == <<0, 0>>

-------------------------------------------------------------------------------
\* locationLess and locationInFetchRange.
LocationLess(a, b) == IF a[1] # b[1] THEN a[1] < b[1] ELSE a[2] < b[2]

LocationInHalfOpenRange(loc, start, end) == ~LocationLess(loc, start) /\ LocationLess(loc, end)
LocationInFetchRange(loc, start, end) ==
  /\ ~LocationLess(loc, start)
  /\ IF end[2] = 0 THEN loc[1] <= end[1] ELSE LocationLess(loc, end)

\* afterLocation: the object lies strictly after loc.
NotBeforeLocation(o, loc) == ~LocationLess(o, loc)
AfterLocation(o, loc) == IF o[1] # loc[1] THEN o[1] > loc[1] ELSE o[2] > loc[2]

\* The subscribe handler's answer: what publishes the track, or "reject".
\* Subtitle tracks are looked up in the asset before the namespace's catalog is.
SubscribeReply(n, t) ==
  IF n = Interop THEN "nothing"
  ELSE IF n \notin MoqMI \cup WithCatalog THEN "reject"
  ELSE IF n \in MoqMI
       THEN (IF t # "catalog" /\ t \in MoqMITracks THEN "PublishMoqMITrack" ELSE "reject")
  ELSE IF t = "catalog" THEN "PublishCatalog"
  ELSE IF t \in Subtitles THEN "PublishSubtitleTrack"
  ELSE IF t \notin DOMAIN Catalogs[n] THEN "reject"
  ELSE IF n \in LOC THEN "loc" ELSE Catalogs[n][t]

\* The fetch handler serves nothing but a catalog.
FetchAccepted(n, t) == n \in WithCatalog /\ t = "catalog"

Serve(n, t) ==
  served' = IF SubscribeReply(n, t) \in {"reject", "nothing", "PublishCatalog"}
            THEN served ELSE <<n, t, SubscribeReply(n, t)>>

-------------------------------------------------------------------------------
Init ==
  /\ \E c \in Configs : mode = c[1] /\ delayed = c[2]
  /\ ns \in WithCatalog \cup MoqMI \cup {"unknown"}
  /\ answers \in {"own", "any", "discover"}
  /\ pc = IF answers = "discover" THEN "discover" ELSE "start"
  /\ announcing = 1 /\ known = {}
  /\ largest = <<>> /\ catalog = <<>> /\ applied = 0
  /\ reader = "off" /\ task = "off"
  /\ onSub = {} /\ onFetch = {}
  /\ wanted = <<>> /\ served = <<>>
  /\ fault = FALSE

\* The retrieval or a subscription failed: handle closes the connection.
Fail == pc' = "failed"

\* A call outside the code under study fails.
Fault == fault' = TRUE

-------------------------------------------------------------------------------
(***************************************************************************)
(* The publisher.                                                          *)
(***************************************************************************)

\* Mutant: the largest location is reported only once the catalog was written.
AcceptWithoutLocation ==
  /\ largest' = <<>>
  /\ task' = IF delayed THEN "delay" ELSE "open"

\* The handler accepts the catalog subscription and starts PublishCatalog.
\* Without a delay it reports {0,0} as the largest location.
AcceptCatalogSubscription ==
  /\ largest' = IF delayed THEN <<>> ELSE CatalogLocation
  /\ task' = IF delayed THEN "delay" ELSE "open"

\* PublishCatalog: the delay passes, the subgroup is opened, written, closed.
PublishCatalog ==
  /\ \/ task = "delay" /\ task' = "open" /\ UNCHANGED <<onSub, fault>>
     \/ /\ task = "open"
        /\ \/ task' = "write" /\ UNCHANGED <<onSub, fault>>
           \/ task' = "ended" /\ Fault /\ UNCHANGED onSub
     \/ /\ task = "write"
        /\ \/ task' = "close" /\ onSub' = onSub \cup {CatalogLocation} /\ UNCHANGED fault
           \/ task' = "ended" /\ Fault /\ UNCHANGED onSub
     \/ /\ task = "close" /\ task' = "ended"
        /\ Fault \/ UNCHANGED fault
        /\ UNCHANGED onSub
  /\ UNCHANGED <<confVars, annVars, subVars, onFetch, served>>

\* The fetch handler accepted: it writes the catalog if the range covers it.
ServeFetch(start, end) ==
  IF LocationInFetchRange(CatalogLocation, start, end)
  THEN \/ onFetch' = {CatalogLocation} /\ UNCHANGED fault
       \/ UNCHANGED onFetch /\ Fault
  ELSE UNCHANGED <<onFetch, fault>>

\* Any other client subscribes to anything.
OtherSubscribe ==
  /\ \E n \in WithCatalog \cup MoqMI \cup Strangers, t \in Names : Serve(n, t)
  /\ UNCHANGED <<confVars, annVars, subVars, task, onSub, onFetch, fault>>

\* The client's answer to an announcement (getHandler of the subscriber).
AcceptsOwnOnly(n) == n = ns
Accepts(n) == answers \in {"any", "discover"} \/ n = ns

\* Handle announces its namespaces, the interop namespace last, and waits for each
\* answer; a rejected announcement ends it, except that of the interop namespace.
Announcements == Append(Namespaces, Interop)
Announce ==
  /\ announcing \in DOMAIN Announcements
  /\ LET n == Announcements[announcing]
     IN  \/ /\ Accepts(n)
            /\ known' = known \cup {n} /\ announcing' = announcing + 1
            /\ UNCHANGED fault
         \/ /\ ~Accepts(n)
            /\ announcing' = IF n = Interop THEN announcing + 1 ELSE 0
            /\ UNCHANGED <<known, fault>>
         \/ /\ Fault
            /\ announcing' = IF n = Interop THEN announcing + 1 ELSE 0
            /\ UNCHANGED known
  /\ UNCHANGED <<confVars, subVars, pubVars>>

-------------------------------------------------------------------------------
(***************************************************************************)
(* The subscriber.                                                         *)
(***************************************************************************)

\* joiningCatalog and subscribeToCatalog subscribe to the catalog track.
\* joiningCatalog gives up when the subscription reports no content.
SubscribeCatalog ==
  /\ pc = "start" /\ mode \in {"joining", "subscribe"}
  /\ \/ /\ SubscribeReply(ns, "catalog") = "reject"
        /\ Fail /\ UNCHANGED <<largest, task, fault>>
     \/ /\ SubscribeReply(ns, "catalog") = "PublishCatalog"
        /\ \/ /\ AcceptCatalogSubscription
              /\ UNCHANGED fault
              /\ pc' = CASE mode = "subscribe" -> "readSub"
                         [] mode = "joining" /\ largest' = <<>> -> "failed"
                         [] OTHER -> "fetch"
           \/ Fail /\ Fault /\ UNCHANGED <<largest, task>>
  /\ UNCHANGED <<confVars, annVars, catalog, applied, reader, wanted, onSub, onFetch, served>>

\* The joining FETCH asks for the group of largest up to largest, the
\* standalone FETCH of fetchCatalog for everything.
FetchCatalog ==
  /\ \/ pc = "fetch"
     \/ pc = "start" /\ mode = "fetch"
  /\ \/ ~FetchAccepted(ns, "catalog") /\ Fail /\ UNCHANGED <<onFetch, fault>>
     \/ FetchAccepted(ns, "catalog") /\ Fail /\ Fault /\ UNCHANGED onFetch
     \/ /\ FetchAccepted(ns, "catalog")
        /\ pc' = "readFetch"
        /\ IF mode = "joining"
           THEN ServeFetch(<<largest[1], 0>>, <<largest[1], largest[2] + 1>>)
           ELSE ServeFetch(<<0, 0>>, <<0, 0>>)
  /\ UNCHANGED <<confVars, annVars, largest, catalog, applied, reader, wanted, task, onSub, served>>

\* The object read becomes the catalog; parsing it or writing it out may fail.
Apply ==
  /\ catalog' = Catalogs[ns]
  /\ applied' = applied + 1

\* The track ends before its first object: fetchCatalog and subscribeToCatalog
\* report success although there is no catalog.
EndOfTrack ==
  /\ pc' = "select"
  /\ Fault
  /\ UNCHANGED <<catalog, applied, reader>>

\* The first object of the fetch stream.  A fetch stream without one blocks the
\* reader for good; only the end of the session gets it out.
ReadFetch ==
  /\ pc = "readFetch"
  /\ \/ /\ onFetch # {}
        /\ Apply
        /\ onFetch' = {}
        /\ pc' = "select"
        /\ reader' = IF mode = "joining" THEN "reading" ELSE "off"
        /\ UNCHANGED fault
     \/ Fail /\ Fault /\ UNCHANGED <<catalog, applied, onFetch, reader>>
     \/ mode = "fetch" /\ EndOfTrack /\ UNCHANGED onFetch
  /\ UNCHANGED <<confVars, annVars, largest, wanted, task, onSub, served>>

\* The first object of the subscription.
ReadSubscription ==
  /\ pc = "readSub"
  /\ \/ /\ onSub # {}
        /\ Apply
        /\ onSub' = {}
        /\ pc' = "select"
        /\ reader' = "reading"
        /\ UNCHANGED fault
     \/ Fail /\ Fault /\ UNCHANGED <<catalog, applied, onSub, reader>>
     \/ EndOfTrack /\ UNCHANGED onSub
  /\ UNCHANGED <<confVars, annVars, largest, wanted, task, onFetch, served>>

\* The background reader: joiningCatalog skips what the fetch covered,
\* subscribeToCatalog takes every object as an update.
ReadUpdate ==
  /\ reader = "reading"
  /\ \/ \E o \in onSub :
          /\ onSub' = onSub \ {o}
          /\ IF mode = "joining" /\ ~AfterLocation(o, largest)
             THEN UNCHANGED <<catalog, applied>> ELSE Apply
          /\ UNCHANGED <<reader, fault>>
     \/ reader' = "off" /\ Fault /\ UNCHANGED <<catalog, applied, onSub>>
  /\ UNCHANGED <<confVars, annVars, pc, largest, wanted, task, onFetch, served>>

\* handle picks at most one track per role from the catalog, a video track with
\* its dependencies in front; without a match it closes the connection.  It
\* reads the catalog without a check, so a nil catalog is a panic.
SelectTracks ==
  /\ pc = "select"
  /\ \/ \E s \in {<<t>> : t \in DOMAIN catalog}
              \cup {p \in (DOMAIN catalog) \X (DOMAIN catalog) : p[1] # p[2]} :
          wanted' = s /\ pc' = "media" /\ UNCHANGED fault
     \/ catalog # <<>> /\ Fail /\ Fault /\ UNCHANGED wanted
     \/ catalog = <<>> /\ pc' = "panic" /\ UNCHANGED <<wanted, fault>>
  /\ UNCHANGED <<confVars, annVars, largest, catalog, applied, reader, pubVars>>

\* subscribeAndRead, track by track.
SubscribeMedia ==
  /\ pc = "media"
  /\ \/ /\ wanted = <<>> /\ pc' = "playing"
        /\ UNCHANGED <<wanted, served, fault>>
     \/ /\ wanted # <<>>
        /\ \/ /\ SubscribeReply(ns, Head(wanted)) # "reject"
              /\ Serve(ns, Head(wanted))
              /\ wanted' = Tail(wanted)
              /\ UNCHANGED <<pc, fault>>
           \/ /\ SubscribeReply(ns, Head(wanted)) = "reject"
              /\ Fail /\ UNCHANGED <<wanted, served, fault>>
           \/ Fail /\ Fault /\ UNCHANGED <<wanted, served>>
  /\ UNCHANGED <<confVars, annVars, largest, catalog, applied, reader, task, onSub, onFetch>>

Subscriber ==
  SubscribeCatalog \/ FetchCatalog \/ ReadFetch \/ ReadSubscription \/ SelectTracks \/ SubscribeMedia

Next == Subscriber \/ ReadUpdate \/ PublishCatalog \/ OtherSubscribe \/ Announce

Spec == Init /\ [][Next]_vars

\* Every goroutine that can run does, and the delay of the catalog passes.  A
\* failure is never due: nothing rescues a reader that waits for an object.
FairSpec ==
  /\ Spec
  /\ WF_vars(Subscriber /\ UNCHANGED fault) /\ WF_vars(PublishCatalog /\ UNCHANGED fault)
  /\ WF_vars(Announce /\ UNCHANGED fault)

-------------------------------------------------------------------------------
\* The one catalog object becomes the catalog once: when it arrives on the
\* subscription as well as by FETCH, joiningCatalog drops the second copy.
AppliedOnce == applied <= 1

\* A client fails only when something under it fails or it asks a namespace
\* that has no catalog: the publisher's answers suffice for every catalog mode.
FailsOnlyOnFault == pc = "failed" => fault \/ ns \notin WithCatalog

\* The same with the one client left out for which it does not hold: one that
\* joins a publisher with a catalog delay.
FailsOnlyOnFaultUnlessJoiningDelayed == ~(mode = "joining" /\ delayed) => FailsOnlyOnFault

\* handle uses a nil catalog only after the transport ended the catalog track
\* without an object.
PanicsOnlyOnFault == pc = "panic" => fault

\* What the publisher reports at SUBSCRIBE, what its FETCH handler serves and
\* what each of the three ways of retrieving the catalog waits for fit together:
\* in every order of their steps the subscriber reaches its media subscriptions
\* with a catalog in hand, and neither gives up nor uses a catalog it does not
\* have, unless a call failed, the namespace has no catalog, or it joins a
\* publisher with a catalog delay.
EndsOnlyOnFault == FailsOnlyOnFaultUnlessJoiningDelayed /\ PanicsOnlyOnFault

\* A client of a namespace with a catalog ends up subscribed to its media, unless
\* a failure below stops it: also when it turns an announcement down and Handle
\* has returned.
EventuallyPlaying ==
  <>(pc \in {"playing", "discover"} \/ fault \/ ns \notin WithCatalog)

\* "After session establishment, the server announces all configured namespaces":
\* to a client that takes every announcement.  (Any other client ends Handle with
\* its first rejection.)
EverythingAnnounced ==
  <>(\/ known = {Announcements[i] : i \in DOMAIN Announcements}
     \/ fault \/ answers = "own")

-------------------------------------------------------------------------------
(***************************************************************************)
(* The inductive invariant behind AppliedOnce and EndsOnlyOnFault.         *)
(***************************************************************************)

TypeOK ==
  /\ mode \in {"joining", "subscribe", "fetch"} /\ delayed \in BOOLEAN
  /\ ns \in WithCatalog \cup MoqMI \cup {"unknown"}
  /\ answers \in {"own", "any", "discover"}
  /\ pc \in {"start", "discover", "fetch", "readFetch", "readSub", "select", "media", "playing",
            "failed", "panic"}
  /\ largest \in {<<>>, CatalogLocation}
  /\ applied \in Nat
  /\ reader \in {"off", "reading"}
  /\ task \in {"off", "delay", "open", "write", "close", "ended"}
  /\ onSub \subseteq {CatalogLocation} /\ onFetch \subseteq {CatalogLocation}
  /\ announcing \in Nat
  /\ fault \in BOOLEAN

Retrieving == pc \in {"start", "fetch", "readFetch", "readSub"}

\* The catalog is applied when its retrieval ends and not before; what its
\* background reader may still find then is not taken for an update.
RetrievedOnce ==
  /\ Retrieving => applied = 0 /\ reader = "off"
  /\ applied <= 1
  /\ reader = "reading" => applied = 1 /\ mode \in {"joining", "subscribe"}
  /\ task \in {"off", "delay", "open", "write"} => onSub = {}
  /\ pc = "start" => task = "off"
  /\ pc = "readSub" => mode = "subscribe"
  /\ pc = "fetch" => mode = "joining"
  /\ pc = "readFetch" => mode # "subscribe"
  /\ mode = "subscribe" /\ applied = 1 => onSub = {} /\ task \in {"close", "ended"}
  /\ mode = "joining" /\ (pc \in {"fetch", "readFetch"} \/ reader = "reading") =>
       largest = CatalogLocation

\* What is requested exists: only a namespace with a catalog is asked for more than
\* its catalog, and only for tracks its catalog lists.
AskedAsListed ==
  /\ task # "off" \/ onFetch # {} \/ pc \in {"fetch", "readFetch", "readSub", "select", "media"} =>
       ns \in WithCatalog
  /\ catalog # <<>> => ns \in WithCatalog /\ catalog = Catalogs[ns]
  /\ pc = "select" => catalog # <<>> \/ fault
  /\ pc = "media" => catalog # <<>> /\ wanted \in Seq(DOMAIN catalog)

IInv ==
  /\ TypeOK /\ RetrievedOnce /\ AskedAsListed
  /\ FailsOnlyOnFaultUnlessJoiningDelayed /\ PanicsOnlyOnFault
================================================================================
