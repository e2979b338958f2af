--------------------------- MODULE EffectsProofs ---------------------------
(***************************************************************************)
(* What requests, commands and the editor's session guarantee for every    *)
(* policy, every set of secrets, every server that answers, every tree of  *)
(* processes and every number of servers that die.  Each of the three has  *)
(* an invariant of its own.                                                *)
(***************************************************************************)
EXTENDS Effects, TLAPS

-----------------------------------------------------------------------------
(* A request.  Its headers hold what the caller gave, what was resolved    *)
(* and what the redactor knows; what was resolved the redactor knows, but  *)
(* for short values.                                                       *)
Redactable ==
  /\ cache \ ShortRef \subseteq known
  /\ \A h \in HeaderName : headers[h] \subseteq {Api!Caller} \cup cache \cup known
  /\ step = "secrets" =>
       \A i \in 1..got : Api!Ref(Api!Head1, Api!Fields(Api!Head1)[i]) \in cache

(* What the servers were sent is what the headers held.                    *)
Handed == \A i \in DOMAIN sent : sent[i].values \subseteq {Api!Caller} \cup cache \cup known

(* What is about to be fetched was checked.                                *)
Vetted == step = "fetch" => Api!Checked(vetted) /\ vetted \in Api!Addresses(url.host)

(* The origin that was asked for was left on the way to the i-th request.  *)
Left(i) == \E j \in 1..i : Api!Origin(sent[j].url) # Api!Origin(sent[1].url)
Bare == \A h \in Api!CredentialHeader \cap HeaderName : headers[h] = {}

(* A request that left, or is about to leave, carries no credentials.      *)
Stripped ==
  /\ step \in {"answer", "body"} /\ Left(Len(sent)) => Bare
  /\ step \in {"policy", "fetch"} /\ sent # <<>> =>
       (Left(Len(sent)) \/ Api!Origin(url) # Api!Origin(sent[1].url) => Bare)

(* Hops and redirects take turns.                                          *)
Listed(n) == \A i \in 1..n : redirects[i] = sent[i + 1].url
Hops ==
  /\ sent \in Seq({sent[i] : i \in DOMAIN sent})
  /\ redirects \in Seq({redirects[i] : i \in DOMAIN redirects})
  /\ Len(sent) <= MaxRedirects + 1
  /\ step \in {"start", "prompt", "secrets"} => sent = <<>> /\ redirects = <<>>
  /\ step \in {"policy", "fetch"} =>
       /\ Len(redirects) = Len(sent) /\ Len(sent) <= MaxRedirects
       /\ sent # <<>> => Listed(Len(sent) - 1) /\ url = redirects[Len(sent)]
  /\ step \in {"answer", "body"} =>
       /\ Len(redirects) + 1 = Len(sent)
       /\ Listed(Len(redirects)) /\ url = sent[Len(sent)].url

Read == /\ total \in 0..Cap /\ lost \in Nat /\ got \in Nat
        /\ ~truncated => lost = 0
        /\ step \in {"start", "prompt"} => got = 0

ApiInv ==
  /\ DOMAIN headers = HeaderName
  /\ outcome = "none" <=> step # "done"
  /\ step \in {"secrets", "policy", "fetch", "answer", "body"} => granted
  /\ Redactable /\ Handed /\ Vetted /\ Stripped /\ Hops /\ Read
  /\ Api!CredentialsStayHome /\ Api!EveryHopIsChecked
  /\ Api!ExchangeTellsNoSecret

-----------------------------------------------------------------------------
(* A command.  What was reported is settled, and nobody is left to start   *)
(* another process.                                                        *)
CommandInv ==
  /\ result = "none" <=> state # "settled"
  /\ result \in {"ok", "timeout", "aborted"} => Cmd!Child \notin alive
  /\ Cmd!CommandOutcome

-----------------------------------------------------------------------------
(* A session.                                                              *)
Status == {"absent", "proposed", "applied", "reverted", "discarded"}
Kind == {"event", "ran", "failed", "decided", "refused", "list"}
Carried == [kind : Kind, of : Servers, patches : [Patch -> Status]]

SessionTypeOK ==
  /\ process \in [Servers -> {"unborn", "alive", "asked", "gone"}]
  /\ startup \in [Servers -> {"none", "handshake", "opening", "over"}]
  /\ server \in Servers \cup {0} /\ client \in {0, server} /\ project \in Servers \cup {0}
  /\ failures \in Nat /\ disposed \in BOOLEAN
  /\ registry \in [Patch -> Status]
  /\ wire \in Seq(Carried) /\ asks \in Nat

(* The session's server was spawned.                                       *)
Supervised ==
  /\ server # 0 => process[server] # "unborn"
  /\ server = 0 => project = 0 /\ failures = 0

(* A server runs while its predecessors did not die too often.             *)
Counting ==
  /\ early = failures
  /\ failures <= MaxFailures + 1
  /\ server # 0 /\ process[server] = "alive" => failures <= MaxFailures

(* What is under way comes from the client, and the view from it or from a *)
(* server before it.                                                       *)
FromClient ==
  /\ \A i \in DOMAIN wire : client # 0 /\ wire[i].of = client
  /\ view.of # 0 => view.of \in Servers /\ process[view.of] # "unborn"

(* These patches are those of the registry, but for what nobody told of.   *)
Current(patches) == \A p \in Patch \ unheard : patches[p] = registry[p]

(* What changes in a step goes unheard.                                    *)
Silent ==
  /\ registry' \in [Patch -> Status] /\ unheard \subseteq unheard'
  /\ \A p \in Patch \ unheard' : registry'[p] = registry[p]

LastList(i) == /\ wire[i].kind = "list"
               /\ \A j \in DOMAIN wire : j > i => wire[j].kind # "list"

(* Unless the session is going to ask again, the last list it was sent is  *)
(* current, or the one it shows when none is under way.                    *)
Refreshing == asks > 0 \/ \E i \in DOMAIN wire : Editor!AsksAgain(wire[i].kind)
Followed ==
  client # 0 /\ ~Refreshing =>
    /\ \A i \in DOMAIN wire : LastList(i) => Current(wire[i].patches)
    /\ (\A i \in DOMAIN wire : wire[i].kind # "list") /\ view.of = client => Current(view.patches)

SessionInv ==
  /\ SessionTypeOK /\ Supervised /\ Counting /\ FromClient /\ Followed
  /\ Editor!OneServer /\ Editor!ProjectIsServed

IInv ==
  /\ part \in {"api", "command", "session"}
  /\ part = "api" => ApiInv
  /\ part = "command" => CommandInv
  /\ part = "session" => SessionInv

-----------------------------------------------------------------------------
(* Commands.                                                               *)
LEMMA CommandInit == Cmd!Init => CommandInv
BY DEF Cmd!Init, CommandInv, Cmd!CommandOutcome, Cmd!Child

(* A result is built from what its process did, and stays so.              *)
LEMMA CommandNext ==
  ASSUME CommandInv, Cmd!Next
  PROVE  CommandInv'
<1> USE DEF CommandInv, Cmd!CommandOutcome, Cmd!Writers, Cmd!Settle, Cmd!tree, Cmd!flags
<1>1. CASE Cmd!Refuse
  BY <1>1 DEF Cmd!Refuse
<1>2. CASE Cmd!Spawn
  BY <1>2 DEF Cmd!Spawn
<1>3. CASE Cmd!SpawnFails
  BY <1>3 DEF Cmd!SpawnFails
<1>4. ASSUME NEW p, Cmd!Fork(p) PROVE CommandInv'
  BY <1>4 DEF Cmd!Fork
<1>5. ASSUME NEW p, Cmd!Exit(p) PROVE CommandInv'
  BY <1>5 DEF Cmd!Exit
<1>6. CASE Cmd!TimerFires
  BY <1>6 DEF Cmd!TimerFires, Cmd!Terminate
<1>7. CASE Cmd!Abort
  BY <1>7 DEF Cmd!Abort, Cmd!Terminate
<1>8. CASE Cmd!Escalate
  BY <1>8 DEF Cmd!Escalate, Cmd!Killed
<1>9. CASE Cmd!Close
  BY <1>9 DEF Cmd!Close, Cmd!Closed
<1>10. CASE Cmd!ServerExits
  BY <1>10 DEF Cmd!ServerExits
<1> QED
  BY <1>1, <1>2, <1>3, <1>4, <1>5, <1>6, <1>7, <1>8, <1>9, <1>10 DEF Cmd!Next

-----------------------------------------------------------------------------
(* The session.                                                            *)
(* A server that is spawned was not there before.                          *)
LEMMA NextIsUnborn ==
  ASSUME Editor!CanSpawn
  PROVE  Editor!Next1 \in Servers /\ process[Editor!Next1] = "unborn"
BY DEF Editor!CanSpawn, Editor!Next1, Editor!Unborn

(* Before it is activated the session runs nothing and shows nothing.      *)
LEMMA SessionInit == Editor!Init => SessionInv
<1> SUFFICES ASSUME Editor!Init PROVE SessionInv
  OBVIOUS
<1>3. SessionTypeOK
  <2>1. wire \in Seq(Carried)
    BY DEF Editor!Init
  <2>2. registry \in [Patch -> Status]
    BY DEF Editor!Init, Editor!Empty, Status
  <2> QED
    BY <2>1, <2>2 DEF Editor!Init, SessionTypeOK
<1>4. Supervised
  BY DEF Supervised, Editor!Init
<1>5. Counting
  BY EffectsAssumption DEF Counting, Editor!Init, Editor!SessionAssumption
<1>6. FromClient /\ Followed
  BY DEF FromClient, Followed, Editor!Init
<1>7. Editor!OneServer /\ Editor!ProjectIsServed
  BY DEF Editor!OneServer, Editor!ProjectIsServed, Editor!Init
<1> QED
  BY <1>3, <1>4, <1>5, <1>6, <1>7 DEF SessionInv

(* A server is spawned in place of one that does not run any more, and     *)
(* nothing is under way from it.                                           *)
LEMMA SpawnedKeeps ==
  ASSUME SessionInv, ~disposed, NEW left \in [Servers -> {"unborn", "alive", "asked", "gone"}],
         \A s \in Servers : left[s] # "alive" /\ (left[s] = "unborn" <=> process[s] = "unborn"),
         Editor!Spawned(left), failures' \in Nat, failures' <= MaxFailures, early' = failures',
         project' = 0, disposed' = disposed, view' = view,
         wire' \in Seq(Carried), DOMAIN wire' = {}, asks' \in Nat, registry' \in [Patch -> Status]
  PROVE  SessionInv'
<1> DEFINE n == Editor!Next1
<1>1. n \in Servers /\ process[n] = "unborn"
  BY NextIsUnborn DEF Editor!Spawned
<1>2. /\ server' = n /\ client' = n
      /\ \A s \in Servers : process'[s] = IF s = n THEN "alive" ELSE left[s]
      /\ process' \in [Servers -> {"unborn", "alive", "asked", "gone"}]
      /\ startup' \in [Servers -> {"none", "handshake", "opening", "over"}]
  BY <1>1 DEF Editor!Spawned, SessionInv, SessionTypeOK
<1>3. n # 0 /\ MaxFailures \in Nat
  BY <1>1, EffectsAssumption DEF Editor!SessionAssumption
<1> HIDE DEF n
<1>4. SessionTypeOK'
  BY <1>1, <1>2 DEF SessionTypeOK, SessionInv
<1>5. Supervised'
  BY <1>1, <1>2, <1>3 DEF Supervised
<1>6. Counting'
  BY <1>1, <1>2, <1>3 DEF Counting
<1>7. FromClient'
  BY <1>1, <1>2 DEF FromClient, SessionInv
<1>8. Followed'
  BY <1>1, <1>2, <1>3 DEF Followed, FromClient, SessionInv
<1>9. Editor!OneServer' /\ Editor!ProjectIsServed'
  BY <1>1, <1>2 DEF Editor!OneServer, Editor!ProjectIsServed
<1> QED
  BY <1>4, <1>5, <1>6, <1>7, <1>8, <1>9 DEF SessionInv

(* The server the session lets go of does not run any more.                *)
LEMMA StoppedLetsGo ==
  ASSUME SessionInv
  PROVE  /\ Editor!Stopped \in [Servers -> {"unborn", "alive", "asked", "gone"}]
         /\ \A s \in Servers : Editor!Stopped[s] # "alive"
         /\ \A s \in Servers : Editor!Stopped[s] = "unborn" <=> process[s] = "unborn"
         /\ \A s \in Servers : Editor!Stopped[s] = process[s] \/ s = server
BY EffectsAssumption DEF SessionInv, SessionTypeOK, Supervised, Editor!OneServer, Editor!Stopped,
   Editor!SessionAssumption

(* What a client that is gone leaves: nothing under way.                   *)
LEMMA Unplugged ==
  ASSUME Editor!Unplug
  PROVE  /\ wire' \in Seq(Carried) /\ DOMAIN wire' = {} /\ asks' = 0
         /\ registry' \in [Patch -> Status]
<1>1. wire' = <<>> /\ asks' = 0 /\ registry' = [p \in Patch |-> "absent"]
  BY DEF Editor!Unplug, Editor!Empty
<1> QED
  BY <1>1 DEF Status

(* Activation spawns a server and asks for the list.                       *)
LEMMA ActivateKeeps ==
  ASSUME SessionInv, Editor!Activate
  PROVE  SessionInv'
<1>1. server = 0 /\ ~disposed /\ Editor!Spawned(process)
  BY DEF Editor!Activate
<1>2. UNCHANGED <<project, failures, disposed, early, registry, view, asks, wire>>
  BY DEF Editor!Activate, Editor!reviewing
<1>3. project = 0 /\ failures = 0 /\ early = failures /\ client = 0
  BY <1>1 DEF SessionInv, Supervised, Counting, SessionTypeOK
<1>4. DOMAIN wire = {}
  BY <1>3 DEF SessionInv, FromClient
<1>5. \A s \in Servers : process[s] # "alive"
  BY <1>1, EffectsAssumption DEF SessionInv, Editor!OneServer, Editor!SessionAssumption
<1>6. MaxFailures \in Nat
  BY EffectsAssumption DEF Editor!SessionAssumption
<1> QED
  BY <1>1, <1>2, <1>3, <1>4, <1>5, <1>6, SpawnedKeeps DEF SessionInv, SessionTypeOK

(* A restart stops the server and spawns another one.                      *)
LEMMA RestartKeeps ==
  ASSUME SessionInv, Editor!Restart
  PROVE  SessionInv'
<1>1. MaxFailures \in Nat
  BY EffectsAssumption DEF Editor!SessionAssumption
<1>2. /\ ~disposed /\ Editor!Spawned(Editor!Stopped) /\ Editor!Unplug
      /\ project' = 0 /\ failures' = 0 /\ early' = 0 /\ disposed' = disposed /\ view' = view
  BY DEF Editor!Restart
<1> QED
  BY <1>1, <1>2, StoppedLetsGo, Unplugged, SpawnedKeeps

(* A server that dies is started again, or given up for good.              *)
LEMMA DiesKeeps ==
  ASSUME SessionInv, NEW s \in Servers, Editor!Dies(s)
  PROVE  SessionInv'
<1> DEFINE gone == [process EXCEPT ![s] = "gone"]
<1>1. PICK healthy \in BOOLEAN :
        /\ failures' = Editor!Counted(healthy)
        /\ early' = IF healthy THEN 0 ELSE early + 1
        /\ project' = 0
        /\ \/ Editor!Allowed(healthy) /\ Editor!Spawned(gone)
           \/ /\ ~Editor!Allowed(healthy)
              /\ process' = gone
              /\ startup' = [startup EXCEPT ![s] = "over"]
              /\ client' = 0
              /\ UNCHANGED server
  BY DEF Editor!Dies
<1>2. /\ s = server /\ process[s] = "alive" /\ ~disposed /\ disposed' = disposed /\ view' = view
      /\ Editor!Unplug
  BY DEF Editor!Dies
<1>3. /\ failures \in Nat /\ early = failures /\ failures <= MaxFailures /\ MaxFailures \in Nat
      /\ s # 0
  BY <1>2, EffectsAssumption DEF SessionInv, SessionTypeOK, Counting, Editor!SessionAssumption
<1>4. /\ gone \in [Servers -> {"unborn", "alive", "asked", "gone"}]
      /\ \A t \in Servers : gone[t] = IF t = s THEN "gone" ELSE process[t]
      /\ \A t \in Servers : gone[t] # "alive" /\ (gone[t] = "unborn" <=> process[t] = "unborn")
  BY <1>2 DEF SessionInv, SessionTypeOK, Editor!OneServer
<1> HIDE DEF gone
<1>5. failures' \in Nat /\ early' = failures' /\ failures' <= MaxFailures + 1
  BY <1>1, <1>3 DEF Editor!Counted
<1>6. CASE Editor!Allowed(healthy) /\ Editor!Spawned(gone)
  <2>1. failures' <= MaxFailures
    BY <1>1, <1>3, <1>6 DEF Editor!Counted, Editor!Allowed
  <2> QED
    BY <1>1, <1>2, <1>4, <1>5, <1>6, <2>1, Unplugged, SpawnedKeeps
<1>7. CASE ~Editor!Allowed(healthy) /\ process' = gone /\ client' = 0 /\ UNCHANGED server
           /\ startup' = [startup EXCEPT ![s] = "over"]
  <2>1. SessionTypeOK'
    BY <1>1, <1>2, <1>4, <1>5, <1>7, Unplugged DEF SessionInv, SessionTypeOK
  <2>2. Supervised' /\ Counting'
    BY <1>1, <1>2, <1>3, <1>4, <1>5, <1>7 DEF Supervised, Counting
  <2>3. FromClient' /\ Followed'
    BY <1>2, <1>4, <1>7, Unplugged DEF SessionInv, FromClient, Followed
  <2>4. Editor!OneServer' /\ Editor!ProjectIsServed'
    BY <1>1, <1>4, <1>7 DEF Editor!OneServer, Editor!ProjectIsServed
  <2> QED
    BY <2>1, <2>2, <2>3, <2>4 DEF SessionInv
<1> QED
  BY <1>1, <1>6, <1>7

(* A session that is disposed of lets its server go.                       *)
LEMMA DisposeKeeps ==
  ASSUME SessionInv, Editor!Dispose
  PROVE  SessionInv'
<1>1. /\ disposed' = TRUE /\ process' = Editor!Stopped /\ client' = 0 /\ Editor!Unplug
      /\ UNCHANGED <<server, project, failures, early, view>>
      /\ startup' \in [Servers -> {"none", "handshake", "opening", "over"}]
  BY DEF Editor!Dispose, SessionInv, SessionTypeOK
<1>2. SessionTypeOK'
  BY <1>1, StoppedLetsGo, Unplugged DEF SessionInv, SessionTypeOK
<1>3. Supervised' /\ Counting'
  BY <1>1, StoppedLetsGo, EffectsAssumption DEF SessionInv, SessionTypeOK, Supervised, Counting, Editor!SessionAssumption
<1>4. FromClient' /\ Followed'
  BY <1>1, StoppedLetsGo, Unplugged DEF SessionInv, FromClient, Followed
<1>5. Editor!OneServer' /\ Editor!ProjectIsServed'
  BY <1>1, StoppedLetsGo DEF Editor!OneServer, Editor!ProjectIsServed
<1> QED
  BY <1>2, <1>3, <1>4, <1>5 DEF SessionInv

(* A start-up ends with the server ready, or with an error.                *)
LEMMA StartupKeeps ==
  ASSUME SessionInv, NEW s \in Servers, Editor!Handshake(s) \/ Editor!Opened(s)
  PROVE  SessionInv'
<1>1. /\ s = client /\ startup' \in [Servers -> {"none", "handshake", "opening", "over"}]
      /\ UNCHANGED <<process, server, client, disposed, registry, view, asks, wire, unheard>>
      /\ \/ project' = s /\ failures' = 0 /\ early' = 0
         \/ UNCHANGED <<project, failures, early>>
  BY DEF Editor!Handshake, Editor!Opened, Editor!reviewing, SessionInv, SessionTypeOK
<1>2. MaxFailures \in Nat /\ s # 0 /\ server = client
  BY <1>1, EffectsAssumption DEF Editor!SessionAssumption, SessionInv, SessionTypeOK
<1>3. SessionTypeOK'
  BY <1>1 DEF SessionInv, SessionTypeOK
<1>4. Supervised' /\ Counting'
  BY <1>1, <1>2 DEF SessionInv, Supervised, Counting
<1>5. FromClient' /\ Followed'
  BY <1>1 DEF SessionInv, FromClient, Followed, Refreshing, LastList, Current
<1>6. Editor!OneServer' /\ Editor!ProjectIsServed'
  BY <1>1 DEF SessionInv, Editor!OneServer, Editor!ProjectIsServed
<1> QED
  BY <1>3, <1>4, <1>5, <1>6 DEF SessionInv

(* A client that was let go of ends.                                       *)
LEMMA EndsKeeps ==
  ASSUME SessionInv, NEW s \in Servers, Editor!Ends(s)
  PROVE  SessionInv'
<1>1. /\ process[s] = "asked"
      /\ \A t \in Servers : process'[t] = IF t = s THEN "gone" ELSE process[t]
      /\ process' \in [Servers -> {"unborn", "alive", "asked", "gone"}]
      /\ UNCHANGED <<server, client, project, startup, failures, disposed, early, registry, view, asks, wire, unheard>>
  BY DEF Editor!Ends, Editor!reviewing, SessionInv, SessionTypeOK
<1>2. SessionTypeOK'
  BY <1>1 DEF SessionInv, SessionTypeOK
<1>3. Supervised' /\ Counting'
  BY <1>1 DEF SessionInv, SessionTypeOK, Supervised, Counting
<1>4. FromClient' /\ Followed'
  BY <1>1 DEF SessionInv, FromClient, Followed, Refreshing, LastList, Current
<1>5. Editor!OneServer' /\ Editor!ProjectIsServed'
  BY <1>1 DEF SessionInv, Editor!OneServer, Editor!ProjectIsServed
<1> QED
  BY <1>2, <1>3, <1>4, <1>5 DEF SessionInv

(* What the review of patches does not touch stands.                       *)
LEMMA ReviewFrame ==
  ASSUME SessionInv, UNCHANGED Editor!lifecycle
  PROVE  /\ Supervised' /\ Counting' /\ Editor!OneServer' /\ Editor!ProjectIsServed'
         /\ registry' \in [Patch -> Status] /\ wire' \in Seq(Carried) /\ asks' \in Nat => SessionTypeOK'
BY DEF SessionInv, SessionTypeOK, Supervised, Counting, Editor!OneServer, Editor!ProjectIsServed,
   Editor!lifecycle

(* Something is sent last.                                                 *)
LEMMA ToldAdds ==
  ASSUME SessionInv, NEW kind \in Kind, NEW patches \in [Patch -> Status], client # 0,
         Editor!Told(Editor!Message(kind, patches))
  PROVE  LET last == Len(wire) + 1
         IN /\ wire' \in Seq(Carried) /\ Len(wire) \in Nat
            /\ DOMAIN wire = 1..Len(wire) /\ DOMAIN wire' = 1..last
            /\ \A i \in DOMAIN wire : wire'[i] = wire[i]
            /\ wire'[last] = [kind |-> kind, of |-> client, patches |-> patches]
<1> DEFINE message == [kind |-> kind, of |-> client, patches |-> patches]
<1>1. message \in Carried /\ wire \in Seq(Carried)
  BY DEF SessionInv, SessionTypeOK, Carried
<1>2. wire' = Append(wire, message)
  BY DEF Editor!Told, Editor!Message
<1> HIDE DEF message
<1>3. /\ wire' \in Seq(Carried) /\ Len(wire) \in Nat
      /\ DOMAIN wire = 1..Len(wire) /\ DOMAIN wire' = 1..(Len(wire) + 1)
      /\ \A i \in DOMAIN wire : wire'[i] = wire[i]
      /\ wire'[Len(wire) + 1] = message
  BY <1>1, <1>2
<1> QED
  BY <1>3 DEF message

(* The session hears of a change of the registry, or what changes goes     *)
(* unheard.                                                                *)
LEMMA ToldKeeps ==
  ASSUME SessionInv, UNCHANGED Editor!lifecycle, view' = view, asks' = asks, client # 0,
         NEW kind \in Kind \ {"list"}, Editor!Told(Editor!Message(kind, Editor!Empty)),
         registry' \in [Patch -> Status], Editor!AsksAgain(kind) \/ Silent
  PROVE  SessionInv'
<1> DEFINE last == Len(wire) + 1
<1>1. Editor!Empty \in [Patch -> Status]
  BY DEF Editor!Empty, Status
<1>2. /\ wire' \in Seq(Carried) /\ Len(wire) \in Nat
      /\ DOMAIN wire = 1..Len(wire) /\ DOMAIN wire' = 1..last
      /\ \A i \in DOMAIN wire : wire'[i] = wire[i]
      /\ wire'[last] = [kind |-> kind, of |-> client, patches |-> Editor!Empty]
  BY <1>1, ToldAdds
<1>3. client' = client /\ process' = process
  BY DEF Editor!lifecycle
<1>4. SessionTypeOK' /\ Supervised' /\ Counting' /\ Editor!OneServer' /\ Editor!ProjectIsServed'
  BY <1>2, ReviewFrame DEF SessionInv, SessionTypeOK
<1>5. FromClient'
  BY <1>2, <1>3 DEF SessionInv, FromClient
<1>6. CASE Editor!AsksAgain(kind)
  <2>1. Refreshing'
    BY <1>2, <1>6 DEF Refreshing, Editor!AsksAgain
  <2> QED
    BY <1>4, <1>5, <2>1 DEF SessionInv, Followed
<1>7. CASE Silent
  <2>1. Refreshing => Refreshing'
    BY <1>2 DEF Refreshing, Editor!AsksAgain
  <2>2. \A i \in DOMAIN wire' : LastList(i)' => i \in DOMAIN wire /\ LastList(i)
    BY <1>2 DEF LastList
  <2>3. (\A i \in DOMAIN wire' : wire'[i].kind # "list") => \A i \in DOMAIN wire : wire[i].kind # "list"
    BY <1>2
  <2>4. Followed'
    BY <1>2, <1>3, <1>7, <2>1, <2>2, <2>3 DEF SessionInv, Followed, Current, Silent
  <2> QED
    BY <1>4, <1>5, <2>4 DEF SessionInv
<1> QED
  BY <1>6, <1>7

(* Nothing is sent, and what changes goes unheard: a call begins, is given *)
(* up, or is carried out when nobody waits for it.                         *)
LEMMA SilentKeeps ==
  ASSUME SessionInv, UNCHANGED Editor!lifecycle, UNCHANGED <<view, asks, wire>>, Silent
  PROVE  SessionInv'
<1>1. client' = client /\ process' = process
  BY DEF Editor!lifecycle
<1>2. SessionTypeOK' /\ Supervised' /\ Counting' /\ Editor!OneServer' /\ Editor!ProjectIsServed'
  BY ReviewFrame DEF SessionInv, SessionTypeOK, Silent
<1>3. FromClient'
  BY <1>1 DEF SessionInv, FromClient
<1>4. ASSUME NEW patches, Current(patches) PROVE Current(patches)'
  BY <1>4 DEF Current, Silent
<1>5. Followed'
  BY <1>1, <1>4 DEF SessionInv, Followed, Refreshing, LastList, Current
<1> QED
  BY <1>2, <1>3, <1>5 DEF SessionInv

LEMMA UnchangedIsSilent ==
  ASSUME SessionInv, UNCHANGED <<registry, unheard>>
  PROVE  Silent
BY DEF Silent, SessionInv, SessionTypeOK

(* A patch that changes in silence is counted among the unheard.           *)
LEMMA ChangeIsSilent ==
  ASSUME SessionInv, NEW p \in Patch, NEW status \in Status,
         Editor!Becomes(p, status), Editor!InSilence(p)
  PROVE  Silent
BY DEF Silent, SessionInv, SessionTypeOK, Editor!Becomes, Editor!InSilence

(* What the agent applies is heard of when its run ends well.              *)
LEMMA AgentAppliesKeeps ==
  ASSUME SessionInv, NEW p \in Patch, Editor!AgentApplies(p)
  PROVE  SessionInv'
<1>1. Editor!Becomes(p, "applied") /\ Editor!InSilence(p)
  BY DEF Editor!AgentApplies
<1>2. UNCHANGED Editor!lifecycle /\ UNCHANGED <<view, asks, wire>>
  BY DEF Editor!AgentApplies
<1>3. Silent
  BY <1>1, ChangeIsSilent DEF Status
<1> QED
  BY <1>2, <1>3, SilentKeeps

(* A proposal of the agent is announced, or goes unheard.                  *)
LEMMA AgentStagesKeeps ==
  ASSUME SessionInv, NEW p \in Patch, NEW announced \in BOOLEAN, Editor!AgentStages(p, announced)
  PROVE  SessionInv'
<1>1. Editor!Becomes(p, "proposed") /\ registry' \in [Patch -> Status]
  BY DEF Editor!AgentStages, Editor!Becomes, SessionInv, SessionTypeOK, Status
<1>2. UNCHANGED Editor!lifecycle /\ view' = view /\ asks' = asks /\ client # 0
  BY DEF Editor!AgentStages, Editor!AgentAtWork, Editor!Ready
<1>3. CASE announced
  <2>1. Editor!AsksAgain("event") /\ Editor!Told(Editor!Message("event", Editor!Empty))
    BY <1>3 DEF Editor!AsksAgain, Editor!AgentStages
  <2> QED
    BY <1>1, <1>2, <2>1, ToldKeeps DEF Kind
<1>4. CASE ~announced
  <2>1. wire' = wire /\ Editor!InSilence(p)
    BY <1>4 DEF Editor!AgentStages
  <2>2. Silent
    BY <1>1, <2>1, ChangeIsSilent DEF Status
  <2> QED
    BY <1>2, <2>1, <2>2, SilentKeeps
<1> QED
  BY <1>3, <1>4

(* The answer to a run has the list read again.                            *)
LEMMA RunAnsweredKeeps ==
  ASSUME SessionInv, Editor!RunAnswered
  PROVE  SessionInv'
<1>1. PICK kind \in {"ran", "failed"} : Editor!Told(Editor!Message(kind, Editor!Empty))
  BY DEF Editor!RunAnswered
<1>2. /\ UNCHANGED Editor!lifecycle /\ view' = view /\ asks' = asks /\ client # 0
      /\ UNCHANGED <<registry, unheard>> /\ registry' \in [Patch -> Status]
  BY DEF Editor!RunAnswered, Editor!Ready, SessionInv, SessionTypeOK
<1>3. Silent
  BY <1>2, UnchangedIsSilent
<1> QED
  BY <1>1, <1>2, <1>3, ToldKeeps DEF Kind

(* A decision is taken on the server and answered, in vain or not.         *)
LEMMA DecidedKeeps ==
  ASSUME SessionInv, NEW c \in DOMAIN Editor!Decision, NEW p \in Patch, Editor!Decided(c, p)
  PROVE  SessionInv'
<1>1. UNCHANGED Editor!lifecycle /\ view' = view /\ asks' = asks /\ client # 0
  BY DEF Editor!Decided, Editor!Ready
<1>2. Editor!Decision[c].to \in Status
  BY DEF Editor!Decision, Status
<1>3. ASSUME Editor!Becomes(p, Editor!Decision[c].to)
      PROVE  registry' \in [Patch -> Status]
  BY <1>2, <1>3 DEF Editor!Becomes, SessionInv, SessionTypeOK
<1>4. CASE Editor!Becomes(p, Editor!Decision[c].to) /\ Editor!Told(Editor!Message("decided", Editor!Empty))
  <2>1. Editor!AsksAgain("decided")
    BY DEF Editor!AsksAgain
  <2> QED
    BY <1>1, <1>3, <1>4, <2>1, ToldKeeps DEF Kind
<1>5. CASE /\ Editor!Becomes(p, Editor!Decision[c].to) /\ Editor!InSilence(p)
           /\ Editor!Told(Editor!Message("refused", Editor!Empty))
  <2>1. Silent
    BY <1>2, <1>5, ChangeIsSilent
  <2> QED
    BY <1>1, <1>3, <1>5, <2>1, ToldKeeps DEF Kind
<1>6. ASSUME UNCHANGED <<registry, unheard>>, NEW kind \in {"decided", "refused"},
             Editor!Told(Editor!Message(kind, Editor!Empty))
      PROVE  SessionInv'
  <2>1. Silent /\ registry' \in [Patch -> Status] /\ kind \in Kind \ {"list"}
    BY <1>6, UnchangedIsSilent DEF SessionInv, SessionTypeOK, Kind
  <2> QED
    BY <1>1, <1>6, <2>1, ToldKeeps
<1> QED
  BY <1>4, <1>5, <1>6 DEF Editor!Decided

(* What was given up ends, unheard.                                        *)
LEMMA DesertedEndsKeeps ==
  ASSUME SessionInv, NEW work, Editor!DesertedEnds(work)
  PROVE  SessionInv'
<1>1. UNCHANGED Editor!lifecycle /\ UNCHANGED <<view, asks, wire>>
  BY DEF Editor!DesertedEnds
<1>2. ASSUME NEW p \in Patch, work \in DOMAIN Editor!Decision,
             Editor!Becomes(p, Editor!Decision[work].to), Editor!InSilence(p)
      PROVE  Silent
  <2>1. Editor!Decision[work].to \in Status
    BY <1>2 DEF Editor!Decision, Status
  <2> QED
    BY <1>2, <2>1, ChangeIsSilent
<1>3. Silent
  BY <1>2, UnchangedIsSilent DEF Editor!DesertedEnds
<1> QED
  BY <1>1, <1>3, SilentKeeps

(* Of a list that is lost nothing is said.                                 *)
LEMMA ListLostKeeps ==
  ASSUME SessionInv, Editor!ListLost
  PROVE  SessionInv'
<1>1. /\ UNCHANGED Editor!lifecycle /\ UNCHANGED <<view, registry, wire>> /\ unheard' = Patch
      /\ asks \in Nat /\ asks' = asks - 1 /\ asks > 0
  BY DEF Editor!ListLost, SessionInv, SessionTypeOK
<1>2. SessionTypeOK' /\ Supervised' /\ Counting' /\ Editor!OneServer' /\ Editor!ProjectIsServed'
  BY <1>1, ReviewFrame DEF SessionInv, SessionTypeOK
<1>3. FromClient' /\ Followed'
  BY <1>1 DEF SessionInv, FromClient, Followed, Current, Editor!lifecycle
<1> QED
  BY <1>2, <1>3 DEF SessionInv

(* The list is of the registry as it is.                                   *)
LEMMA ListsKeeps ==
  ASSUME SessionInv, Editor!Lists
  PROVE  SessionInv'
<1> DEFINE last == Len(wire) + 1
<1>1. /\ UNCHANGED Editor!lifecycle /\ view' = view /\ registry' = registry
      /\ asks > 0 /\ asks' = asks - 1 /\ client # 0 /\ registry \in [Patch -> Status]
      /\ asks \in Nat
  BY DEF Editor!Lists, Editor!Ready, SessionInv, SessionTypeOK
<1>2. Editor!Told(Editor!Message("list", registry))
  BY DEF Editor!Lists
<1>3. /\ wire' \in Seq(Carried) /\ Len(wire) \in Nat
      /\ DOMAIN wire = 1..Len(wire) /\ DOMAIN wire' = 1..last
      /\ \A i \in DOMAIN wire : wire'[i] = wire[i]
      /\ wire'[last] = [kind |-> "list", of |-> client, patches |-> registry]
  BY <1>1, <1>2, ToldAdds DEF Kind
<1>4. client' = client /\ process' = process
  BY <1>1 DEF Editor!lifecycle
<1>5. SessionTypeOK' /\ Supervised' /\ Counting' /\ Editor!OneServer' /\ Editor!ProjectIsServed'
  BY <1>1, <1>3, ReviewFrame
<1>6. FromClient'
  BY <1>1, <1>3, <1>4 DEF SessionInv, FromClient
<1>7. \A i \in DOMAIN wire' : LastList(i)' => i = last
  BY <1>3 DEF LastList
<1>8. wire'[last].kind = "list" /\ last \in DOMAIN wire' /\ wire'[last].patches = registry'
  BY <1>1, <1>3
<1> HIDE DEF last
<1>9. \A i \in DOMAIN wire' : LastList(i)' => Current(wire[i].patches)'
  BY <1>7, <1>8 DEF Current
<1>10. Followed'
  BY <1>8, <1>9 DEF Followed
<1> QED
  BY <1>5, <1>6, <1>10 DEF SessionInv

(* The first message is handled, and the rest follows it.                  *)
LEMMA HandleKeeps ==
  ASSUME SessionInv, Editor!Handle
  PROVE  SessionInv'
<1> DEFINE message == wire[1]
<1>1. /\ wire \in Seq(Carried) /\ wire # <<>> /\ wire' = Tail(wire) /\ Head(wire) = message
      /\ UNCHANGED Editor!lifecycle /\ registry' = registry /\ unheard' = unheard /\ registry \in [Patch -> Status]
      /\ asks \in Nat
  BY DEF Editor!Handle, SessionInv, SessionTypeOK
<1>2. /\ Len(wire) \in Nat \ {0} /\ DOMAIN wire = 1..Len(wire)
      /\ wire' \in Seq(Carried) /\ DOMAIN wire' = 1..(Len(wire) - 1)
      /\ \A i \in DOMAIN wire' : wire'[i] = wire[i + 1]
  BY <1>1
<1>3. 1 \in DOMAIN wire /\ message.of = client /\ client # 0
  BY <1>2 DEF SessionInv, FromClient
<1>4. /\ view' = IF message.kind = "list" THEN [of |-> message.of, patches |-> message.patches] ELSE view
      /\ asks' = IF Editor!AsksAgain(message.kind) THEN asks + 1 ELSE asks
  BY <1>1 DEF Editor!Handle
<1>5. client' = client /\ process' = process
  BY <1>1 DEF Editor!lifecycle
<1>6. client = server /\ client \in Servers /\ process[client] # "unborn"
  BY <1>3 DEF SessionInv, SessionTypeOK, Supervised
<1> HIDE DEF message
<1>7. SessionTypeOK' /\ Supervised' /\ Counting' /\ Editor!OneServer' /\ Editor!ProjectIsServed'
  BY <1>1, <1>2, <1>4, ReviewFrame
<1>8. FromClient'
  <2>1. \A i \in DOMAIN wire' : client' # 0 /\ wire'[i].of = client'
    BY <1>2, <1>3, <1>5 DEF SessionInv, FromClient
  <2>2. view'.of # 0 => view'.of \in Servers /\ process'[view'.of] # "unborn"
    BY <1>3, <1>4, <1>5, <1>6 DEF SessionInv, FromClient
  <2> QED
    BY <2>1, <2>2 DEF FromClient
<1>9. \A i \in DOMAIN wire' : LastList(i)' => i + 1 \in DOMAIN wire /\ LastList(i + 1)
  <2> SUFFICES ASSUME NEW i \in DOMAIN wire', LastList(i)' PROVE i + 1 \in DOMAIN wire /\ LastList(i + 1)
    OBVIOUS
  <2>1. i + 1 \in DOMAIN wire /\ i \in Nat /\ wire[i + 1].kind = "list"
    BY <1>2 DEF LastList
  <2>2. ASSUME NEW j \in DOMAIN wire, j > i + 1 PROVE wire[j].kind # "list"
    <3>1. j - 1 \in DOMAIN wire' /\ j - 1 > i /\ wire'[j - 1] = wire[j]
      BY <1>2, <2>1, <2>2
    <3> QED
      BY <3>1 DEF LastList
  <2> QED
    BY <2>1, <2>2 DEF LastList
<1>10. \A i \in DOMAIN wire : i = 1 \/ (i - 1 \in DOMAIN wire' /\ wire'[i - 1] = wire[i])
  BY <1>2
<1>11. CASE Editor!AsksAgain(message.kind)
  <2>1. Refreshing'
    BY <1>1, <1>4, <1>11 DEF Refreshing
  <2> QED
    BY <1>7, <1>8, <2>1 DEF SessionInv, Followed
<1>12. CASE ~Editor!AsksAgain(message.kind)
  <2>1. Refreshing => Refreshing'
    BY <1>4, <1>10, <1>12 DEF Refreshing, Editor!AsksAgain, message
  <2>2. ASSUME ~Refreshing', NEW i \in DOMAIN wire', LastList(i)' PROVE Current(wire[i].patches)'
    <3>1. Current(wire[i + 1].patches)
      BY <1>3, <1>9, <2>1, <2>2 DEF SessionInv, Followed
    <3> QED
      BY <1>1, <1>2, <3>1 DEF Current
  <2>3. ASSUME ~Refreshing', \A i \in DOMAIN wire' : wire'[i].kind # "list", view'.of = client'
        PROVE  Current(view.patches)'
    <3>1. \A i \in DOMAIN wire : i # 1 => wire[i].kind # "list"
      BY <1>10, <2>3
    <3>2. CASE message.kind = "list"
      <4>1. LastList(1)
        BY <1>2, <1>3, <3>1, <3>2 DEF LastList, message
      <4>2. Current(message.patches)
        BY <1>3, <2>1, <2>3, <4>1 DEF SessionInv, Followed, message
      <4> QED
        BY <1>1, <1>4, <3>2, <4>2 DEF Current
    <3>3. CASE message.kind # "list"
      <4>1. \A i \in DOMAIN wire : wire[i].kind # "list"
        BY <3>1, <3>3 DEF message
      <4>2. view' = view
        BY <1>4, <3>3
      <4>3. Current(view.patches)
        BY <1>3, <1>5, <2>1, <2>3, <4>1, <4>2 DEF SessionInv, Followed
      <4> QED
        BY <1>1, <4>2, <4>3 DEF Current
    <3> QED
      BY <3>2, <3>3
  <2>4. Followed'
    BY <2>2, <2>3 DEF Followed
  <2> QED
    BY <1>7, <1>8, <2>4 DEF SessionInv
<1> QED
  BY <1>11, <1>12

(* Every step of the session keeps its invariant.                          *)
LEMMA SessionNext ==
  ASSUME SessionInv, Editor!Next
  PROVE  SessionInv'
<1>1. ASSUME NEW c \in DOMAIN Editor!Decision, Editor!Decide(c) PROVE SessionInv'
  BY <1>1, UnchangedIsSilent, SilentKeeps DEF Editor!Decide
<1>2. CASE Editor!StartRun
  BY <1>2, UnchangedIsSilent, SilentKeeps DEF Editor!StartRun
<1>3. CASE Editor!GiveUp
  BY <1>3, UnchangedIsSilent, SilentKeeps DEF Editor!GiveUp
<1> QED
  BY <1>1, <1>2, <1>3, ActivateKeeps, RestartKeeps, DisposeKeeps, StartupKeeps, DiesKeeps, EndsKeeps,
     AgentAppliesKeeps, AgentStagesKeeps, DecidedKeeps, DesertedEndsKeeps, RunAnsweredKeeps, ListsKeeps,
     ListLostKeeps, HandleKeeps
     DEF Editor!Next

(* The invariant says what the session promises.                           *)
LEMMA SessionPromises ==
  ASSUME SessionInv
  PROVE  /\ Editor!OneServer /\ Editor!ProjectIsServed
         /\ Editor!SpinStops /\ Editor!ViewIsCurrent
<1>1. Editor!SpinStops
  BY DEF SessionInv, Counting, Editor!SpinStops
<1>2. Editor!ViewIsCurrent
  <2> SUFFICES ASSUME Editor!Ready, asks = 0, wire = <<>>, view.of = client
               PROVE  Current(view.patches)
    BY DEF Editor!ViewIsCurrent, Current
  <2>1. DOMAIN wire = {} /\ ~Refreshing /\ client # 0
    BY DEF Refreshing, Editor!Ready
  <2> QED
    BY <2>1 DEF SessionInv, Followed
<1> QED
  BY <1>1, <1>2 DEF SessionInv

-----------------------------------------------------------------------------
(* Requests.                                                               *)
LEMMA SequenceOfItsOwn ==
  ASSUME NEW S, NEW t \in Seq(S)
  PROVE  t \in Seq({t[i] : i \in DOMAIN t})
<1>1. t = [i \in 1..Len(t) |-> t[i]] /\ Len(t) \in Nat /\ DOMAIN t = 1..Len(t)
  OBVIOUS
<1> QED
  BY <1>1

(* What is appended to a sequence comes last and moves nothing.            *)
LEMMA AppendAny ==
  ASSUME NEW s, s \in Seq({s[i] : i \in DOMAIN s}), NEW x, NEW t, t = Append(s, x)
  PROVE  /\ t \in Seq({t[i] : i \in DOMAIN t})
         /\ Len(s) \in Nat /\ Len(t) = Len(s) + 1
         /\ DOMAIN s = 1..Len(s) /\ DOMAIN t = 1..(Len(s) + 1)
         /\ \A i \in 1..Len(s) : t[i] = s[i]
         /\ t[Len(s) + 1] = x
<1> DEFINE S == {s[i] : i \in DOMAIN s} \cup {x}
<1>1. s \in Seq(S) /\ x \in S
  <2>1. Len(s) \in Nat /\ DOMAIN s = 1..Len(s) /\ s \in [1..Len(s) -> S]
    OBVIOUS
  <2> QED
    BY <2>1
<1> HIDE DEF S
<1>2. /\ t \in Seq(S) /\ Len(s) \in Nat /\ Len(t) = Len(s) + 1
      /\ DOMAIN s = 1..Len(s) /\ DOMAIN t = 1..(Len(s) + 1)
      /\ \A i \in 1..Len(s) : t[i] = s[i]
      /\ t[Len(s) + 1] = x
  BY <1>1
<1>3. t \in Seq({t[i] : i \in DOMAIN t})
  BY <1>2, SequenceOfItsOwn
<1> QED
  BY <1>2, <1>3

(* Before a call is built nothing of it is resolved or sent.               *)
LEMMA ApiInit == Api!Init => ApiInv
<1> SUFFICES ASSUME Api!Init PROVE ApiInv
  OBVIOUS
<1>1. /\ step = "start" /\ outcome = "none" /\ sent = <<>> /\ redirects = <<>> /\ got = 0
      /\ total = 0 /\ lost = 0 /\ cache = {} /\ known = {} /\ lookedUp = {}
      /\ headers = [h \in HeaderName |->
                 IF h \in job.headers \/ (h = "content-type" /\ job.body) THEN {Api!Caller} ELSE {}]
  BY DEF Api!Init
<1>2. MaxRedirects \in Nat /\ Cap \in Nat
  BY EffectsAssumption DEF Api!ExecutionAssumption
<1>3. DOMAIN headers = HeaderName /\ \A h \in HeaderName : headers[h] \subseteq {Api!Caller}
  BY <1>1
<1>4. Redactable /\ Handed /\ Vetted /\ Stripped /\ Read
  BY <1>1, <1>2, <1>3 DEF Redactable, Handed, Vetted, Stripped, Read
<1>5. Hops
  <2>1. sent \in Seq({sent[i] : i \in DOMAIN sent}) /\ redirects \in Seq({redirects[i] : i \in DOMAIN redirects})
        /\ Len(sent) = 0
    BY <1>1
  <2> QED
    BY <1>1, <1>2, <2>1 DEF Hops
<1>6. Api!CredentialsStayHome /\ Api!EveryHopIsChecked /\ Api!ExchangeTellsNoSecret
  BY <1>1, <1>2 DEF Api!CredentialsStayHome, Api!EveryHopIsChecked, Api!ExchangeTellsNoSecret
<1> QED
  BY <1>1, <1>3, <1>4, <1>5, <1>6 DEF ApiInv

(* Until the call is built nothing was sent.                               *)
LEMMA BeforeSending ==
  ASSUME ApiInv, step \in {"start", "prompt", "secrets"}, UNCHANGED <<job, url, redirects, sent, lookedUp>>,
         cache' # {} => granted', granted => granted', step' \in {"start", "prompt", "secrets", "policy", "done"},
         outcome' # "ok"
  PROVE  /\ Hops' /\ Stripped' /\ Handed' /\ Vetted'
         /\ Api!CredentialsStayHome' /\ Api!EveryHopIsChecked' /\ Api!ExchangeTellsNoSecret'
<1>1. sent = <<>> /\ redirects = <<>> /\ Len(sent) = 0 /\ Len(redirects) = 0 /\ sent' = sent /\ redirects' = redirects
  BY DEF ApiInv, Hops
<1>2. MaxRedirects \in Nat
  BY EffectsAssumption DEF Api!ExecutionAssumption
<1>3. lookedUp' = {} \/ granted'
  BY DEF ApiInv, Api!EveryHopIsChecked
<1> QED
  BY <1>1, <1>2, <1>3 DEF ApiInv, Hops, Stripped, Handed, Vetted, Api!CredentialsStayHome, Api!EveryHopIsChecked,
     Api!ExchangeTellsNoSecret

(* What the redactor knows and the headers hold stands, but for a step to  *)
(* the secrets, where none is resolved at first.                           *)
LEMMA SameSecrets ==
  ASSUME ApiInv, UNCHANGED <<cache, known, headers, got, total, lost, truncated>>,
         step \in {"start", "prompt"} \/ step' # "secrets", step' \notin {"start", "prompt"} \/ step \in {"start", "prompt"}
  PROVE  Redactable' /\ Read' /\ DOMAIN headers' = HeaderName
<1>1. Read' /\ DOMAIN headers' = HeaderName
  BY DEF ApiInv, Read
<1>2. step' = "secrets" => got' = 0
  BY DEF ApiInv, Read
<1>3. step' = "secrets" => 1..got' = {}
  BY <1>2
<1>4. Redactable'
  BY <1>3 DEF ApiInv, Redactable
<1> QED
  BY <1>1, <1>4

(* A call that is authorised goes on to its secrets, to the policy, or ends. *)
LEMMA AuthenticateEnds ==
  ASSUME ApiInv, outcome = "none", Api!Authenticate
  PROVE  /\ step' \in {"secrets", "policy", "done"} /\ (outcome' = "none" <=> step' # "done")
         /\ outcome' # "ok"
BY DEF Api!Authenticate, Api!Built, Api!Await, Api!Return

LEMMA BuildingKeeps ==
  ASSUME ApiInv, Api!UrlFails \/ Api!Authorize \/ \E yes \in BOOLEAN : Api!Answered(yes)
  PROVE  ApiInv'
<1>1. /\ step \in {"start", "prompt"} /\ outcome = "none" /\ (cache # {} => granted)
      /\ UNCHANGED <<job, url, redirects, sent, lookedUp, cache, known, headers, got, total, lost, truncated>>
  BY DEF Api!UrlFails, Api!Authorize, Api!Answered, Api!plan, Api!message, Api!response, Api!evidence, ApiInv,
     Api!EveryHopIsChecked
<1>2. /\ step' \in {"prompt", "secrets", "policy", "done"} /\ (outcome' = "none" <=> step' # "done")
      /\ outcome' # "ok" /\ (granted => granted') /\ (step' \in {"secrets", "policy"} => granted')
  <2>1. CASE Api!UrlFails
    BY <2>1 DEF Api!UrlFails, Api!Return, Api!evidence
  <2>2. CASE Api!Authorize
    <3> DEFINE verdict == IF job.gated THEN Api!EvaluatePolicy(Api!Action, job.context) ELSE "allow"
    <3>1. CASE Api!Return("invalid") /\ UNCHANGED <<due, granted>>
      BY <3>1 DEF Api!Return
    <3>2. CASE granted' = TRUE /\ Api!Authenticate
      BY <1>1, <3>2, AuthenticateEnds
    <3>3. CASE Api!Return("denied") /\ UNCHANGED <<due, granted>>
      BY <3>3 DEF Api!Return
    <3>4. CASE Api!Await("prompt") /\ UNCHANGED <<due, granted>>
      BY <1>1, <3>4 DEF Api!Await
    <3> QED
      BY <2>2, <3>1, <3>2, <3>3, <3>4 DEF Api!Authorize
  <2>3. ASSUME NEW yes \in BOOLEAN, Api!Answered(yes)
        PROVE  <1>2!:
    <3>1. CASE granted' = TRUE /\ Api!Authenticate
      BY <1>1, <3>1, AuthenticateEnds
    <3>2. CASE Api!Return("denied") /\ UNCHANGED <<due, granted>>
      BY <3>2 DEF Api!Return
    <3> QED
      BY <2>3, <3>1, <3>2 DEF Api!Answered
  <2> QED
    BY <2>1, <2>2, <2>3
<1>3. Redactable' /\ Read' /\ DOMAIN headers' = HeaderName
  BY <1>1, <1>2, SameSecrets
<1>4. /\ Hops' /\ Stripped' /\ Handed' /\ Vetted'
      /\ Api!CredentialsStayHome' /\ Api!EveryHopIsChecked' /\ Api!ExchangeTellsNoSecret'
  BY <1>1, <1>2, BeforeSending
<1> QED
  BY <1>2, <1>3, <1>4 DEF ApiInv

(* What a scheme is resolved from.                                         *)
LEMMA SchemeFields ==
  ASSUME NEW scheme, Api!Fields(scheme) # <<"unsupported">>
  PROVE  /\ scheme.kind = "basic" => Api!Fields(scheme) = <<"username", "password">>
         /\ scheme.kind = "none" => Api!Fields(scheme) = <<>>
         /\ scheme.kind \notin {"basic", "none"} => Api!Fields(scheme) = <<"secret">>
BY DEF Api!Fields

(* A secret that is resolved becomes known to the redactor.                *)
LEMMA SecretResolvedKeeps ==
  ASSUME ApiInv, Api!SecretResolved
  PROVE  ApiInv'
<1> DEFINE field == Api!Fields(Api!Head1)[got + 1]
           reference == Api!Ref(Api!Head1, field)
<1>1. /\ step = "secrets" /\ step' = step /\ outcome' = outcome /\ granted' = granted
      /\ cache' = cache \cup {reference} /\ known' = known \cup ({reference} \ ShortRef)
      /\ got' = got + 1
      /\ UNCHANGED <<job, due, url, redirects, sent, lookedUp, headers, total, lost, truncated>>
  BY DEF Api!SecretResolved, Api!message, Api!response, Api!evidence
<1>2. outcome = "none" /\ granted /\ got \in Nat
  BY <1>1 DEF ApiInv, Read
<1>3. Read' /\ DOMAIN headers' = HeaderName
  BY <1>1, <1>2 DEF ApiInv, Read
<1>4. Redactable'
  <2>1. cache' \ ShortRef \subseteq known'
    BY <1>1 DEF ApiInv, Redactable
  <2>2. \A h \in HeaderName : headers'[h] \subseteq {Api!Caller} \cup cache' \cup known'
    BY <1>1 DEF ApiInv, Redactable
  <2>3. Api!Head1' = Api!Head1
    BY <1>1 DEF Api!Head1
  <2>4. ASSUME NEW i \in 1..got' PROVE Api!Ref(Api!Head1, Api!Fields(Api!Head1)[i]) \in cache'
    <3>1. i \in 1..got \/ i = got + 1
      BY <1>1, <1>2
    <3> QED
      BY <1>1, <3>1 DEF ApiInv, Redactable
  <2>5. Api!Fields(Api!Head1)' = Api!Fields(Api!Head1)
    BY <2>3 DEF Api!Fields
  <2>6. \A f : Api!Ref(Api!Head1, f)' = Api!Ref(Api!Head1, f)
    BY <2>3 DEF Api!Ref
  <2> QED
    BY <2>1, <2>2, <2>4, <2>5, <2>6 DEF Redactable
<1>5. /\ Hops' /\ Stripped' /\ Handed' /\ Vetted'
      /\ Api!CredentialsStayHome' /\ Api!EveryHopIsChecked' /\ Api!ExchangeTellsNoSecret'
  BY <1>1, <1>2, BeforeSending
<1> QED
  BY <1>1, <1>2, <1>3, <1>4, <1>5 DEF ApiInv

(* A secret that is not there ends the call.                               *)
LEMMA SecretFailsKeeps ==
  ASSUME ApiInv, Api!SecretFails
  PROVE  ApiInv'
<1>1. /\ step = "secrets" /\ step' = "done" /\ outcome' = "secret" /\ granted' = granted
      /\ UNCHANGED <<job, cache, known, got, url, redirects, sent, lookedUp, headers, total, lost, truncated>>
  BY DEF Api!SecretFails, Api!Return, Api!plan, Api!message, Api!response, Api!evidence
<1>2. granted
  BY <1>1 DEF ApiInv
<1>3. Redactable' /\ Read' /\ DOMAIN headers' = HeaderName
  BY <1>1, SameSecrets
<1>4. /\ Hops' /\ Stripped' /\ Handed' /\ Vetted'
      /\ Api!CredentialsStayHome' /\ Api!EveryHopIsChecked' /\ Api!ExchangeTellsNoSecret'
  BY <1>1, <1>2, BeforeSending
<1> QED
  BY <1>1, <1>2, <1>3, <1>4 DEF ApiInv

(* A scheme writes what was resolved for it, or the pair it registers.     *)
LEMMA SchemeAppliedKeeps ==
  ASSUME ApiInv, Api!SchemeApplied
  PROVE  ApiInv'
<1> DEFINE value == Api!Value(Api!Head1)
           basic == Api!Head1.kind = "basic"
<1>1. /\ step = "secrets" /\ ~Api!Unsupported(Api!Head1) /\ got = Len(Api!Fields(Api!Head1))
      /\ headers' = IF Api!Head1.kind = "none" THEN headers ELSE Api!Applied(Api!Head1)
      /\ known' = IF basic THEN known \cup {value} ELSE known
      /\ got' = 0 /\ cache' = cache
      /\ UNCHANGED <<job, url, redirects, sent, lookedUp, granted, total, lost, truncated>>
  BY DEF Api!SchemeApplied, Api!Register, Api!response, Api!evidence
<1>2. outcome = "none" /\ granted
  BY <1>1 DEF ApiInv
<1>3. step' \in {"secrets", "policy", "done"} /\ (outcome' = "none" <=> step' # "done") /\ outcome' # "ok"
  BY <1>1, <1>2 DEF Api!SchemeApplied, Api!Built, Api!Await, Api!Return
<1>4. Api!Head1.kind # "none" => value \in cache' \cup known'
  <2> SUFFICES ASSUME Api!Head1.kind \notin {"none", "basic"} PROVE value \in cache
    BY <1>1
  <2>1. Api!Fields(Api!Head1) = <<"secret">>
    BY <1>1, SchemeFields DEF Api!Unsupported
  <2>2. 1 \in 1..got /\ Api!Fields(Api!Head1)[1] = "secret"
    BY <1>1, <2>1
  <2>3. Api!Ref(Api!Head1, "secret") \in cache
    BY <1>1, <2>2 DEF ApiInv, Redactable
  <2> QED
    BY <2>3 DEF Api!Value
<1> HIDE DEF value, basic
<1>5. /\ DOMAIN headers' = HeaderName
      /\ \A h \in HeaderName :
           headers'[h] \subseteq headers[h] \cup {v \in {value} : Api!Head1.kind # "none"}
  BY <1>1 DEF ApiInv, Api!Applied, value
<1>6. Redactable'
  <2>1. known \subseteq known' /\ cache \ ShortRef \subseteq known
    BY <1>1 DEF ApiInv, Redactable
  <2>2. \A h \in HeaderName : headers'[h] \subseteq {Api!Caller} \cup cache' \cup known'
    BY <1>1, <1>4, <1>5, <2>1 DEF ApiInv, Redactable
  <2>3. 1..got' = {}
    BY <1>1
  <2> QED
    BY <1>1, <2>1, <2>2, <2>3 DEF Redactable
<1>7. Read'
  BY <1>1 DEF ApiInv, Read
<1>8. /\ Hops' /\ Stripped' /\ Handed' /\ Vetted'
      /\ Api!CredentialsStayHome' /\ Api!EveryHopIsChecked' /\ Api!ExchangeTellsNoSecret'
  BY <1>1, <1>2, <1>3, BeforeSending
<1> QED
  BY <1>1, <1>2, <1>3, <1>5, <1>6, <1>7, <1>8 DEF ApiInv

(* An end that is not "ok" adds nothing.                                   *)
LEMMA FailureKeeps ==
  ASSUME ApiInv, step # "done", step' = "done", outcome' \notin {"ok", "none"},
         UNCHANGED <<job, sent, granted, cache, known>>, lookedUp' # {} => granted,
         redirects' \in Seq({redirects'[i] : i \in DOMAIN redirects'}),
         Redactable', Read', DOMAIN headers' = HeaderName
  PROVE  ApiInv'
<1>1. Stripped' /\ Hops' /\ Handed' /\ Vetted'
  BY DEF Stripped, Hops, Handed, Vetted, ApiInv
<1>2. Api!CredentialsStayHome' /\ Api!EveryHopIsChecked' /\ Api!ExchangeTellsNoSecret'
  BY DEF ApiInv, Api!CredentialsStayHome, Api!EveryHopIsChecked, Api!ExchangeTellsNoSecret
<1> QED
  BY <1>1, <1>2 DEF ApiInv

(* A URL is fetched after the policy let it pass.                          *)
LEMMA CheckUrlKeeps ==
  ASSUME ApiInv, NEW addresses \in SUBSET {"public", "private"}, Api!CheckUrl(addresses)
  PROVE  ApiInv'
<1>1. /\ step = "policy" /\ lookedUp' \in {lookedUp, lookedUp \cup {url.host}}
      /\ addresses \in Api!Addresses(url.host)
      /\ \/ Api!Checked(addresses) /\ vetted' = addresses /\ step' = "fetch" /\ outcome' = outcome
         \/ step' = "done" /\ outcome' = "refused"
      /\ UNCHANGED <<job, cache, known, got, headers, url, redirects, sent, granted, total, lost, truncated>>
  BY DEF Api!CheckUrl, Api!Await, Api!Return, Api!plan, Api!message, Api!response
<1>2. outcome = "none" /\ granted
  BY <1>1 DEF ApiInv
<1>3. Redactable' /\ Read' /\ DOMAIN headers' = HeaderName
  BY <1>1, SameSecrets
<1>4. CASE Api!Checked(addresses) /\ vetted' = addresses /\ step' = "fetch" /\ outcome' = outcome
  <2>1. Vetted'
    BY <1>1, <1>4 DEF Vetted, Api!Checked, Api!PermittedByName, Api!PermittedByAddress, Api!Allowlisted, Api!Addresses
  <2>2. Hops' /\ Stripped' /\ Handed'
    BY <1>1, <1>4 DEF ApiInv, Hops, Listed, Stripped, Handed, Left, Bare, Api!Origin
  <2>3. Api!CredentialsStayHome' /\ Api!EveryHopIsChecked' /\ Api!ExchangeTellsNoSecret'
    BY <1>1, <1>2, <1>4 DEF ApiInv, Api!CredentialsStayHome, Api!EveryHopIsChecked, Api!ExchangeTellsNoSecret
  <2> QED
    BY <1>1, <1>2, <1>3, <1>4, <2>1, <2>2, <2>3 DEF ApiInv
<1>5. CASE step' = "done" /\ outcome' = "refused"
  <2>1. redirects' \in Seq({redirects'[i] : i \in DOMAIN redirects'})
    BY <1>1 DEF ApiInv, Hops
  <2> QED
    BY <1>1, <1>2, <1>3, <1>5, <2>1, FailureKeeps
<1> QED
  BY <1>1, <1>4, <1>5

(* A hop was checked, and carries credentials to the first origin only.    *)
LEMMA SendKeeps ==
  ASSUME ApiInv, NEW addresses \in SUBSET {"public", "private"}, Api!Send(addresses)
  PROVE  ApiInv'
<1> DEFINE n == Len(sent)
           r == Api!Request(addresses)
<1>1. /\ step = "fetch" /\ addresses \in Api!Addresses(url.host)
      /\ sent' = Append(sent, r) /\ step' = "answer" /\ outcome' = outcome
      /\ UNCHANGED <<job, cache, known, got, headers, url, redirects, granted, lookedUp, total, lost, truncated>>
  BY DEF Api!Send, Api!Await, Api!plan, Api!message, Api!response
<1>2. outcome = "none" /\ granted
  BY <1>1 DEF ApiInv
<1>3. Redactable' /\ Read' /\ DOMAIN headers' = HeaderName
  BY <1>1, SameSecrets
<1>4. /\ r.url = url /\ r.checked = vetted /\ r.addresses = addresses
      /\ r.credentials = UNION {headers[h] : h \in Api!CredentialHeader \cap HeaderName}
      /\ r.values = UNION {headers[h] : h \in HeaderName}
  BY DEF Api!Request
<1>5. Api!Checked(vetted) /\ (url.host \in Literal => addresses = vetted)
  BY <1>1 DEF ApiInv, Vetted, Api!Addresses
<1> HIDE DEF r
<1>6. /\ sent' \in Seq({sent'[i] : i \in DOMAIN sent'})
      /\ n \in Nat /\ Len(sent') = n + 1
      /\ DOMAIN sent = 1..n /\ DOMAIN sent' = 1..(n + 1)
      /\ \A i \in 1..n : sent'[i] = sent[i]
      /\ sent'[n + 1] = r
  <2>1. sent \in Seq({sent[i] : i \in DOMAIN sent})
    BY DEF ApiInv, Hops
  <2> QED
    BY <1>1, <2>1, AppendAny
<1> HIDE DEF n
<1>7. /\ Len(redirects) = n /\ n <= MaxRedirects
      /\ n # 0 => Listed(n - 1) /\ url = redirects[n]
  BY <1>1, <1>6 DEF ApiInv, Hops, n
<1>8. Hops'
  <2>1. \A i \in 1..n : redirects'[i] = sent'[i + 1].url
    <3> SUFFICES ASSUME NEW i \in 1..n PROVE redirects[i] = sent'[i + 1].url
      BY <1>1
    <3>1. n # 0
      BY <1>6
    <3>2. CASE i = n
      BY <1>4, <1>6, <1>7, <3>1, <3>2
    <3>3. CASE i # n
      <4>1. i \in 1..(n - 1) /\ i + 1 \in 1..n
        BY <1>6, <3>3
      <4> QED
        BY <1>6, <1>7, <3>1, <4>1 DEF Listed
    <3> QED
      BY <3>2, <3>3
  <2>2. Len(redirects') = n /\ redirects' \in Seq({redirects'[i] : i \in DOMAIN redirects'})
    BY <1>1, <1>7 DEF ApiInv, Hops
  <2>3. MaxRedirects \in Nat
    BY EffectsAssumption DEF Api!ExecutionAssumption
  <2> QED
    BY <1>1, <1>4, <1>6, <1>7, <2>1, <2>2, <2>3, SMTT(60) DEF Hops, Listed
<1>9. ASSUME NEW i \in DOMAIN sent', \E j \in 1..i : Api!Origin(sent'[j].url) # Api!Origin(sent'[1].url)
      PROVE  IF i = n + 1 THEN Bare ELSE i \in DOMAIN sent /\ Left(i)
  <2>1. PICK j \in 1..i : Api!Origin(sent'[j].url) # Api!Origin(sent'[1].url)
    BY <1>9
  <2>2. i \in 1..(n + 1) /\ i \in Nat /\ j \in Nat
    BY <1>6
  <2>3. CASE i # n + 1
    <3>1. j \in 1..n /\ 1 \in 1..n /\ i \in 1..n
      BY <1>6, <2>2, <2>3
    <3> QED
      BY <1>6, <2>1, <2>3, <3>1 DEF Left
  <2>4. CASE i = n + 1
    <3>1. n # 0
      BY <1>6, <2>1, <2>2, <2>4
    <3>2. 1 \in 1..n /\ sent # <<>>
      BY <1>6, <3>1 DEF n
    <3>3. Left(n) \/ Api!Origin(url) # Api!Origin(sent[1].url)
      BY <1>4, <1>6, <2>1, <2>4, <3>2 DEF Left
    <3> QED
      BY <1>1, <2>4, <3>2, <3>3 DEF ApiInv, Stripped, n
  <2> QED
    BY <2>3, <2>4
<1>11. Api!CredentialsStayHome'
  <2>1. ASSUME NEW i \in DOMAIN sent', \E j \in 1..i : Api!Origin(sent'[j].url) # Api!Origin(sent'[1].url)
        PROVE  sent'[i].credentials = {}
    <3>1. CASE i = n + 1
      <4>1. Bare
        BY <1>9, <2>1, <3>1
      <4> QED
        BY <1>4, <1>6, <3>1, <4>1 DEF Bare
    <3>2. CASE i # n + 1
      <4>1. i \in DOMAIN sent /\ Left(i)
        BY <1>9, <2>1, <3>2
      <4> QED
        BY <1>6, <4>1 DEF ApiInv, Api!CredentialsStayHome, Left
    <3> QED
      BY <3>1, <3>2
  <2> QED
    BY <2>1 DEF Api!CredentialsStayHome, Api!Origin
<1>12. Stripped'
  <2>1. ASSUME Left(Len(sent))' PROVE Bare
    <3>1. \E j \in 1..(n + 1) : Api!Origin(sent'[j].url) # Api!Origin(sent'[1].url)
      BY <1>6, <2>1 DEF Left, Api!Origin
    <3>2. n + 1 \in DOMAIN sent'
      BY <1>6
    <3> QED
      BY <1>9, <3>1, <3>2
  <2> QED
    BY <1>1, <2>1 DEF Stripped, Bare
<1>10. Handed' /\ Vetted'
  <2>1. r.values \subseteq {Api!Caller} \cup cache \cup known
    BY <1>4 DEF ApiInv, Redactable
  <2>2. \A i \in DOMAIN sent' : sent'[i].values \subseteq {Api!Caller} \cup cache \cup known
    BY <1>6, <2>1 DEF ApiInv, Handed
  <2> QED
    BY <1>1, <2>2 DEF Handed, Vetted
<1>13. Api!EveryHopIsChecked'
  <2>1. \A i \in DOMAIN sent' :
          /\ Api!PermittedByName(sent'[i].url, job.policy)
          /\ Api!PermittedByAddress(sent'[i].url, sent'[i].checked, job.policy)
          /\ sent'[i].url.host \in Literal => sent'[i].addresses = sent'[i].checked
    BY <1>4, <1>5, <1>6 DEF ApiInv, Api!EveryHopIsChecked, Api!Checked
  <2>2. Len(sent') <= MaxRedirects + 1 /\ granted' /\ job' = job /\ outcome' # "ok"
    BY <1>1, <1>2, <1>8 DEF Hops
  <2> QED
    BY <2>1, <2>2 DEF Api!EveryHopIsChecked, Api!PermittedByName, Api!PermittedByAddress, Api!Allowlisted
<1>14. Api!ExchangeTellsNoSecret'
  BY <1>1, <1>2 DEF Api!ExchangeTellsNoSecret
<1> QED
  BY <1>1, <1>2, <1>3, <1>8, <1>10, <1>11, <1>12, <1>13, <1>14 DEF ApiInv

(* A request that is not answered ends the call.                           *)
LEMMA AnswerFailsKeeps ==
  ASSUME ApiInv, Api!SendFails \/ Api!LocationUnreadable \/ Api!BodyFails
  PROVE  ApiInv'
<1>1. /\ step \in {"fetch", "answer", "body"} /\ step' = "done" /\ outcome' \in {"network", "malformed"}
      /\ UNCHANGED <<job, cache, known, got, headers, url, redirects, sent, granted, lookedUp, total, lost, truncated>>
  BY DEF Api!SendFails, Api!LocationUnreadable, Api!BodyFails, Api!Return, Api!plan, Api!message, Api!response,
     Api!evidence
<1>2. Redactable' /\ Read' /\ DOMAIN headers' = HeaderName
  BY <1>1, SameSecrets
<1>3. redirects' \in Seq({redirects'[i] : i \in DOMAIN redirects'}) /\ (lookedUp' # {} => granted)
  BY <1>1 DEF ApiInv, Hops
<1> QED
  BY <1>1, <1>2, <1>3, FailureKeeps

(* An answer is read, or redirects.                                        *)
LEMMA AnswerArrivesKeeps ==
  ASSUME ApiInv, Api!AnswerArrives
  PROVE  ApiInv'
<1>1. /\ step = "answer" /\ step' = "body" /\ outcome' = outcome
      /\ UNCHANGED <<job, cache, known, got, headers, url, redirects, sent, granted, lookedUp, total, lost, truncated,
                     shown>>
  BY DEF Api!AnswerArrives, Api!Await, Api!plan, Api!message, Api!response, Api!evidence
<1>2. Redactable' /\ Read' /\ DOMAIN headers' = HeaderName
  BY <1>1, SameSecrets
<1>3. outcome = "none" /\ granted
  BY <1>1 DEF ApiInv
<1>4. Hops' /\ Stripped' /\ Handed' /\ Vetted'
  BY <1>1 DEF ApiInv, Hops, Listed, Stripped, Handed, Vetted, Left, Bare, Api!Origin
<1>5. Api!CredentialsStayHome' /\ Api!EveryHopIsChecked' /\ Api!ExchangeTellsNoSecret'
  BY <1>1, <1>3 DEF ApiInv, Api!CredentialsStayHome, Api!EveryHopIsChecked, Api!ExchangeTellsNoSecret
<1> QED
  BY <1>1, <1>2, <1>3, <1>4, <1>5 DEF ApiInv

(* A redirect to another origin takes the credentials off.                 *)
LEMMA RedirectedKeeps ==
  ASSUME ApiInv, NEW status, NEW next, Api!Redirected(status, next)
  PROVE  ApiInv'
<1> DEFINE n == Len(sent)
           kept == IF Api!Origin(next) = Api!Origin(url) THEN headers ELSE Api!WithoutCredentials
<1>1. /\ step = "answer" /\ redirects' = Append(redirects, next) /\ url' = next
      /\ headers' = IF Api!TurnsToGet(status) THEN [kept EXCEPT !["content-type"] = {}] ELSE kept
      /\ IF Api!LastHop THEN step' = "done" /\ outcome' = "limit" ELSE step' = "policy" /\ outcome' = outcome
      /\ UNCHANGED <<job, cache, known, got, sent, granted, lookedUp, total, lost, truncated, shown>>
  BY DEF Api!Redirected, Api!Await, Api!Return, Api!plan, Api!response, Api!evidence
<1>2. outcome = "none" /\ granted
  BY <1>1 DEF ApiInv
<1>3. /\ DOMAIN kept = HeaderName
      /\ \A h \in HeaderName : kept[h] \subseteq headers[h]
      /\ Api!Origin(next) # Api!Origin(url) => \A h \in HeaderName \cap Api!CredentialHeader : kept[h] = {}
  BY DEF ApiInv, Api!WithoutCredentials
<1> HIDE DEF kept
<1>4. /\ DOMAIN headers' = HeaderName
      /\ \A h \in HeaderName : headers'[h] \subseteq kept[h]
  BY <1>1, <1>3
<1>5. Redactable' /\ Read'
  <2>1. \A h \in HeaderName : headers'[h] \subseteq {Api!Caller} \cup cache' \cup known'
    BY <1>1, <1>3, <1>4 DEF ApiInv, Redactable
  <2>2. step' # "secrets" /\ step' \notin {"start", "prompt"}
    BY <1>1
  <2> QED
    BY <1>1, <2>1, <2>2 DEF ApiInv, Redactable, Read
<1>6. /\ sent \in Seq({sent[i] : i \in DOMAIN sent}) /\ redirects \in Seq({redirects[i] : i \in DOMAIN redirects})
      /\ Len(redirects) + 1 = n /\ n <= MaxRedirects + 1 /\ Listed(Len(redirects)) /\ url = sent[n].url
  BY <1>1 DEF ApiInv, Hops
<1>7. /\ redirects' \in Seq({redirects'[i] : i \in DOMAIN redirects'})
      /\ Len(redirects) \in Nat /\ Len(redirects') = n
      /\ \A i \in 1..(n - 1) : redirects'[i] = redirects[i]
      /\ redirects'[n] = next
  <2>1. redirects' = Append(redirects, next) /\ redirects \in Seq({redirects[i] : i \in DOMAIN redirects})
    BY <1>1, <1>6
  <2>2. /\ redirects' \in Seq({redirects'[i] : i \in DOMAIN redirects'})
        /\ Len(redirects) \in Nat /\ Len(redirects') = Len(redirects) + 1
        /\ \A i \in 1..Len(redirects) : redirects'[i] = redirects[i]
        /\ redirects'[Len(redirects) + 1] = next
    BY <2>1, AppendAny
  <2>3. Len(redirects) = n - 1
    BY <1>6, <2>2
  <2> QED
    BY <1>6, <2>2, <2>3
<1>8. n \in Nat \ {0} /\ sent # <<>> /\ n - 1 = Len(redirects) /\ DOMAIN sent = 1..n
  BY <1>6, <1>7
<1> HIDE DEF n
<1>9. CASE Api!LastHop
  <2>1. lookedUp' # {} => granted
    BY <1>2
  <2> QED
    BY <1>1, <1>4, <1>5, <1>7, <1>9, <2>1, FailureKeeps
<1>10. CASE ~Api!LastHop
  <2>1. step' = "policy" /\ outcome' = "none" /\ n <= MaxRedirects
    <3>1. MaxRedirects \in Nat
      BY EffectsAssumption DEF Api!ExecutionAssumption
    <3> QED
      BY <1>1, <1>2, <1>8, <1>10, <3>1 DEF Api!LastHop
  <2>2. Hops'
    BY <1>1, <1>6, <1>7, <1>8, <2>1 DEF Hops, Listed, n
  <2>3. ASSUME Left(n) \/ Api!Origin(next) # Api!Origin(sent[1].url)
        PROVE  \A h \in Api!CredentialHeader \cap HeaderName : headers'[h] = {}
    <3>1. CASE Api!Origin(next) # Api!Origin(url)
      BY <1>3, <1>4, <3>1
    <3>2. CASE Api!Origin(next) = Api!Origin(url)
      <4>1. Left(n)
        BY <1>6, <1>8, <2>3, <3>2 DEF Left
      <4>2. Bare
        BY <1>1, <4>1 DEF ApiInv, Stripped, n
      <4> QED
        BY <1>3, <1>4, <4>2 DEF Bare
    <3> QED
      BY <3>1, <3>2
  <2>4. Stripped'
    <3>1. Left(Len(sent))' => Left(n)
      BY <1>1 DEF Left, n, Api!Origin
    <3>2. Api!Origin(url)' # Api!Origin(sent[1].url)' => Api!Origin(next) # Api!Origin(sent[1].url)
      BY <1>1 DEF Api!Origin
    <3> QED
      BY <2>1, <2>3, <3>1, <3>2 DEF Stripped, Bare
  <2>5. Api!CredentialsStayHome' /\ Api!EveryHopIsChecked' /\ Api!ExchangeTellsNoSecret'
    BY <1>1, <1>2, <2>1 DEF ApiInv, Api!CredentialsStayHome, Api!EveryHopIsChecked, Api!ExchangeTellsNoSecret
  <2>6. Handed' /\ Vetted'
    BY <1>1, <2>1 DEF ApiInv, Handed, Vetted
  <2> QED
    BY <1>1, <1>2, <1>4, <1>5, <2>1, <2>2, <2>4, <2>5, <2>6 DEF ApiInv
<1> QED
  BY <1>9, <1>10

(* What is read stays within the cap, and what is not is called truncated. *)
LEMMA ReadChunkKeeps ==
  ASSUME ApiInv, NEW bytes \in 1..2, Api!ReadChunk(bytes)
  PROVE  ApiInv'
<1>1. /\ step = "body" /\ ~truncated /\ (bytes >= Cap - total => truncated')
      /\ total' = IF bytes >= Cap - total THEN Cap ELSE total + bytes
      /\ lost' = lost + bytes - (total' - total)
      /\ UNCHANGED <<job, step, outcome, cache, known, got, headers, url, redirects, sent, granted, lookedUp, shown>>
  BY DEF Api!ReadChunk, Api!OverCap, Api!plan, Api!message, Api!evidence
<1>2. Read'
  <2>1. Cap \in Nat /\ total \in 0..Cap /\ lost = 0
    BY <1>1, EffectsAssumption DEF ApiInv, Read, Api!ExecutionAssumption
  <2>2. bytes >= Cap - total => total' = Cap /\ lost' \in Nat /\ truncated'
    BY <1>1, <2>1
  <2>3. ~(bytes >= Cap - total) => total' = total + bytes /\ total' <= Cap /\ lost' = 0
    BY <1>1, <2>1
  <2> QED
    BY <1>1, <2>1, <2>2, <2>3 DEF ApiInv, Read
<1>3. Redactable' /\ Hops' /\ Stripped' /\ Handed' /\ Vetted'
  BY <1>1 DEF ApiInv, Redactable, Hops, Listed, Stripped, Handed, Vetted, Left, Bare, Api!Origin
<1>4. outcome = "none"
  BY <1>1 DEF ApiInv
<1>5. Api!CredentialsStayHome' /\ Api!EveryHopIsChecked' /\ Api!ExchangeTellsNoSecret'
  BY <1>1, <1>4 DEF ApiInv, Api!CredentialsStayHome, Api!EveryHopIsChecked, Api!ExchangeTellsNoSecret
<1> QED
  BY <1>1, <1>2, <1>3, <1>5 DEF ApiInv

(* The exchange went through the redactor, which knows every secret that   *)
(* was resolved or sent.                                                   *)
LEMMA BodyEndsKeeps ==
  ASSUME ApiInv, NEW echoed \in SUBSET Api!Received, Api!BodyEnds(echoed)
  PROVE  ApiInv'
<1>1. /\ step = "body" /\ step' = "done" /\ outcome' = "ok"
      /\ shown' = [answer |-> echoed \ known,
                   request |-> (UNION {headers[h] : h \in HeaderName \ Api!CredentialHeader}) \ known,
                   parts |-> IF truncated THEN echoed ELSE {},
                   verbatim |-> echoed]
      /\ echoed \subseteq Api!Received
      /\ UNCHANGED <<job, cache, known, got, headers, url, redirects, sent, granted, lookedUp, total, lost, truncated>>
  BY DEF Api!BodyEnds, Api!Return, Api!Redacted, Api!plan, Api!message, Api!evidence
<1>2. Redactable' /\ Read' /\ DOMAIN headers' = HeaderName
  BY <1>1, SameSecrets
<1>3. Hops' /\ Stripped' /\ Handed' /\ Vetted'
  BY <1>1 DEF ApiInv, Hops, Stripped, Handed, Vetted
<1>4. Api!ExchangeTellsNoSecret'
  <2>1. Api!Secrets \ ShortRef \subseteq known
    <3>1. \A v \in Api!Secrets \ ShortRef :
            v \in cache \/ \E i \in DOMAIN sent : v \in sent[i].values /\ v # Api!Caller
      BY DEF Api!Secrets, Api!Received
    <3> QED
      BY <3>1 DEF ApiInv, Redactable, Handed
  <2>2. Api!Secrets' = Api!Secrets /\ Api!Received' = Api!Received /\ known' = known
    BY <1>1 DEF Api!Secrets, Api!Received, Api!Caller
  <2> QED
    BY <1>1, <2>1, <2>2 DEF Api!ExchangeTellsNoSecret
<1>5. Api!CredentialsStayHome'
  BY <1>1 DEF ApiInv, Api!CredentialsStayHome
<1>6. redirects = [i \in 1..Len(sent) - 1 |-> sent[i + 1].url]
  <2>1. /\ redirects \in Seq({redirects[i] : i \in DOMAIN redirects}) /\ Len(redirects) + 1 = Len(sent)
        /\ Listed(Len(redirects)) /\ sent \in Seq({sent[i] : i \in DOMAIN sent})
    BY <1>1 DEF ApiInv, Hops
  <2>2. Len(redirects) \in Nat /\ Len(sent) - 1 = Len(redirects)
    BY <2>1
  <2>3. redirects = [i \in 1..Len(redirects) |-> redirects[i]]
    BY <2>1
  <2> QED
    BY <2>1, <2>2, <2>3 DEF Listed
<1>7. Api!EveryHopIsChecked'
  BY <1>1, <1>6 DEF ApiInv, Api!EveryHopIsChecked
<1> QED
  BY <1>1, <1>2, <1>3, <1>4, <1>5, <1>7 DEF ApiInv

(* Every step of a call keeps its invariant.                               *)
LEMMA ApiNext ==
  ASSUME ApiInv, Api!Advance
  PROVE  ApiInv'
BY BuildingKeeps, SecretResolvedKeeps, SecretFailsKeeps, SchemeAppliedKeeps, SendKeeps, AnswerFailsKeeps,
   CheckUrlKeeps, AnswerArrivesKeeps, RedirectedKeeps, ReadChunkKeeps, BodyEndsKeeps DEF Api!Advance

-----------------------------------------------------------------------------
(* The three together.                                                     *)
LEMMA Initially == Init => IInv
BY ApiInit, CommandInit, SessionInit DEF Init, IInv

(* A step of another part leaves the call as it is.                        *)
LEMMA ApiStutters ==
  ASSUME ApiInv, UNCHANGED apiVars
  PROVE  ApiInv'
<1>1. UNCHANGED <<job, step, due, got, cache, known, headers, url, redirects, vetted, total, truncated, shown, outcome,
                  sent, granted, lookedUp, lost>>
  BY DEF apiVars
<1>2. Redactable' /\ Read' /\ DOMAIN headers' = HeaderName
  BY <1>1 DEF ApiInv, Redactable, Read, Api!Head1
<1>3. Hops' /\ Stripped' /\ Handed' /\ Vetted'
  <2>1. Hops' /\ Stripped' /\ Handed'
    BY <1>1 DEF ApiInv, Hops, Listed, Stripped, Handed, Left, Bare
  <2>2. Vetted'
    BY <1>1 DEF ApiInv, Vetted, Api!Checked, Api!PermittedByName, Api!PermittedByAddress, Api!Allowlisted, Api!Addresses
  <2> QED
    BY <2>1, <2>2
<1>4. Api!CredentialsStayHome' /\ Api!EveryHopIsChecked' /\ Api!ExchangeTellsNoSecret'
  BY <1>1 DEF ApiInv, Api!CredentialsStayHome, Api!EveryHopIsChecked, Api!ExchangeTellsNoSecret, Api!Secrets,
     Api!Received
<1> QED
  BY <1>1, <1>2, <1>3, <1>4 DEF ApiInv

(* A step of another part leaves the session as it is.                     *)
LEMMA SessionStutters ==
  ASSUME SessionInv, UNCHANGED sessionVars
  PROVE  SessionInv'
BY UnchangedIsSilent, SilentKeeps DEF sessionVars, Editor!lifecycle

(* The invariant of the three holds throughout.                            *)
LEMMA Invariance == Spec => []IInv
<1>1. IInv /\ [Next]_vars => IInv'
  <2> SUFFICES ASSUME IInv, [Next]_vars PROVE IInv'
    OBVIOUS
  <2>1. CASE In("api") /\ Api!Advance
    BY <2>1, ApiNext DEF IInv, In
  <2>2. CASE In("command") /\ Cmd!Next
    BY <2>2, CommandNext DEF IInv, In
  <2>3. CASE In("session") /\ Editor!Next
    BY <2>3, SessionNext DEF IInv, In
  <2>4. CASE UNCHANGED vars
    <3>1. part' = part /\ UNCHANGED apiVars /\ UNCHANGED commandVars /\ UNCHANGED sessionVars
      BY <2>4 DEF vars
    <3>2. CommandInv => CommandInv'
      BY <3>1 DEF commandVars, CommandInv, Cmd!CommandOutcome, Cmd!Writers
    <3> QED
      BY <3>1, <3>2, ApiStutters, SessionStutters DEF IInv
  <2> QED
    BY <2>1, <2>2, <2>3, <2>4 DEF Next
<1> QED
  BY Initially, <1>1, PTL DEF Spec

(* The credentials of a request reach the origin that was asked for and no *)
(* other, and each of its hops was authorised and checked before it was    *)
(* made, with the addresses the policy's own lookup gave (send() of        *)
(* executor.ts); what fetch finds for a name is not bounded.               *)
THEOREM RequestsBounded == Spec => []RequestsStayInBounds
<1>1. IInv => RequestsStayInBounds
  BY DEF IInv, ApiInv, RequestsStayInBounds
<1> QED
  BY Invariance, <1>1, PTL

(* Where an exchange is redacted it shows no secret it was made with,      *)
(* though the servers echo all of them, but for the parts the cap may      *)
(* leave of one; and an exchange that is not called truncated is whole     *)
(* (toExchange() and readBody() of executor.ts).                           *)
THEOREM ExchangesHonest == Spec => []ExchangesAreHonest
<1>1. IInv => ExchangesAreHonest
  BY EffectsAssumption DEF IInv, ApiInv, Read, ExchangesAreHonest, Api!UncutBodiesAreWhole, Api!ExecutionAssumption
<1> QED
  BY Invariance, <1>1, PTL

(* Whatever processes a command starts, and whenever they end, what is     *)
(* reported of it is what happened (spawnAndCollect() of executor.ts).     *)
THEOREM CommandsTrue == Spec => []CommandsAreReportedTruly
<1>1. IInv => CommandsAreReportedTruly
  BY DEF IInv, CommandInv, CommandsAreReportedTruly
<1> QED
  BY Invariance, <1>1, PTL

(* However often servers die, are restarted or disposed of, one at most is *)
(* supervised, it serves the project, and the view shows its patches, but  *)
(* for what changed without a word to the session or whose list was lost   *)
(* (extension.ts, serverProcess.ts).                                       *)
THEOREM SessionInStep == Spec => []SessionIsInStep
<1>1. IInv => SessionIsInStep
  BY SessionPromises DEF IInv, SessionIsInStep
<1> QED
  BY Invariance, <1>1, PTL
=============================================================================
