----------------------------- MODULE LtoProofs -----------------------------
(***************************************************************************)
(* Proofs about Lto.                                                       *)
(***************************************************************************)
EXTENDS Lto, FiniteSetTheorems, WellFoundedInduction, TLAPS

-----------------------------------------------------------------------------
(***************************************************************************)
(* The session                                                             *)
(***************************************************************************)
HostFields == {"active", "phase", "plugins", "files", "asking", "failed", "errors", "saveTemps",
               "cleaners", "cleaning"}

(* The host apart from its files. *)
HostOK ==
  /\ DOMAIN host = HostFields
  /\ host.plugins \in Nat /\ host.plugins <= NumPlugins
  /\ host.cleaners \subseteq 1 .. host.plugins
  /\ host.asking \in Nat /\ host.cleaning \in Nat
  /\ host.phase = "loading" => host.asking = 0
  /\ host.failed /\ host.phase # "finished" => host.asking \notin 1 .. host.plugins

(* The clean-up calls made: none before the session ends, then those of    *)
(* the plugins passed, and all of them when the host is gone.              *)
Passed(p) ==
  IF host.active THEN host.phase = "finished" /\ p < host.cleaning ELSE TRUE

CallsMade ==
  /\ cleaned \in [1 .. NumPlugins -> Nat]
  /\ \A p \in 1 .. NumPlugins : cleaned[p] = IF Passed(p) /\ Called(p) THEN 1 ELSE 0

Session ==
  /\ HostOK
  /\ CallsMade
  /\ stage = "done" => ~host.active
  /\ host.active /\ host.phase = "finished" => stage \in {"planned", "failed"}
  /\ host.active /\ stage \in {"symbols", "new input"} => host.phase = "all symbols read"
  /\ ~host.active /\ stage \notin {"failed", "done"} => host.cleaners = {}

LEMMA CollectSession ==
  ASSUME Session, Collect
  PROVE  Session'
<1>1. UNCHANGED <<host, cleaned>>
  BY DEF Collect, hostVars
<1>2. /\ stage \notin {"planned", "failed", "done"}
      /\ stage' \notin {"done", "symbols", "new input"}
  BY DEF Collect, CollectStep, ResolveSpecs, OpenInput, PushInputs, LoadNext, NotLoaded,
    SkipIncompatible, AddObject, AddShared, AddArchive, AddScript, EndScript, AddOther, WalkDone,
    ReadIndex, FinishInputs, Stop, AddOne, Ready, Adding
<1> QED
  BY <1>1, <1>2 DEF Session, HostOK, CallsMade, Passed, Called

(* A step of a session that goes on. *)
GoesOn ==
  /\ host.active /\ stage \notin {"planned", "failed"} /\ stage' # "done"
  /\ UNCHANGED cleaned
  /\ DOMAIN host' = HostFields /\ host'.active = host.active /\ host'.cleaning = host.cleaning
  /\ host'.phase # "finished"
  /\ host'.plugins \in Nat /\ host'.plugins <= NumPlugins
  /\ host'.cleaners \subseteq 1 .. host'.plugins /\ host'.asking \in Nat
  /\ host'.phase = "loading" => host'.asking = 0
  /\ stage' \in {"symbols", "new input"} => host'.phase = "all symbols read"
  /\ host'.failed => host'.asking \notin 1 .. host'.plugins

LEMMA SessionGoesOn ==
  ASSUME Session, GoesOn
  PROVE  Session'
<1>1. host.phase # "finished"
  BY DEF Session, GoesOn
<1>2. HostOK'
  BY DEF HostOK, Session, GoesOn
<1>3. CallsMade'
  BY <1>1 DEF CallsMade, Passed, Session, GoesOn
<1> QED
  BY <1>2, <1>3 DEF Session, GoesOn

(* A step that leaves the host alone. *)
LEMMA SessionRests ==
  ASSUME Session, UNCHANGED <<host, cleaned>>, stage \notin {"planned", "failed", "done"},
         stage' \notin {"done", "symbols", "new input"}
  PROVE  Session'
BY DEF Session, HostOK, CallsMade, Passed, Called

LEMMA LtoStepSession ==
  ASSUME PluginAssumption, Session, LtoStep
  PROVE  Session'
<1>0. /\ DOMAIN host = HostFields /\ host.plugins \in Nat /\ host.plugins <= NumPlugins
      /\ host.cleaners \subseteq 1 .. host.plugins /\ host.asking \in Nat /\ host.cleaning \in Nat
      /\ NumPlugins \in Nat
  BY DEF Session, HostOK, PluginAssumption
<1>3. CASE StartClaims \/ NamesDone \/ LoadRound \/ ClaimsDone
  BY <1>3, SessionRests DEF StartClaims, NamesDone, LoadRound, ClaimsDone, SetStage, Fail, hostVars
<1>4. CASE StartSession
  <2>1. /\ ~host.active /\ host' = [NoHost EXCEPT !.active = TRUE, !.phase = "loading",
                                                  !.saveTemps = job.saveTemps]
        /\ UNCHANGED <<cleaned, stage>> /\ stage \in {"names", "claiming"}
    BY <1>4 DEF StartSession, BeginSession, Offering, inputVars
  <2>2. /\ DOMAIN host' = HostFields /\ host'.active /\ host'.phase = "loading" /\ ~host'.failed
        /\ host'.plugins = 0 /\ host'.cleaners = {} /\ host'.asking = 0 /\ host'.cleaning = 0
    BY <2>1 DEF NoHost, HostFields
  <2>3. HostOK'
    BY <2>2, <1>0 DEF HostOK
  <2>4. host.cleaners = {}
    BY <2>1 DEF Session
  <2>5. \A p \in 1 .. NumPlugins : cleaned[p] = 0
    BY <2>4 DEF Session, CallsMade, Called
  <2>6. CallsMade'
    BY <2>1, <2>2, <2>5 DEF CallsMade, Called, Session
  <2> QED
    BY <2>1, <2>2, <2>3, <2>6 DEF Session
<1>8. CASE StartPlugin
  <2>1. PICK b : LoadPlugin(b)
    BY <1>8 DEF StartPlugin
  <2>2. stage \in {"names", "claiming"} /\ stage' = stage
    BY <1>8 DEF StartPlugin, Offering, inputVars
  <2>3. PICK c : /\ host' = [Messages(host, b) EXCEPT !.plugins = @ + 1, !.cleaners = c]
                 /\ c \in {host.cleaners, host.cleaners \cup {host.plugins + 1}}
                 /\ host.active /\ host.phase = "loading" /\ host.plugins < NumPlugins
                 /\ cleaned' = cleaned
    <3>1. host.active /\ host.phase = "loading" /\ host.plugins < NumPlugins /\ cleaned' = cleaned
      BY <2>1 DEF LoadPlugin, MayLoad, Usable
    <3>2. host' = [Messages(host, b) EXCEPT !.plugins = @ + 1,
                     !.cleaners = IF b.cleans THEN @ \cup {host.plugins + 1} ELSE @]
      BY <2>1 DEF LoadPlugin
    <3>3. Messages(host, b).cleaners = host.cleaners
      BY <1>0 DEF Messages, HostFields
    <3>4. CASE b.cleans
      BY <3>1, <3>2, <3>3, <3>4
    <3>5. CASE ~b.cleans
      BY <3>1, <3>2, <3>3, <3>5
    <3> QED
      BY <3>4, <3>5
  <2>4. /\ DOMAIN host' = HostFields /\ host'.active = host.active /\ host'.phase = "loading"
        /\ host'.plugins = host.plugins + 1 /\ host'.cleaners = c /\ host'.asking = host.asking
        /\ host'.cleaning = host.cleaning
    BY <2>3, <1>0 DEF Messages, HostFields
  <2>5. host.asking = 0
    BY <2>3 DEF Session, HostOK
  <2>6. c \subseteq 1 .. host.plugins + 1
    BY <2>3, <1>0
  <2>19. host'.asking \in Nat
    <3>1. host'.asking = 0
      BY <2>4, <2>5
    <3> QED
      BY <3>1
  <2>16. host.active /\ cleaned' = cleaned
    BY <2>3
  <2>17. /\ host'.plugins \in Nat /\ host'.plugins <= NumPlugins
         /\ host'.cleaners \subseteq 1 .. host'.plugins
    BY <2>3, <2>4, <2>6, <1>0
  <2>18. host'.asking \notin 1 .. host'.plugins
    <3>1. host'.asking = 0
      BY <2>4, <2>5
    <3> QED
      BY <3>1
  <2>20. GoesOn
    BY <2>16, <2>17, <2>18, <2>19, <2>2, <2>4, <2>5, <2>6, <1>0 DEF GoesOn
  <2> QED
    BY <2>20, SessionGoesOn
<1>9. CASE PluginLoadFailed
  <2>1. UNCHANGED <<host, cleaned>> /\ stage \in {"names", "claiming"} /\ stage' = "failed"
    BY <1>9 DEF PluginLoadFailed, Fail, hostVars, RefusePlugin, Offering
  <2> QED
    BY <2>1, SessionRests
<1>10. CASE OfferFile
  <2>1. /\ host.active /\ ~host.failed /\ cleaned' = cleaned /\ stage \in {"names", "claiming"}
        /\ stage' = stage
    BY <1>10 DEF OfferFile, OpenClaim, Usable, Offering, inputVars
  <2>2. /\ DOMAIN host' = HostFields /\ host'.active = host.active /\ host'.phase = "claiming"
        /\ host'.plugins = host.plugins /\ host'.cleaners = host.cleaners /\ host'.asking = 1
        /\ host'.cleaning = host.cleaning /\ host'.failed = host.failed
    BY <1>10, <1>0 DEF OfferFile, OpenClaim, HostFields
  <2>19. host'.asking \in Nat
    <3>1. host'.asking = 1
      BY <2>2
    <3> QED
      BY <3>1
  <2>20. GoesOn
    BY <2>19, <2>1, <2>2, <1>0 DEF GoesOn
  <2> QED
    BY <2>20, SessionGoesOn
<1>11. CASE OfferToPlugin
  <2>1. PICK b, g : AskPlugin(b, g)
    BY <1>11 DEF OfferToPlugin
  <2>2. /\ host.active /\ cleaned' = cleaned /\ stage \in {"names", "claiming"} /\ stage' = stage
        /\ host.asking \in 1 .. host.plugins
    BY <1>11, <2>1 DEF OfferToPlugin, AskPlugin, Offering, inputVars
  <2>3. PICK asking, fs :
          /\ host' = [Messages(host, b) EXCEPT !.asking = asking, !.files[Current] = fs]
          /\ asking = AskedNext(Messages(host, b), b)
    BY <2>1 DEF AskPlugin
  <2>4. /\ DOMAIN host' = HostFields /\ host'.active = host.active /\ host'.phase = host.phase
        /\ host'.plugins = host.plugins /\ host'.cleaners = host.cleaners /\ host'.asking = asking
        /\ host'.cleaning = host.cleaning /\ host'.failed = Messages(host, b).failed
    BY <2>3, <1>0 DEF Messages, HostFields
  <2>5. Messages(host, b).plugins = host.plugins /\ Messages(host, b).asking = host.asking
    BY <1>0 DEF Messages, HostFields
  <2>6. /\ host'.failed => asking = host.plugins + 1
        /\ asking \in {host.plugins + 1, host.asking + 1}
    BY <2>3, <2>4, <2>5 DEF AskedNext
  <2>7. host.phase \notin {"finished", "loading"}
    <3>1. host.asking # 0
      BY <2>2
    <3> QED
      BY <2>2, <3>1 DEF Session, HostOK
  <2>19. host'.asking \in Nat
    <3>1. host'.asking \in {host.plugins + 1, host.asking + 1}
      BY <2>4, <2>6
    <3> QED
      BY <3>1, <1>0
  <2>18. host'.failed => host'.asking \notin 1 .. host'.plugins
    <3>1. host'.failed => host'.asking = host'.plugins + 1
      BY <2>4, <2>6
    <3>2. host'.plugins \in Nat
      BY <2>4, <1>0
    <3> QED
      BY <3>1, <3>2
  <2>20. GoesOn
    BY <2>18, <2>19, <2>2, <2>4, <2>6, <2>7, <1>0 DEF GoesOn
  <2> QED
    BY <2>20, SessionGoesOn
<1>12. CASE EndOffer
  <2>1. /\ host.active /\ cleaned' = cleaned /\ stage \in {"names", "claiming"}
        /\ stage' \in {stage, "failed"}
    BY <1>12 DEF EndOffer, CloseClaim, Offering, Fail
  <2>2. /\ DOMAIN host' = HostFields /\ host'.active = host.active /\ host'.phase = host.phase
        /\ host'.plugins = host.plugins /\ host'.cleaners = host.cleaners /\ host'.asking = 0
        /\ host'.cleaning = host.cleaning
    BY <1>12, <1>0 DEF EndOffer, CloseClaim, HostFields
  <2>3. host.phase # "finished"
    BY <2>1 DEF Session
  <2>19. host'.asking \in Nat
    <3>1. host'.asking = 0
      BY <2>2
    <3> QED
      BY <3>1
  <2>18. host'.asking \notin 1 .. host'.plugins
    <3>1. host'.asking = 0
      BY <2>2
    <3> QED
      BY <3>1
  <2>20. GoesOn
    BY <2>18, <2>19, <2>1, <2>2, <2>3, <1>0 DEF GoesOn
  <2> QED
    BY <2>20, SessionGoesOn
<1>13. CASE TellPlugins
  <2>1. PICK r : PublishResolutions(r)
    BY <1>13 DEF TellPlugins
  <2>2. /\ host.active /\ ~host.failed /\ cleaned' = cleaned /\ stage = "resolved"
        /\ stage' = "symbols"
    BY <1>13, <2>1 DEF TellPlugins, PublishResolutions, Usable, SetStage
  <2>3. /\ DOMAIN host' = HostFields /\ host'.active = host.active
        /\ host'.phase = "all symbols read"
        /\ host'.plugins = host.plugins /\ host'.cleaners = host.cleaners /\ host'.asking = 1
        /\ host'.cleaning = host.cleaning /\ host'.failed = host.failed
    BY <2>1, <1>0 DEF PublishResolutions, HostFields
  <2>19. host'.asking \in Nat
    <3>1. host'.asking = 1
      BY <2>3
    <3> QED
      BY <3>1
  <2>20. GoesOn
    BY <2>19, <2>2, <2>3, <1>0 DEF GoesOn
  <2> QED
    BY <2>20, SessionGoesOn
<1>14. CASE CompileIr
  <2>1. PICK b : RunHandler(b)
    BY <1>14 DEF CompileIr
  <2>2. /\ host.active /\ cleaned' = cleaned /\ stage \in {"symbols", "new input"}
        /\ stage' = stage /\ host.phase = "all symbols read" /\ host.asking \in 1 .. host.plugins
    BY <1>14, <2>1 DEF CompileIr, RunHandler, inputVars
  <2>3. PICK asking : /\ host' = [Messages(host, b) EXCEPT !.asking = asking]
                      /\ asking = IF Messages(host, b).failed THEN host.plugins + 1
                                  ELSE Messages(host, b).asking + 1
    BY <2>1 DEF RunHandler
  <2>4. /\ DOMAIN host' = HostFields /\ host'.active = host.active /\ host'.phase = host.phase
        /\ host'.plugins = host.plugins /\ host'.cleaners = host.cleaners /\ host'.asking = asking
        /\ host'.cleaning = host.cleaning /\ host'.failed = Messages(host, b).failed
        /\ Messages(host, b).asking = host.asking
    BY <2>3, <1>0 DEF Messages, HostFields
  <2>19. host'.asking \in Nat
    <3>1. host'.asking \in {host.plugins + 1, host.asking + 1}
      BY <2>3, <2>4
    <3> QED
      BY <3>1, <1>0
  <2>18. host'.failed => host'.asking \notin 1 .. host'.plugins
    <3>1. host'.failed => host'.asking = host'.plugins + 1
      BY <2>3, <2>4
    <3>2. host'.plugins \in Nat
      BY <2>4, <1>0
    <3> QED
      BY <3>1, <3>2
  <2>20. GoesOn
    BY <2>2, <2>4, <2>18, <2>19, <1>0 DEF GoesOn
  <2> QED
    BY <2>20, SessionGoesOn
<1>15. ASSUME EndHandlers, host.active, stage \in {"symbols", "new input"}, stage' # "done"
       PROVE  Session'
  <2>1. /\ DOMAIN host' = HostFields /\ host'.active = host.active /\ host'.phase = host.phase
        /\ host'.plugins = host.plugins /\ host'.cleaners = host.cleaners /\ host'.asking = 0
        /\ host'.cleaning = host.cleaning /\ cleaned' = cleaned
    BY <1>15, <1>0 DEF EndHandlers, HostFields
  <2>2. host.phase = "all symbols read"
    BY <1>15 DEF Session
  <2>19. host'.asking \in Nat
    <3>1. host'.asking = 0
      BY <2>1
    <3> QED
      BY <3>1
  <2>18. host'.asking \notin 1 .. host'.plugins
    <3>1. host'.asking = 0
      BY <2>1
    <3> QED
      BY <3>1
  <2>20. GoesOn
    BY <2>18, <2>19, <2>1, <2>2, <1>0, <1>15 DEF GoesOn
  <2> QED
    BY <2>20, SessionGoesOn
<1>16. CASE ReplaceIr
  <2>1. EndHandlers /\ host.active /\ stage = "symbols"
    BY <1>16 DEF ReplaceIr, HandlersDone
  <2>2. stage' \in {"failed", "new input"}
    BY <1>16 DEF ReplaceIr, Fail
  <2> QED
    BY <2>1, <2>2, <1>15
<1>17. CASE OfferObject
  <2>1. /\ host.active /\ ~host.failed /\ cleaned' = cleaned /\ stage = "new input" /\ stage' = stage
        /\ host' = [host EXCEPT !.asking = 1]
    BY <1>17 DEF OfferObject, Usable, inputVars
  <2>2. /\ DOMAIN host' = HostFields /\ host'.active = host.active /\ host'.phase = host.phase
        /\ host'.plugins = host.plugins /\ host'.cleaners = host.cleaners /\ host'.asking = 1
        /\ host'.cleaning = host.cleaning /\ host'.failed = host.failed
    BY <2>1, <1>0 DEF HostFields
  <2>3. host.phase = "all symbols read"
    BY <2>1 DEF Session
  <2>19. host'.asking \in Nat
    <3>1. host'.asking = 1
      BY <2>2
    <3> QED
      BY <3>1
  <2>17. /\ host'.plugins \in Nat /\ host'.plugins <= NumPlugins
         /\ host'.cleaners \subseteq 1 .. host'.plugins
    BY <2>2, <1>0
  <2>18. /\ host.active /\ ~host'.failed /\ cleaned' = cleaned
         /\ stage = "new input" /\ stage' = stage
    BY <2>1, <2>2
  <2>20. GoesOn
    BY <2>18, <2>19, <2>2, <2>3, <1>0 DEF GoesOn
  <2> QED
    BY <2>20, SessionGoesOn
<1>18. CASE ObjectOffered
  BY <1>15, <1>18 DEF ObjectOffered, HandlersDone, Fail, inputVars
<1>19. CASE ObjectsOffered \/ AddLtoLibrary \/ PlanLibraries
  BY <1>19, SessionRests DEF ObjectsOffered, AddLtoLibrary, PlanLibraries, SetStage, hostVars
<1>20. CASE LaterStageFails
  <2>1. UNCHANGED <<host, cleaned>> /\ stage = "planned" /\ stage' = "failed"
    BY <1>20 DEF LaterStageFails, Fail, hostVars
  <2> QED
    BY <2>1 DEF Session, HostOK, CallsMade, Passed, Called
<1>21. CASE BeginCleanUp
  <2>1. /\ host.active /\ host.phase # "finished" /\ UNCHANGED <<cleaned, stage>>
        /\ stage \in {"planned", "failed"}
        /\ host' = [host EXCEPT !.phase = "finished", !.cleaning = 1]
    BY <1>21 DEF BeginCleanUp, BeginEnd, inputVars
  <2>2. /\ DOMAIN host' = HostFields /\ host'.active = host.active /\ host'.phase = "finished"
        /\ host'.plugins = host.plugins /\ host'.cleaners = host.cleaners
        /\ host'.asking = host.asking /\ host'.cleaning = 1
    BY <2>1, <1>0 DEF HostFields
  <2>3. HostOK'
    BY <2>2, <1>0 DEF HostOK
  <2>4. CallsMade'
    <3>1. \A p \in 1 .. NumPlugins : cleaned[p] = 0
      BY <2>1 DEF CallsMade, Passed, Session
    <3>2. \A p \in 1 .. NumPlugins : ~Passed(p)'
      BY <2>1, <2>2 DEF Passed
    <3>3. cleaned' = cleaned /\ cleaned \in [1 .. NumPlugins -> Nat]
      BY <2>1 DEF CallsMade, Session
    <3> QED
      BY <3>1, <3>2, <3>3 DEF CallsMade
  <2> QED
    BY <2>1, <2>2, <2>3, <2>4 DEF Session
<1>22. CASE CleanUpPlugin
  <2>1. PICK b : CleanUp(b)
    BY <1>22 DEF CleanUpPlugin
  <2>2. /\ host.active /\ host.phase = "finished" /\ host.cleaning \in 1 .. host.plugins
        /\ UNCHANGED stage /\ stage \in {"planned", "failed"}
    BY <1>22, <2>1 DEF CleanUpPlugin, CleanUp, Cleaning, inputVars
  <2>3. PICK e, x : host' = [host EXCEPT !.cleaning = @ + 1, !.errors = e, !.failed = x]
    <3>1. CASE Called(host.cleaning)
      BY <2>1, <3>1 DEF CleanUp
    <3>2. CASE ~Called(host.cleaning)
      <4>1. host' = [host EXCEPT !.cleaning = @ + 1]
        BY <2>1, <3>2 DEF CleanUp
      <4>2. host' = [host EXCEPT !.cleaning = @ + 1, !.errors = host.errors, !.failed = host.failed]
        BY <4>1, <1>0 DEF HostFields
      <4> QED
        BY <4>2
    <3> QED
      BY <3>1, <3>2
  <2>4. /\ DOMAIN host' = HostFields /\ host'.active = host.active /\ host'.phase = host.phase
        /\ host'.plugins = host.plugins /\ host'.cleaners = host.cleaners
        /\ host'.asking = host.asking /\ host'.cleaning = host.cleaning + 1
        /\ host'.saveTemps = host.saveTemps
    BY <2>3, <1>0 DEF HostFields
  <2>5. HostOK'
    BY <2>2, <2>4, <1>0 DEF HostOK
  <2>6. cleaned' = IF Called(host.cleaning) THEN [cleaned EXCEPT ![host.cleaning] = @ + 1]
                   ELSE cleaned
    BY <2>1 DEF CleanUp
  <2>7. /\ cleaned \in [1 .. NumPlugins -> Nat]
        /\ \A p \in 1 .. NumPlugins :
             cleaned[p] = IF p < host.cleaning /\ Called(p) THEN 1 ELSE 0
    BY <2>2 DEF Session, CallsMade, Passed
  <2>8. cleaned' \in [1 .. NumPlugins -> Nat]
    <3>1. host.cleaning \in 1 .. NumPlugins
      BY <2>2, <1>0
    <3>2. CASE Called(host.cleaning)
      BY <2>6, <2>7, <3>1, <3>2
    <3>3. CASE ~Called(host.cleaning)
      BY <2>6, <2>7, <3>3
    <3> QED
      BY <3>2, <3>3
  <2>9. ASSUME NEW p \in 1 .. NumPlugins
        PROVE  cleaned'[p] = IF p < host.cleaning + 1 /\ Called(p) THEN 1 ELSE 0
    <3>1. CASE p = host.cleaning
      <4>1. cleaned[p] = 0
        BY <2>7, <3>1, <1>0
      <4>2. CASE Called(p)
        BY <2>6, <2>7, <3>1, <4>1, <4>2, <1>0
      <4>3. CASE ~Called(p)
        BY <2>6, <3>1, <4>1, <4>3
      <4> QED
        BY <4>2, <4>3
    <3>2. CASE p # host.cleaning
      <4>1. cleaned'[p] = cleaned[p]
        BY <2>6, <2>7, <3>2
      <4>2. p < host.cleaning + 1 <=> p < host.cleaning
        BY <3>2, <1>0
      <4> QED
        BY <4>1, <4>2, <2>7
    <3> QED
      BY <3>1, <3>2
  <2>10. \A p : Called(p)' <=> Called(p)
    BY <2>4 DEF Called
  <2>11. CallsMade'
    BY <2>2, <2>4, <2>8, <2>9, <2>10 DEF CallsMade, Passed, Called
  <2> QED
    BY <2>2, <2>4, <2>5, <2>11 DEF Session
<1>23. ASSUME EndSession, stage' \in {"failed", "done"} PROVE Session'
  <2>1. /\ host.active /\ host.phase = "finished" /\ host.cleaning = host.plugins + 1
        /\ cleaned' = cleaned
        /\ host' = [NoHost EXCEPT !.failed = host.failed, !.plugins = host.plugins,
                       !.saveTemps = host.saveTemps, !.cleaners = host.cleaners]
    BY <1>23 DEF EndSession, Cleaning
  <2>2. /\ DOMAIN host' = HostFields /\ ~host'.active /\ host'.phase = "finished"
        /\ host'.plugins = host.plugins /\ host'.cleaners = host.cleaners
        /\ host'.saveTemps = host.saveTemps /\ host'.asking = 0 /\ host'.cleaning = 0
    BY <2>1 DEF NoHost, HostFields
  <2>3. HostOK'
    BY <2>2, <1>0 DEF HostOK
  <2>4. \A p \in 1 .. NumPlugins : Called(p) => Passed(p)
    BY <2>1, <1>0 DEF Called, Passed
  <2>5. CallsMade'
    BY <2>1, <2>2, <2>4 DEF CallsMade, Passed, Called, Session
  <2> QED
    BY <2>2, <2>3, <2>5, <1>23 DEF Session
<1>24. CASE FinishLink
  <2>1. stage = "planned" /\ stage' \in {"failed", "done"}
    BY <1>24 DEF FinishLink, SetStage, Fail
  <2>2. CASE EndSession
    BY <2>1, <2>2, <1>23
  <2>3. CASE ~host.active /\ UNCHANGED <<host, cleaned>>
    BY <2>1, <2>3 DEF Session, HostOK, CallsMade, Passed, Called
  <2> QED
    BY <2>2, <2>3, <1>24 DEF FinishLink, hostVars
<1>25. CASE DropSession
  BY <1>25, <1>23 DEF DropSession, inputVars
<1> QED
  BY <1>3, <1>4, <1>8, <1>9, <1>10, <1>11, <1>12, <1>13, <1>14, <1>16, <1>17, <1>18, <1>19,
     <1>20, <1>21, <1>22, <1>24, <1>25 DEF LtoStep

LEMMA SessionInitially ==
  ASSUME PluginAssumption, Init
  PROVE  Session
<1>1. /\ host = NoHost /\ cleaned = [p \in 1 .. NumPlugins |-> 0] /\ stage = "resolve"
  BY DEF Init, InitInputs
<1>2. /\ DOMAIN host = HostFields /\ ~host.active /\ host.phase = "finished" /\ ~host.failed
      /\ host.plugins = 0 /\ host.cleaners = {} /\ host.asking = 0 /\ host.cleaning = 0
  BY <1>1 DEF NoHost, HostFields
<1>3. HostOK
  BY <1>2 DEF HostOK, PluginAssumption
<1>4. CallsMade
  BY <1>1, <1>2 DEF CallsMade, Called
<1> QED
  BY <1>1, <1>2, <1>3, <1>4 DEF Session

(* SessionEndsOnce, for any number of plugins: however loading, claiming,  *)
(* compiling or a later stage fails, no plugin is asked anything after it, *)
(* no clean-up handler runs early, and when the link has ended each one    *)
(* that was registered has been called exactly once (Session::finish and   *)
(* its Drop).                                                              *)
THEOREM SessionEndsOnceAlways == Spec => []SessionEndsOnce
<1>1. Init => Session
  BY SessionInitially, PluginAssumption
<1>2. ASSUME Session, [Next]_vars PROVE Session'
  <2>1. CASE Collect
    BY <2>1, <1>2, CollectSession
  <2>2. CASE LtoStep
    BY <2>2, <1>2, LtoStepSession, PluginAssumption
  <2>3. CASE Environment \/ Stutter \/ UNCHANGED vars
    <3>1. UNCHANGED <<host, cleaned, stage>>
      BY <2>3 DEF Environment, Stutter, Rewrite, CancelLink, vars, hostVars, inputVars
    <3> QED
      BY <3>1, <1>2 DEF Session, HostOK, CallsMade, Passed, Called
  <2> QED
    BY <1>2, <2>1, <2>2, <2>3 DEF Next
<1>3. Session => SessionEndsOnce
  <2> SUFFICES ASSUME Session PROVE SessionEndsOnce
    OBVIOUS
  <2>1. host.failed /\ host.phase # "finished" => host.asking \notin 1 .. host.plugins
    BY DEF Session, HostOK
  <2>2. ASSUME NEW p \in 1 .. NumPlugins, cleaned[p] > 0
        PROVE  stage \in {"planned", "failed", "done"}
    <3>1. Passed(p) /\ Called(p)
      <4>1. cleaned[p] = IF Passed(p) /\ Called(p) THEN 1 ELSE 0
        BY <2>2 DEF Session, CallsMade
      <4>2. cleaned[p] # 0
        BY <2>2
      <4> QED
        BY <4>1, <4>2
    <3>2. host.cleaners # {}
      BY <3>1 DEF Called
    <3> QED
      BY <3>1, <3>2 DEF Passed, Session
  <2>3. ASSUME NEW p \in 1 .. NumPlugins, Ended, ~exited
        PROVE  cleaned[p] = IF p \in host.cleaners /\ ~host.saveTemps THEN 1 ELSE 0
    <3>1. ~host.active
      BY <2>3 DEF Ended, Session
    <3> QED
      BY <3>1 DEF Session, CallsMade, Passed, Called
  <2> QED
    BY <2>1, <2>2, <2>3 DEF SessionEndsOnce
<1> QED
  BY <1>1, <1>2, <1>3, PTL DEF Spec

-----------------------------------------------------------------------------
(***************************************************************************)
(* Opening the inputs                                                      *)
(***************************************************************************)
LEMMA LeastNat ==
  ASSUME NEW S \in SUBSET Nat, S # {}
  PROVE  \E x \in S : \A y \in S : x <= y
<1>1. \E x \in S : \A y \in S : ~(<<y, x>> \in OpToRel(<, Nat))
  BY NatLessThanWellFounded, WFMin
<1>2. PICK x \in S : \A y \in S : <<y, x>> \notin OpToRel(<, Nat)
  BY <1>1
<1>3. ASSUME NEW y \in S PROVE x <= y
  <2>1. x \in Nat /\ y \in Nat /\ <<y, x>> \in Nat \X Nat
    OBVIOUS
  <2>2. y < x => <<y, x>> \in OpToRel(<, Nat)
    BY <2>1 DEF OpToRel
  <2>3. ~(y < x)
    BY <1>2, <2>2, Zenon
  <2> QED
    BY <2>1, <2>3
<1> QED
  BY <1>3

(* What the arguments resolve to, and opening them. *)
SameOpened ==
  \A i, j \in DOMAIN Specs :
    /\ Specs[i].kind # "bytes" /\ Specs[j].kind # "bytes"
    /\ ResolveSpec(Specs[i]) = ResolveSpec(Specs[j])
    /\ ~OpenFailed(opened[i]) /\ ~OpenFailed(opened[j])
    => opened[i] = opened[j]

Opening ==
  /\ DOMAIN work = DOMAIN Specs /\ DOMAIN opened = DOMAIN Specs
  /\ \A i \in DOMAIN Specs : work[i].path = ResolveSpec(Specs[i])

Opens ==
  /\ DOMAIN job = JobFields /\ IsSequence(Specs)
  /\ stage = "resolve" => opened = [i \in DOMAIN Specs |-> "unopened"]
  /\ stage = "open" => Opening
  /\ stage # "open" => SameOpened

(* A search reads the directories and which paths exist. *)
LEMMA ResolveSpecStable ==
  ASSUME job'.dirs = job.dirs, DOMAIN disk' = DOMAIN disk, NEW spec
  PROVE  ResolveSpec(spec)' = ResolveSpec(spec)
<1>1. \A dirs, file : ExactPlaces(dirs, file)' = ExactPlaces(dirs, file)
  BY DEF ExactPlaces
<1>2. \A dirs, name, static : LibraryPlaces(dirs, name, static)' = LibraryPlaces(dirs, name, static)
  BY DEF LibraryPlaces
<1>3. ASSUME NEW dirs, NEW searched, NEW i PROVE Nth(dirs, searched, i)' = Nth(dirs, searched, i)
  BY <1>1, <1>2 DEF Nth
<1>4. FindScript(spec.name)' = FindScript(spec.name)
  BY <1>1 DEF FindScript, IsFile
<1> QED
  BY <1>3, <1>4 DEF ResolveSpec

LEMMA OpensUnmoved ==
  ASSUME Opens, DOMAIN job' = DOMAIN job, job'.specs = job.specs, job'.dirs = job.dirs,
         DOMAIN disk' = DOMAIN disk, UNCHANGED opened, stage \notin {"resolve", "open"}, stage' \notin {"resolve", "open"}
  PROVE  Opens'
<1>1. \A spec : ResolveSpec(spec)' = ResolveSpec(spec)
  BY ResolveSpecStable
<1>2. SameOpened'
  BY <1>1 DEF Opens, SameOpened, Specs
<1> QED
  BY <1>2 DEF Opens, Specs

(* The argument that is opened for all those of the same path. *)
LEMMA RepeatIsFirst ==
  ASSUME Opens, stage = "open", NEW i \in DOMAIN Specs, NEW j \in DOMAIN Specs,
         Specs[i].kind # "bytes", Specs[j].kind # "bytes",
         ResolveSpec(Specs[i]) = ResolveSpec(Specs[j]), i < j
  PROVE  /\ RepeatOf(j) \in DOMAIN Specs /\ RepeatOf(j) # 0
         /\ RepeatOf(i) = 0 => RepeatOf(j) = i
         /\ RepeatOf(i) # 0 => RepeatOf(j) = RepeatOf(i)
<1> DEFINE Same(k) == {m \in 1 .. k - 1 : /\ Specs[k].kind # "bytes" /\ Specs[m].kind # "bytes"
                                          /\ work[m].path = work[k].path}
<1>1. DOMAIN Specs \subseteq Nat \ {0} /\ \A k \in DOMAIN Specs : 1 .. k - 1 \subseteq DOMAIN Specs
  BY DEF Opens, IsSequence
<1>2. \A k \in DOMAIN Specs : Same(k) \in SUBSET Nat
  BY <1>1
<1>3. work[i].path = work[j].path
  BY DEF Opens, Opening
<1>4. i \in Same(j) /\ Same(i) \subseteq Same(j)
      /\ \A m \in Same(j) : m < i => m \in Same(i)
  BY <1>1, <1>3
<1>5. /\ RepeatOf(j) \in Same(j) /\ \A k \in Same(j) : RepeatOf(j) <= k
      /\ RepeatOf(i) = 0 <=> Same(i) = {}
      /\ Same(i) # {} => RepeatOf(i) \in Same(i) /\ \A k \in Same(i) : RepeatOf(i) <= k
  <2>1. \E x \in Same(j) : \A y \in Same(j) : x <= y
    BY <1>1, <1>2, <1>4, LeastNat
  <2>2. Same(i) # {} => \E x \in Same(i) : \A y \in Same(i) : x <= y
    BY <1>1, <1>2, LeastNat
  <2>3. RepeatOf(j) \in Same(j) /\ \A k \in Same(j) : RepeatOf(j) <= k
    BY <2>1 DEF RepeatOf
  <2>4. Same(i) # {} => RepeatOf(i) \in Same(i) /\ \A k \in Same(i) : RepeatOf(i) <= k
    BY <2>2 DEF RepeatOf
  <2>5. Same(i) = {} => RepeatOf(i) = 0
    BY DEF RepeatOf
  <2> QED
    BY <2>3, <2>4, <2>5, <1>1
<1> HIDE DEF Same
<1>6. RepeatOf(j) \in DOMAIN Specs /\ RepeatOf(j) # 0
  BY <1>1, <1>5 DEF Same
<1>7. RepeatOf(i) = 0 => RepeatOf(j) = i
  <2> SUFFICES ASSUME RepeatOf(i) = 0 PROVE RepeatOf(j) = i
    OBVIOUS
  <2>1. RepeatOf(j) <= i /\ ~(RepeatOf(j) < i)
    BY <1>4, <1>5
  <2> QED
    BY <2>1, <1>1, <1>6
<1>8. RepeatOf(i) # 0 => RepeatOf(j) = RepeatOf(i)
  <2> SUFFICES ASSUME RepeatOf(i) # 0 PROVE RepeatOf(j) = RepeatOf(i)
    OBVIOUS
  <2>1. RepeatOf(i) \in Same(i) /\ RepeatOf(j) <= RepeatOf(i)
    BY <1>4, <1>5
  <2>2. RepeatOf(i) < i /\ RepeatOf(i) \in Nat
    BY <2>1, <1>1 DEF Same
  <2>3. RepeatOf(j) \in Same(i)
    BY <2>1, <2>2, <1>1, <1>4, <1>5, <1>6
  <2> QED
    BY <2>1, <2>2, <2>3, <1>1, <1>5, <1>6
<1> QED
  BY <1>6, <1>7, <1>8

LEMMA PushInputsOpens ==
  ASSUME Opens, PushInputs
  PROVE  Opens'
<1> DEFINE all == [i \in DOMAIN Specs |-> IF RepeatOf(i) = 0 THEN opened[i] ELSE RepeatedContent(i)]
<1>1. stage = "open" /\ stage' = "walk" /\ UNCHANGED <<job, disk, cancel>> /\ opened' = all
  BY DEF PushInputs
<1>2. \A spec : ResolveSpec(spec)' = ResolveSpec(spec)
  BY <1>1, ResolveSpecStable
<1>3. ASSUME NEW i \in DOMAIN Specs, NEW j \in DOMAIN Specs, i < j,
             Specs[i].kind # "bytes", Specs[j].kind # "bytes",
             ResolveSpec(Specs[i]) = ResolveSpec(Specs[j]),
             ~OpenFailed(all[i]), ~OpenFailed(all[j])
      PROVE  all[i] = all[j]
  <2>1. work[i].path = work[j].path
    BY <1>1, <1>3 DEF Opens, Opening
  <2>2. /\ RepeatOf(j) # 0
        /\ RepeatOf(i) = 0 => RepeatOf(j) = i
        /\ RepeatOf(i) # 0 => RepeatOf(j) = RepeatOf(i)
    BY <1>1, <1>3, RepeatIsFirst
  <2>3. all[j] = RepeatedContent(j)
    BY <2>2, <1>3
  <2>4. CASE RepeatOf(i) = 0
    BY <2>2, <2>3, <2>4, <1>3 DEF RepeatedContent
  <2>5. CASE RepeatOf(i) # 0
    BY <2>1, <2>2, <2>3, <2>5, <1>3 DEF RepeatedContent
  <2> QED
    BY <2>4, <2>5
<1>4. DOMAIN Specs \subseteq Int
  BY DEF Opens, IsSequence
<1> HIDE DEF all
<1>5. \A i, j \in DOMAIN Specs :
        /\ Specs[i].kind # "bytes" /\ Specs[j].kind # "bytes"
        /\ ResolveSpec(Specs[i]) = ResolveSpec(Specs[j])
        /\ ~OpenFailed(all[i]) /\ ~OpenFailed(all[j])
        => all[i] = all[j]
  BY <1>3, <1>4
<1>6. SameOpened'
  BY <1>1, <1>2, <1>5 DEF SameOpened, Specs
<1> QED
  BY <1>1, <1>6 DEF Opens, Specs

LEMMA CollectOpens ==
  ASSUME Opens, CollectStep
  PROVE  Opens'
<1>1. CASE ResolveSpecs
  <2>1. UNCHANGED <<job, disk, opened>> /\ stage = "resolve" /\ stage' \in {"open", "failed"}
    BY <1>1 DEF ResolveSpecs
  <2>2. \A spec : ResolveSpec(spec)' = ResolveSpec(spec)
    BY <2>1, ResolveSpecStable
  <2>3. SameOpened'
    <3>1. \A i \in DOMAIN Specs : opened[i] = "unopened"
      BY <2>1 DEF Opens
    <3> QED
      BY <2>1, <3>1 DEF SameOpened, Specs, OpenFailed
  <2>4. stage' = "open" => Opening'
    <3> SUFFICES ASSUME stage' = "open" PROVE Opening'
      OBVIOUS
    <3>1. work' = [i \in DOMAIN Specs |->
                     Item(ResolveSpec(Specs[i]), 0, Specs[i].attrs, SearchedOf(Specs[i]))]
      BY <1>1 DEF ResolveSpecs
    <3>2. \A i \in DOMAIN Specs : work'[i].path = ResolveSpec(Specs[i])
      BY <3>1 DEF Item
    <3> QED
      BY <2>1, <2>2, <3>1, <3>2 DEF Opening, Opens, Specs
  <2> QED
    BY <2>1, <2>3, <2>4 DEF Opens, Specs
<1>2. CASE \E i \in DOMAIN Specs : OpenInput(i)
  <2>1. PICK i \in DOMAIN Specs : OpenInput(i)
    BY <1>2
  <2>2. /\ stage = "open" /\ stage' = "open" /\ UNCHANGED <<job, disk, work>>
        /\ DOMAIN opened' = DOMAIN opened
    BY <2>1 DEF OpenInput
  <2>3. \A spec : ResolveSpec(spec)' = ResolveSpec(spec)
    BY <2>2, ResolveSpecStable
  <2> QED
    BY <2>2, <2>3 DEF Opens, Opening, Specs
<1>3. CASE PushInputs
  BY <1>3, PushInputsOpens
<1>4. ASSUME ~ResolveSpecs, ~(\E i \in DOMAIN Specs : OpenInput(i)), ~PushInputs
      PROVE  UNCHANGED <<job, disk, opened>> /\ stage \notin {"resolve", "open"}
             /\ stage' \notin {"resolve", "open"}
  BY <1>4 DEF CollectStep, LoadNext, NotLoaded,
      SkipIncompatible, AddObject, AddShared, AddArchive, AddScript, EndScript, AddOther, WalkDone,
      ReadIndex, FinishInputs, Stop, AddOne, Ready, Adding
<1> QED
  BY <1>1, <1>2, <1>3, <1>4, OpensUnmoved

LEMMA LtoStepOpens ==
  ASSUME Opens, LtoStep
  PROVE  Opens'
<1>1. stage \notin {"resolve", "open"} /\ stage' \notin {"resolve", "open"}
      /\ UNCHANGED <<disk, opened>>
  BY DEF LtoStep, StartClaims, NamesDone, LoadRound, ClaimsDone, StartSession, StartPlugin,
      PluginLoadFailed, OfferFile, OfferToPlugin, EndOffer, TellPlugins, CompileIr, ReplaceIr,
      OfferObject, ObjectOffered, ObjectsOffered, AddLtoLibrary, PlanLibraries, LaterStageFails,
      BeginCleanUp, CleanUpPlugin, FinishLink, DropSession, Offering, SetStage, Fail, inputVars
<1>2. CASE ReplaceIr
  <2>1. job' = job \/ \E c : job' = [job EXCEPT !.content = c]
    BY <1>2 DEF ReplaceIr, Fail
  <2>2. DOMAIN job' = DOMAIN job /\ job'.specs = job.specs /\ job'.dirs = job.dirs
    BY <2>1 DEF Opens, JobFields
  <2> QED
    BY <1>1, <2>2, OpensUnmoved
<1>3. CASE ~ReplaceIr
  <2>1. UNCHANGED job
    BY <1>3 DEF LtoStep, StartClaims, NamesDone, LoadRound, ClaimsDone, StartSession, StartPlugin,
      PluginLoadFailed, OfferFile, OfferToPlugin, EndOffer, TellPlugins, CompileIr, 
      OfferObject, ObjectOffered, ObjectsOffered, AddLtoLibrary, PlanLibraries, LaterStageFails,
      BeginCleanUp, CleanUpPlugin, FinishLink, DropSession, SetStage, Fail, inputVars
  <2> QED
    BY <1>1, <2>1, OpensUnmoved
<1> QED
  BY <1>2, <1>3

LEMMA OpensAlways == Spec => []Opens
<1>1. Init => Opens
  <2> SUFFICES ASSUME Init PROVE Opens
    OBVIOUS
 <2>1. DOMAIN job = JobFields /\ IsSequence(Specs) /\ stage = "resolve"
       /\ opened = [i \in DOMAIN Specs |-> "unopened"]
    BY JobsAssumption DEF Init, InitInputs, Specs, IsJob
  <2> QED
    BY <2>1 DEF Opens, SameOpened, OpenFailed
<1>2. ASSUME Opens, [Next]_vars PROVE Opens'
  <2>1. CASE Collect
    BY <2>1, <1>2, CollectOpens DEF Collect
  <2>2. CASE LtoStep
    BY <2>2, <1>2, LtoStepOpens
  <2>3. CASE Environment \/ Stutter \/ UNCHANGED vars
    <3>1. UNCHANGED <<job, opened, stage, work>> /\ DOMAIN disk' = DOMAIN disk
      BY <2>3 DEF Environment, Stutter, Rewrite, CancelLink, vars, inputVars
    <3>2. \A spec : ResolveSpec(spec)' = ResolveSpec(spec)
      BY <3>1, ResolveSpecStable
    <3>3. (Opening => Opening') /\ (SameOpened => SameOpened')
      BY <3>1, <3>2 DEF Opening, SameOpened, Specs
    <3> QED
      BY <3>1, <3>3, <1>2 DEF Opens, Specs
  <2> QED
    BY <1>2, <2>1, <2>2, <2>3 DEF Next
<1> QED
  BY <1>1, <1>2, PTL DEF Spec

(* SamePathSameFile: load_all gives every mention of a path the same file, *)
(* for every command line, order of the parallel opens, and replacement on *)
(* disk meanwhile.                                                         *)
THEOREM SamePathSameFileAlways == Spec => []SamePathSameFile
<1>1. Opens => SamePathSameFile
  BY DEF Opens, SamePathSameFile, SameOpened
<1> QED
  BY <1>1, OpensAlways, PTL

-----------------------------------------------------------------------------
(***************************************************************************)
(* The inductive invariant                                                 *)
(*                                                                         *)
(* What the tables, the work list and the file list hold, and how the      *)
(* claims of the plugins relate to them, as long as the link has not       *)
(* failed.                                                                 *)
(***************************************************************************)
Stored ==
  /\ IsJob(job)
  /\ pass = 1 => "defs" \notin DOMAIN job.content /\ "uses" \notin DOMAIN job.content
  /\ \A p \in DOMAIN disk : disk[p] \in DOMAIN job.content
  /\ \A i \in DOMAIN opened : OpenFailed(opened[i]) \/ opened[i] \in DOMAIN job.content
  /\ IsSequence(table) /\ \A n \in DOMAIN table : table[n].content \in DOMAIN job.content

ItemFields == {"op", "path", "id", "attrs", "searched", "nth"}

ItemOK(x, n) ==
  /\ "op" \in DOMAIN x
  /\ x.op = "add" => DOMAIN x = ItemFields /\ x.id \in -1 .. n

ItemsOK(w, n) == IsSequence(w) /\ \A i \in DOMAIN w : ItemOK(w[i], n)

Working == stage \in {"open", "walk", "new input"} => ItemsOK(work, Len(table))

WalkFields == {"dirs", "lto", "ordinal", "target", "depth", "sonames", "deferred"}

(* The deferred indexes are in command-line order. *)
Deferring ==
  /\ DOMAIN walk = WalkFields /\ walk.ordinal \in Nat
  /\ stage = "resolve" => walk.deferred = <<>>
  /\ IsSequence(walk.deferred)
  /\ \A k \in DOMAIN walk.deferred :
       /\ walk.deferred[k].at \in Nat /\ walk.deferred[k].at <= walk.ordinal
       /\ walk.deferred[k].content \in DOMAIN job.content
       /\ Content(walk.deferred[k].content).kind \in {"archive", "thin"}
  /\ \A j, k \in DOMAIN walk.deferred : j <= k => walk.deferred[j].at <= walk.deferred[k].at

FileFields ==
  {"position", "role", "id", "start", "lazy", "soname", "asNeeded", "thin", "lto", "needsClaim",
   "incompatible", "object", "ir"}

FileOK(r, tab, con) ==
  /\ DOMAIN r = FileFields
  /\ r.position \in Nat \X Nat /\ IsSequence(r.lazy) /\ r.id \in 0 .. Len(tab) /\ r.ir \in Nat
  /\ r.role \in {"internal", "object", "member", "shared"}
  /\ r.role \in {"internal", "shared"} => r.start /\ r.ir = 0 /\ ~r.object /\ r.thin = NoThin
  /\ r.role = "shared" => r.id # 0
  /\ r.role \in {"object", "member"} /\ r.thin = NoThin => r.id # 0
  /\ r.object => r.thin = NoThin /\ con[tab[r.id].content].kind # "dyn"

Listed ==
  /\ IsSequence(files) /\ \A f \in Ids : FileOK(files[f], table, job.content)
  /\ stage \notin {"resolve", "open"} /\ pass = 1 => files # <<>>
  /\ pass = 2 => walk.lto # "claim" /\ \A f \in Ids : files[f].lto # "claim" /\ files[f].ir = 0

Alive ==
  /\ pass \in {1, 2}
  /\ stage \in {"resolve", "open", "claim", "names", "symbols"} => pass = 1
  /\ stage = "new input" => pass = 2
  /\ live \subseteq Ids
  /\ live # {} => \A f \in Ids : files[f].start => f \in live
  /\ stage \in {"resolve", "open", "walk", "finish", "claim", "names", "new input"} => live = {}
  /\ stage \in {"names", "claiming"} => todo \subseteq {f \in Ids : files[f].id # 0}
  /\ stage = "claiming" => \A f \in todo : files[f].role \in {"object", "member"}
  /\ stage = "claiming" /\ pass = 2 => todo = {}

(* The record a claim is open for, and what the plugins said so far. *)
OpenRecord ==
  LET r == host.files[Current] IN
  /\ stage \in {"names", "claiming"} /\ todo # {} /\ host.phase = "claiming" /\ host.active
  /\ Current > 0 /\ r.handle = Offered /\ r.symbols = <<>>
  /\ \A i \in DOMAIN claims : claims[i] < Current
  /\ host.asking \in 1 .. host.plugins => r.pending = <<>> /\ r.claimedBy = 0
  /\ \A i \in DOMAIN r.pending : r.claimedBy # 0 => r.pending[i].plugin = r.claimedBy

Claiming ==
  /\ ~host.active /\ stage # "done" => claims = <<>> /\ host.files = <<>>
  /\ IsSequence(claims)
  /\ stage # "done" =>
       /\ \A i \in DOMAIN claims : claims[i] \in DOMAIN host.files
       /\ \A i, j \in DOMAIN claims : i < j => claims[i] < claims[j]
       /\ \A f \in Ids : files[f].ir # 0 =>
            /\ files[f].ir \in DOMAIN claims
            /\ host.files[claims[files[f].ir]].handle = f
       /\ pass = 1 /\ host.asking # 0 /\ stage # "symbols" => OpenRecord
       /\ pass = 1 /\ stage # "symbols" =>
            \A k \in DOMAIN host.files : host.files[k].resolution = <<>>
       /\ stage = "symbols" => \A k \in DOMAIN host.files :
            LET r == host.files[k] IN
            /\ IsSequence(r.resolution)
            /\ r.resolution # <<>> =>
                 r.symbols # <<>> /\ DOMAIN r.resolution = DOMAIN r.symbols[1].syms

RecordFields == {"handle", "inClaim", "claimedBy", "pending", "symbols", "resolution", "state"}

AddedOK(s) == IsSequence(s) /\ \A i \in DOMAIN s : s[i].syms \in Seq(ObjectSymbol)

Records ==
  /\ DOMAIN host = HostFields /\ host.plugins \in Nat /\ host.asking \in Nat
  /\ IsSequence(host.files)
  /\ \A k \in DOMAIN host.files :
       /\ DOMAIN host.files[k] = RecordFields
       /\ AddedOK(host.files[k].pending) /\ AddedOK(host.files[k].symbols)
  /\ SymbolsOfClaimer

Resolved ==
  stage = "resolved" =>
    /\ cell = [s \in Names |-> Best(s)]
    /\ \A f \in Ids : files[f].start => f \in live

Sound ==
  /\ Records
  /\ stage # "failed" =>
       Stored /\ Working /\ Deferring /\ Listed /\ Alive /\ Claiming /\ Resolved

-----------------------------------------------------------------------------
(***************************************************************************)
(* Sequences                                                               *)
(***************************************************************************)
LEMMA SequenceOf ==
  ASSUME NEW S, NEW s \in Seq(S)
  PROVE  IsSequence(s) /\ ToSet(s) \subseteq S
BY DEF IsSequence, ToSet

LEMMA SequenceFacts ==
  ASSUME NEW s, IsSequence(s)
  PROVE  /\ Len(s) \in Nat /\ DOMAIN s = 1 .. Len(s)
         /\ s \in [1 .. Len(s) -> ToSet(s)]
         /\ s = <<>> <=> Len(s) = 0
BY DEF IsSequence

LEMMA SequenceMade ==
  ASSUME NEW s, NEW n \in Nat, DOMAIN s = 1 .. n, s = [i \in DOMAIN s |-> s[i]]
  PROVE  IsSequence(s) /\ Len(s) = n
BY DEF IsSequence, ToSet

LEMMA SequenceAppend ==
  ASSUME NEW s, IsSequence(s), NEW x
  PROVE  /\ IsSequence(Append(s, x)) /\ Len(Append(s, x)) = Len(s) + 1
         /\ Append(s, x)[Len(s) + 1] = x
         /\ \A i \in 1 .. Len(s) : Append(s, x)[i] = s[i]
         /\ DOMAIN Append(s, x) = 1 .. Len(s) + 1
<1>1. s \in Seq(ToSet(s) \cup {x}) /\ x \in ToSet(s) \cup {x}
  BY DEF IsSequence
<1>2. Append(s, x) \in Seq(ToSet(s) \cup {x}) /\ Len(s) \in Nat
  BY <1>1
<1>3. IsSequence(Append(s, x))
  BY <1>2, SequenceOf, Zenon
<1>4. /\ Len(Append(s, x)) = Len(s) + 1 /\ Append(s, x)[Len(s) + 1] = x
      /\ \A i \in 1 .. Len(s) : Append(s, x)[i] = s[i]
      /\ DOMAIN Append(s, x) = 1 .. Len(s) + 1
  BY <1>1, <1>2
<1> QED
  BY <1>3, <1>4

LEMMA SequenceConcat ==
  ASSUME NEW s, IsSequence(s), NEW t, IsSequence(t)
  PROVE  /\ IsSequence(s \o t) /\ Len(s \o t) = Len(s) + Len(t)
         /\ Len(s) \in Nat /\ Len(t) \in Nat
         /\ DOMAIN (s \o t) = 1 .. Len(s) + Len(t)
         /\ \A i \in 1 .. Len(s) : (s \o t)[i] = s[i]
         /\ \A i \in 1 .. Len(t) : (s \o t)[Len(s) + i] = t[i]
         /\ \A i \in DOMAIN (s \o t) : i \notin 1 .. Len(s) =>
              i - Len(s) \in 1 .. Len(t) /\ (s \o t)[i] = t[i - Len(s)]
<1>1. s \in Seq(ToSet(s) \cup ToSet(t)) /\ t \in Seq(ToSet(s) \cup ToSet(t))
  BY DEF IsSequence
<1>2. s \o t \in Seq(ToSet(s) \cup ToSet(t)) /\ Len(s) \in Nat /\ Len(t) \in Nat
  BY <1>1
<1>3. Len(s \o t) = Len(s) + Len(t)
  BY <1>1
<1>4. \A i \in 1 .. Len(s) + Len(t) : (s \o t)[i] = IF i <= Len(s) THEN s[i] ELSE t[i - Len(s)]
  BY <1>1
<1>5. DOMAIN (s \o t) = 1 .. Len(s) + Len(t)
  BY <1>2, <1>3
<1>6. IsSequence(s \o t)
  BY <1>2, SequenceOf, Zenon
<1> QED
  BY <1>2, <1>3, <1>4, <1>5, <1>6

LEMMA SequenceTail ==
  ASSUME NEW s, IsSequence(s), s # <<>>
  PROVE  /\ IsSequence(Tail(s)) /\ Head(s) = s[1] /\ 1 \in DOMAIN s
         /\ \A i \in DOMAIN Tail(s) : i + 1 \in DOMAIN s /\ Tail(s)[i] = s[i + 1]
<1>1. s \in Seq(ToSet(s)) /\ Len(s) \in Nat /\ Len(s) # 0
  BY DEF IsSequence
<1>2. Tail(s) \in Seq(ToSet(s)) /\ Len(Tail(s)) = Len(s) - 1
  BY <1>1
<1>3. IsSequence(Tail(s))
  BY <1>2, SequenceOf, Zenon
<1>4. \A i \in DOMAIN Tail(s) : i + 1 \in DOMAIN s /\ Tail(s)[i] = s[i + 1]
  BY <1>1, <1>2
<1>5. Head(s) = s[1] /\ 1 \in DOMAIN s
  BY <1>1
<1> QED
  BY <1>3, <1>4, <1>5

LEMMA SequenceOne ==
  ASSUME NEW x
  PROVE  IsSequence(<<x>>) /\ Len(<<x>>) = 1 /\ <<x>>[1] = x /\ DOMAIN <<x>> = 1 .. 1
<1>1. <<x>> \in Seq({x})
  OBVIOUS
<1>2. IsSequence(<<x>>)
  BY <1>1, SequenceOf, Zenon
<1>3. Len(<<x>>) = 1 /\ <<x>>[1] = x /\ DOMAIN <<x>> = 1 .. 1
  OBVIOUS
<1> QED
  BY <1>2, <1>3

LEMMA SequenceEmpty == IsSequence(<<>>) /\ DOMAIN <<>> = {} /\ Len(<<>>) = 0
<1>1. <<>> \in Seq({})
  OBVIOUS
<1>2. IsSequence(<<>>)
  BY <1>1, SequenceOf, Zenon
<1>3. DOMAIN <<>> = {} /\ Len(<<>>) = 0
  OBVIOUS
<1> QED
  BY <1>2, <1>3

(* FlattenSeq is what its recursive definition says. *)
LEMMA FlattenSteps ==
  ASSUME NEW ss, Len(ss) \in Nat, Len(ss) # 0
  PROVE  \E g : /\ FlattenSeq(ss) = g[Len(ss)] /\ g[1] = ss[1]
                /\ \A i \in 2 .. Len(ss) : g[i] = g[i - 1] \o ss[i]
<1> DEFINE L == Len(ss)
           Is(g, n) == g = [i \in 1 .. n |-> IF i = 1 THEN ss[i] ELSE g[i - 1] \o ss[i]]
           Ok(n) == \E g : Is(g, n)
           Bad == {n \in 1 .. L : ~Ok(n)}
<1>0. L \in Nat /\ L # 0
  OBVIOUS
<1> HIDE DEF L
<1>1. Bad = {}
  <2> SUFFICES ASSUME Bad # {} PROVE FALSE
    OBVIOUS
  <2> HIDE DEF Ok
  <2>1. Bad \in SUBSET Nat
    BY <1>0
  <2>2. PICK n \in Bad : \A m \in Bad : n <= m
    BY <2>1, LeastNat
  <2>3. n \in 1 .. L
    OBVIOUS
  <2>4. CASE n = 1
    <3>1. Is([i \in 1 .. 1 |-> ss[1]], 1)
      OBVIOUS
    <3>2. Ok(1)
      <4> HIDE DEF Is
      <4> QED
        BY <3>1 DEF Ok
    <3> QED
      BY <3>2, <2>2, <2>4
  <2>5. CASE n # 1
    <3>1. n - 1 \in 1 .. L /\ n - 1 \notin Bad
      BY <1>0, <2>1, <2>2, <2>3, <2>5
    <3>2. PICK g : Is(g, n - 1)
      <4> HIDE DEF Is
      <4> QED
        BY <3>1 DEF Ok
    <3> DEFINE h == [i \in 1 .. n |-> IF i = n THEN g[n - 1] \o ss[n] ELSE g[i]]
    <3>3. ASSUME NEW i \in 1 .. n PROVE h[i] = IF i = 1 THEN ss[i] ELSE h[i - 1] \o ss[i]
      <4>1. CASE i = n
        <5>1. h[i - 1] = g[i - 1]
          BY <4>1, <2>3, <2>5
        <5> QED
          BY <4>1, <5>1, <2>5
      <4>2. CASE i # n
        <5>1. i \in 1 .. n - 1 /\ h[i] = g[i]
          BY <4>2, <2>3
        <5>2. g[i] = IF i = 1 THEN ss[i] ELSE g[i - 1] \o ss[i]
          BY <3>2, <5>1
        <5>3. i # 1 => h[i - 1] = g[i - 1]
          BY <5>1, <2>3
        <5> QED
          BY <5>1, <5>2, <5>3
      <4> QED
        BY <4>1, <4>2
    <3>4. h = [i \in 1 .. n |-> h[i]]
      OBVIOUS
    <3> HIDE DEF h
    <3>5. Is(h, n)
      BY <3>3, <3>4
    <3>6. Ok(n)
      <4> HIDE DEF Is
      <4> QED
        BY <3>5 DEF Ok
    <3> QED
      BY <3>6, <2>2
  <2> QED
    BY <2>4, <2>5
<1>2. \E g : Is(g, L)
  <2>1. L \in 1 .. L
    BY <1>0
  <2> HIDE DEF Is
  <2> QED
    BY <2>1, <1>1 DEF Ok
<1> DEFINE flat == CHOOSE g : Is(g, L)
<1>3. Is(flat, L)
  <2> HIDE DEF Is
  <2> QED
    BY <1>2
<1>4. FlattenSeq(ss) = flat[L]
  BY DEF FlattenSeq, L
<1> HIDE DEF flat
<1>5. \A i \in 1 .. L : flat[i] = IF i = 1 THEN ss[i] ELSE flat[i - 1] \o ss[i]
  BY <1>3
<1>6. flat[1] = ss[1]
  <2>1. 1 \in 1 .. L
    BY <1>0
  <2> QED
    BY <2>1, <1>5, Zenon
<1>7. ASSUME NEW i \in 2 .. L PROVE flat[i] = flat[i - 1] \o ss[i]
  <2>1. i \in 1 .. L /\ i # 1
    BY <1>0
  <2> QED
    BY <2>1, <1>5, Zenon
<1> QED
  BY <1>4, <1>6, <1>7 DEF L

LEMMA FlattenTyped ==
  ASSUME NEW T, NEW ss \in Seq(Seq(T))
  PROVE  FlattenSeq(ss) \in Seq(T)
<1>1. CASE Len(ss) = 0
  <2>1. FlattenSeq(ss) = ss /\ ss = <<>>
    BY <1>1 DEF FlattenSeq
  <2> QED
    BY <2>1
<1>2. CASE Len(ss) # 0
  <2>1. PICK g : /\ FlattenSeq(ss) = g[Len(ss)] /\ g[1] = ss[1]
                 /\ \A i \in 2 .. Len(ss) : g[i] = g[i - 1] \o ss[i]
    <3>1. Len(ss) \in Nat
      OBVIOUS
    <3> QED
      BY <1>2, <3>1, FlattenSteps
  <2> DEFINE Bad == {n \in 1 .. Len(ss) : g[n] \notin Seq(T)}
  <2>2. Bad = {}
    <3> SUFFICES ASSUME Bad # {} PROVE FALSE
      OBVIOUS
    <3>1. Bad \in SUBSET Nat
      OBVIOUS
    <3>2. PICK n \in Bad : \A m \in Bad : n <= m
      BY <3>1, LeastNat
    <3>3. n # 1
      BY <2>1
    <3>4. n \in 2 .. Len(ss) /\ n - 1 \in 1 .. Len(ss) /\ n - 1 \notin Bad
      BY <3>1, <3>2, <3>3
    <3>5. g[n - 1] \in Seq(T) /\ ss[n] \in Seq(T)
      BY <3>4
    <3>6. g[n] = g[n - 1] \o ss[n]
      BY <2>1, <3>4
    <3>7. g[n] \in Seq(T)
      BY <3>5, <3>6
    <3> QED
      BY <3>7
  <2>3. Len(ss) \in 1 .. Len(ss)
    BY <1>2
  <2> QED
    BY <2>1, <2>2, <2>3
<1> QED
  BY <1>1, <1>2

LEMMA FlattenSequence ==
  ASSUME NEW ss, IsSequence(ss), \A i \in DOMAIN ss : IsSequence(ss[i])
  PROVE  /\ IsSequence(FlattenSeq(ss))
         /\ \A n \in DOMAIN FlattenSeq(ss) :
              \E i \in DOMAIN ss : \E j \in DOMAIN ss[i] : FlattenSeq(ss)[n] = ss[i][j]
<1> DEFINE T == UNION {ToSet(ss[i]) : i \in DOMAIN ss}
<1>1. \A i \in DOMAIN ss : ss[i] \in Seq(T)
  <2> SUFFICES ASSUME NEW i \in DOMAIN ss PROVE ss[i] \in Seq(T)
    OBVIOUS
  <2>1. ToSet(ss[i]) \subseteq T /\ ss[i] \in Seq(ToSet(ss[i]))
    BY DEF IsSequence
  <2> HIDE DEF T
  <2> QED
    BY <2>1
<1>2. ss \in Seq(Seq(T))
  <2> HIDE DEF T
  <2> QED
    BY <1>1 DEF IsSequence
<1>3. FlattenSeq(ss) \in Seq(T)
  <2> HIDE DEF T
  <2> QED
    BY <1>2, FlattenTyped
<1>4. \A n \in DOMAIN FlattenSeq(ss) : FlattenSeq(ss)[n] \in T
  <2> HIDE DEF T
  <2> QED
    BY <1>3
<1>5. IsSequence(FlattenSeq(ss))
  <2> HIDE DEF T
  <2> QED
    BY <1>3, SequenceOf, Zenon
<1> QED
  BY <1>4, <1>5 DEF ToSet

LEMMA PickedElements ==
  ASSUME NEW s, IsSequence(s), NEW keep
  PROVE  /\ IsSequence(Picked(s, keep))
         /\ \A n \in DOMAIN Picked(s, keep) : Picked(s, keep)[n] \in ToSet(s) \cap keep
<1> DEFINE ss == [i \in DOMAIN s |-> IF s[i] \in keep THEN <<s[i]>> ELSE <<>>]
<1>1. DOMAIN s = 1 .. Len(s) /\ Len(s) \in Nat
  BY SequenceFacts
<1>2. DOMAIN ss = 1 .. Len(s) /\ ss = [i \in DOMAIN ss |-> ss[i]]
  BY <1>1
<1>3. IsSequence(ss)
  <2> HIDE DEF ss
  <2> QED
    BY <1>1, <1>2, SequenceMade
<1>4. \A i \in DOMAIN ss : IsSequence(ss[i])
  BY SequenceOne, SequenceEmpty
<1>5. \A i \in DOMAIN ss : \A j \in DOMAIN ss[i] : ss[i][j] = s[i] /\ s[i] \in keep
  OBVIOUS
<1>6. Picked(s, keep) = FlattenSeq(ss)
  BY DEF Picked
<1>7. DOMAIN ss = DOMAIN s
  OBVIOUS
<1> HIDE DEF ss
<1>8. /\ IsSequence(FlattenSeq(ss))
      /\ \A n \in DOMAIN FlattenSeq(ss) :
              \E i \in DOMAIN ss : \E j \in DOMAIN ss[i] : FlattenSeq(ss)[n] = ss[i][j]
  BY <1>3, <1>4, FlattenSequence
<1>9. \A i \in DOMAIN s : s[i] \in ToSet(s)
  BY DEF ToSet
<1> QED
  BY <1>5, <1>6, <1>7, <1>8, <1>9

LEMMA PickedLength ==
  ASSUME NEW s, IsSequence(s), NEW keep
  PROVE  Len(Picked(s, keep)) = Cardinality({i \in DOMAIN s : s[i] \in keep})
<1> DEFINE ss == [i \in DOMAIN s |-> IF s[i] \in keep THEN <<s[i]>> ELSE <<>>]
           Kept(n) == {i \in 1 .. n : s[i] \in keep}
           L == Len(s)
<1>1. DOMAIN s = 1 .. L /\ L \in Nat
  BY SequenceFacts
<1>2. DOMAIN ss = 1 .. L /\ ss = [i \in DOMAIN ss |-> ss[i]]
  BY <1>1
<1>3. Len(ss) = L /\ IsSequence(ss)
  <2> HIDE DEF ss
  <2> QED
    BY <1>1, <1>2, SequenceMade
<1>4. Picked(s, keep) = FlattenSeq(ss)
  BY DEF Picked
<1>5. \A i \in 1 .. L : /\ IsSequence(ss[i])
                        /\ Len(ss[i]) = IF s[i] \in keep THEN 1 ELSE 0
  BY <1>1, SequenceOne, SequenceEmpty
<1> HIDE DEF ss, L
<1>6. CASE L = 0
  <2>1. ss = <<>>
    BY <1>3, <1>6, SequenceFacts
  <2>2. FlattenSeq(ss) = <<>>
    BY <2>1 DEF FlattenSeq
  <2>3. {i \in DOMAIN s : s[i] \in keep} = {}
    BY <1>1, <1>6
  <2>4. Cardinality({}) = 0 /\ Len(<<>>) = 0
    BY FS_EmptySet, SequenceEmpty
  <2> QED
    BY <1>4, <2>2, <2>3, <2>4, Zenon
<1>7. CASE L # 0
  <2>1. PICK g : /\ FlattenSeq(ss) = g[L] /\ g[1] = ss[1]
                 /\ \A i \in 2 .. L : g[i] = g[i - 1] \o ss[i]
    BY <1>1, <1>3, <1>7, FlattenSteps
  <2> DEFINE Ok(n) == IsSequence(g[n]) /\ Len(g[n]) = Cardinality(Kept(n))
             Bad == {n \in 1 .. L : ~Ok(n)}
  <2>2. Bad = {}
    <3> SUFFICES ASSUME Bad # {} PROVE FALSE
      OBVIOUS
    <3> HIDE DEF Ok
    <3>1. Bad \in SUBSET Nat
      BY <1>1
    <3>2. PICK n \in Bad : \A m \in Bad : n <= m
      BY <3>1, LeastNat
    <3>3. n \in 1 .. L
      OBVIOUS
    <3>4. IsFiniteSet(Kept(n - 1)) /\ Cardinality(Kept(n - 1)) \in Nat
      <4>1. IsFiniteSet(1 .. n - 1) /\ Kept(n - 1) \in SUBSET (1 .. n - 1)
        BY <1>1, <3>3, FS_Interval
      <4>2. IsFiniteSet(Kept(n - 1))
        <5> HIDE DEF Kept
        <5> QED
          BY <4>1, FS_Subset
      <4> HIDE DEF Kept
      <4> QED
        BY <4>2, FS_CardinalityType
    <3>5. Cardinality(Kept(n)) = Cardinality(Kept(n - 1)) + IF s[n] \in keep THEN 1 ELSE 0
      <4>1. CASE s[n] \in keep
        <5>1. Kept(n) = Kept(n - 1) \cup {n} /\ n \notin Kept(n - 1)
          BY <1>1, <3>3, <4>1
        <5> HIDE DEF Kept
        <5>2. Cardinality(Kept(n - 1) \cup {n}) = Cardinality(Kept(n - 1)) + 1
          BY <3>4, <5>1, FS_AddElement
        <5> QED
          BY <4>1, <5>1, <5>2
      <4>2. CASE s[n] \notin keep
        <5>1. Kept(n) = Kept(n - 1)
          BY <1>1, <3>3, <4>2
        <5> HIDE DEF Kept
        <5> QED
          BY <4>2, <5>1, <3>4
      <4> QED
        BY <4>1, <4>2
    <3>6. CASE n = 1
      <4>1. Kept(n - 1) = {}
        BY <3>6
      <4> HIDE DEF Kept
      <4>2. Cardinality(Kept(n - 1)) = 0
        BY <4>1, FS_EmptySet
      <4>3. Ok(n)
        BY <4>2, <3>3, <3>5, <3>6, <1>5, <2>1 DEF Ok
      <4> QED
        BY <4>3, <3>2
    <3>7. CASE n # 1
      <4>1. n \in 2 .. L /\ n - 1 \in 1 .. L /\ n - 1 \notin Bad
        BY <1>1, <3>1, <3>2, <3>3, <3>7
      <4>2. g[n] = g[n - 1] \o ss[n] /\ Ok(n - 1)
        BY <2>1, <4>1
      <4> HIDE DEF Kept
      <4>3. /\ IsSequence(g[n - 1]) /\ Len(g[n - 1]) = Cardinality(Kept(n - 1))
            /\ IsSequence(ss[n]) /\ Len(ss[n]) = IF s[n] \in keep THEN 1 ELSE 0
        BY <4>1, <4>2, <1>5, <3>3 DEF Ok
      <4>4. IsSequence(g[n - 1] \o ss[n]) /\ Len(g[n - 1] \o ss[n]) = Len(g[n - 1]) + Len(ss[n])
        BY <4>3, SequenceConcat
      <4>5. Ok(n)
        BY <4>2, <4>3, <4>4, <3>5 DEF Ok
      <4> QED
        BY <4>5, <3>2
    <3> QED
      BY <3>6, <3>7
  <2>3. Ok(L)
    <3>1. L \in 1 .. L
      BY <1>1, <1>7
    <3> HIDE DEF Ok
    <3> QED
      BY <2>2, <3>1
  <2>4. Kept(L) = {i \in DOMAIN s : s[i] \in keep}
    BY <1>1
  <2> QED
    BY <1>4, <2>1, <2>3, <2>4
<1> QED
  BY <1>6, <1>7

LEMMA FiniteRange ==
  ASSUME NEW f, IsFiniteSet(DOMAIN f), f = [x \in DOMAIN f |-> f[x]]
  PROVE  IsFiniteSet({f[x] : x \in DOMAIN f})
<1> DEFINE T == {f[x] : x \in DOMAIN f}
<1>1. f \in Surjection(DOMAIN f, T)
  BY DEF Surjection
<1> QED
  BY <1>1, FS_Surjection

LEMMA FiniteSeqToSet ==
  ASSUME NEW S, IsFiniteSet(S)
  PROVE  SetToSeq(S) \in Seq(S)
<1>1. Cardinality(S) \in Nat /\ ExistsBijection(1 .. Cardinality(S), S)
  BY FS_CardinalityType
<1>2. \E f \in [1 .. Cardinality(S) -> S] : IsInjective(f)
  BY <1>1 DEF ExistsBijection, Bijection, Injection, IsInjective
<1>3. SetToSeq(S) \in [1 .. Cardinality(S) -> S]
  BY <1>2 DEF SetToSeq
<1> QED
  BY <1>1, <1>3

-----------------------------------------------------------------------------
(***************************************************************************)
(* Symbols and the definitions that compete                                *)
(***************************************************************************)
Going == Records /\ Stored /\ Listed /\ Alive /\ Claiming /\ stage # "done"

LEMMA FileFacts ==
  ASSUME Going
  PROVE  /\ Len(files) \in Nat /\ Ids = 1 .. Len(files) /\ Ids \subseteq Nat
         /\ Len(table) \in Nat /\ DOMAIN table = 1 .. Len(table)
         /\ \A f \in Ids : FileOK(files[f], table, job.content) /\ PositionOf(f) \in Nat
         /\ \A f \in Ids : files[f].id # 0 =>
              files[f].id \in DOMAIN table /\ ContentOf(f) \in DOMAIN job.content
<1>1. IsSequence(files) /\ IsSequence(table) /\ \A f \in Ids : FileOK(files[f], table, job.content)
  BY DEF Going, Listed, Stored
<1>2. /\ Len(files) \in Nat /\ Ids = 1 .. Len(files) /\ Ids \subseteq Nat
      /\ Len(table) \in Nat /\ DOMAIN table = 1 .. Len(table)
  BY <1>1, SequenceFacts DEF Ids
<1>3. \A f \in Ids : PositionOf(f) \in Nat
  BY <1>1 DEF FileOK, PositionOf
<1>4. \A f \in Ids : files[f].id # 0 => files[f].id \in DOMAIN table
  BY <1>1, <1>2 DEF FileOK
<1>5. \A f \in Ids : files[f].id # 0 => ContentOf(f) \in DOMAIN job.content
  BY <1>4 DEF Going, Stored, ContentOf
<1> QED
  BY <1>1, <1>2, <1>3, <1>4, <1>5

LEMMA SymsTyped ==
  ASSUME Going, NEW f \in Ids
  PROVE  /\ Syms(f) \in Seq(Symbol)
         /\ files[f].role # "shared" => Syms(f) \in Seq(ObjectSymbol)
<1>1. Seq(ObjectSymbol) \subseteq Seq(Symbol)
  <2>1. ObjectSymbol \subseteq Symbol
    BY DEF ObjectSymbol, Symbol
  <2> QED
    BY <2>1
<1>2. CASE files[f].ir # 0
  <2> DEFINE k == claims[files[f].ir]
  <2>1. Syms(f) = SymbolsOf(k)
    BY <1>2 DEF Syms
  <2>2. k \in DOMAIN host.files
    BY <1>2 DEF Going, Claiming
  <2> HIDE DEF k
  <2>3. AddedOK(host.files[k].symbols)
    BY <2>2 DEF Going, Records
  <2>4. SymbolsOf(k) \in Seq(ObjectSymbol)
    <3>1. CASE host.files[k].symbols = <<>>
      BY <3>1 DEF SymbolsOf
    <3>2. CASE host.files[k].symbols # <<>>
      <4>1. Head(host.files[k].symbols) = host.files[k].symbols[1] /\ 1 \in DOMAIN host.files[k].symbols
        BY <3>2, <2>3, SequenceTail DEF AddedOK
      <4> QED
        BY <4>1, <3>2, <2>3 DEF SymbolsOf, AddedOK
    <3> QED
      BY <3>1, <3>2
  <2> QED
    BY <1>1, <2>1, <2>4
<1>3. CASE files[f].ir = 0 /\ files[f].role = "internal"
  <2>0. ~files[f].object
    BY <1>3, FileFacts DEF FileOK
  <2>1. Syms(f) = job.internal
    BY <1>3, <2>0 DEF Syms
  <2> QED
    BY <1>1, <2>1 DEF Going, Stored, IsJob
<1>4. CASE files[f].ir = 0 /\ files[f].role # "internal" /\ (files[f].object \/ files[f].role = "shared")
  <2>1. Syms(f) = Content(ContentOf(f)).syms
    BY <1>4 DEF Syms
  <2>2. FileOK(files[f], table, job.content)
    BY FileFacts
  <2>3. files[f].id # 0
    BY <1>4, <2>2 DEF FileOK
  <2>4. ContentOf(f) \in DOMAIN job.content
    BY <2>3, FileFacts
  <2>5. IsContent(Content(ContentOf(f)), DOMAIN job.content)
    BY <2>4 DEF Going, Stored, IsJob, Content
  <2>6. files[f].role # "shared" => Content(ContentOf(f)).kind # "dyn"
    BY <1>4, <2>2 DEF FileOK, ContentOf, Content
  <2> QED
    BY <2>1, <2>5, <2>6 DEF IsContent
<1>5. CASE files[f].ir = 0 /\ files[f].role # "internal" /\ ~files[f].object /\ files[f].role # "shared"
  <2>1. Syms(f) = <<>>
    BY <1>5 DEF Syms
  <2> QED
    BY <2>1
<1> QED
  BY <1>2, <1>3, <1>4, <1>5

LEMMA SymbolFacts ==
  ASSUME Going, NEW f \in Ids
  PROVE  /\ DOMAIN Syms(f) \subseteq Nat /\ IsFiniteSet(DOMAIN Syms(f))
         /\ \A i \in DOMAIN Syms(f) :
              /\ Syms(f)[i].sym \in Names /\ Syms(f)[i].use \in Uses
              /\ Syms(f)[i].use = "Shared" => files[f].role = "shared"
<1> DEFINE s == Syms(f)
<1>1. s \in Seq(Symbol) /\ (files[f].role # "shared" => s \in Seq(ObjectSymbol))
  BY SymsTyped
<1> HIDE DEF s
<1>2. DOMAIN s = 1 .. Len(s) /\ Len(s) \in Nat
  BY <1>1
<1>3. IsFiniteSet(DOMAIN s)
  BY <1>2, FS_Interval
<1>4. \A i \in DOMAIN s : s[i] \in Symbol /\ (files[f].role # "shared" => s[i] \in ObjectSymbol)
  BY <1>1
<1>5. \A i \in DOMAIN s : /\ s[i].sym \in Names /\ s[i].use \in Uses
                          /\ s[i].use = "Shared" => files[f].role = "shared"
  BY <1>4 DEF Symbol, ObjectSymbol
<1> QED
  BY <1>2, <1>3, <1>5 DEF s

(* What a definition that competes is. *)
LEMMA CompetingFacts ==
  ASSUME Going, NEW s, NEW d \in Competing(s)
  PROVE  /\ d.file \in Ids /\ d.file \in Nat /\ d.index \in Nat /\ d.position \in Nat
         /\ d = Candidate(d.kind, d.file, d.index) /\ d.size = 0
         /\ d.kind \in {"Lazy", "Shared", "Weak", "Common", "Regular"}
         /\ d.kind = "Lazy" => ~files[d.file].start
         /\ d.kind # "Lazy" =>
              /\ d.file \in live /\ d.index \in DOMAIN Syms(d.file)
              /\ Syms(d.file)[d.index].sym = s /\ Syms(d.file)[d.index].use = d.kind
         /\ d.kind = "Shared" => files[d.file].role = "shared"
<1>1. \/ \E f \in Ids : ~files[f].start /\ \E i \in DOMAIN files[f].lazy : d = Candidate("Lazy", f, i)
      \/ \E f \in live : \E i \in DOMAIN Syms(f) :
           /\ Syms(f)[i].sym = s /\ IsDefinitionUse(Syms(f)[i].use)
           /\ d = Candidate(Syms(f)[i].use, f, i)
  BY DEF Competing
<1>2. \A kind, f, i : LET c == Candidate(kind, f, i) IN
        /\ c.kind = kind /\ c.file = f /\ c.index = i /\ c.position = PositionOf(f) /\ c.size = 0
  BY DEF Candidate
<1>3. CASE \E f \in Ids : ~files[f].start /\ \E i \in DOMAIN files[f].lazy : d = Candidate("Lazy", f, i)
  <2>0. PICK f \in Ids : ~files[f].start /\ \E i \in DOMAIN files[f].lazy : d = Candidate("Lazy", f, i)
    BY <1>3
  <2>1. PICK i \in DOMAIN files[f].lazy : ~files[f].start /\ d = Candidate("Lazy", f, i)
    BY <2>0
  <2>2. IsSequence(files[f].lazy) /\ f \in Nat /\ PositionOf(f) \in Nat
    BY FileFacts DEF FileOK
  <2>3. i \in Nat
    BY <2>2, SequenceFacts
  <2> QED
    BY <1>2, <2>1, <2>2, <2>3
<1>4. CASE \E f \in live : \E i \in DOMAIN Syms(f) :
           /\ Syms(f)[i].sym = s /\ IsDefinitionUse(Syms(f)[i].use)
           /\ d = Candidate(Syms(f)[i].use, f, i)
  <2>0. PICK f \in live : \E i \in DOMAIN Syms(f) :
           /\ Syms(f)[i].sym = s /\ IsDefinitionUse(Syms(f)[i].use)
           /\ d = Candidate(Syms(f)[i].use, f, i)
    BY <1>4
  <2>1. PICK i \in DOMAIN Syms(f) :
           /\ Syms(f)[i].sym = s /\ IsDefinitionUse(Syms(f)[i].use)
           /\ d = Candidate(Syms(f)[i].use, f, i)
    BY <2>0
  <2>2. f \in Ids
    BY DEF Going, Alive
  <2>3. f \in Nat /\ PositionOf(f) \in Nat /\ i \in Nat
        /\ (Syms(f)[i].use = "Shared" => files[f].role = "shared")
    BY <2>2, FileFacts, SymbolFacts
  <2>4. d.kind = Syms(f)[i].use /\ d.kind \in {"Shared", "Weak", "Common", "Regular"}
    BY <1>2, <2>1 DEF IsDefinitionUse
  <2> QED
    BY <1>2, <2>1, <2>2, <2>3, <2>4
<1> QED
  BY <1>1, <1>3, <1>4

(* A set of definitions has a first one, by the tie key. *)
LEMMA TieLeast ==
  ASSUME NEW D, D # {}, \A d \in D : d.position \in Nat /\ d.file \in Nat /\ d.index \in Nat
  PROVE  \E d \in D : \A c \in D :
           TieLess(d, c) \/ (c.position = d.position /\ c.file = d.file /\ c.index = d.index)
<1> DEFINE P == {d.position : d \in D}
<1>1. P \in SUBSET Nat /\ P # {}
  OBVIOUS
<1>2. PICK p \in P : \A q \in P : p <= q
  BY <1>1, LeastNat
<1> DEFINE D2 == {d \in D : d.position = p}
           F == {d.file : d \in D2}
<1>3. F \in SUBSET Nat /\ F # {}
  BY <1>2
<1>4. PICK f \in F : \A g \in F : f <= g
  BY <1>3, LeastNat
<1> DEFINE D3 == {d \in D2 : d.file = f}
           X == {d.index : d \in D3}
<1>5. X \in SUBSET Nat /\ X # {}
  BY <1>4
<1>6. PICK i \in X : \A j \in X : i <= j
  BY <1>5, LeastNat
<1>7. PICK d \in D3 : d.index = i
  BY <1>6
<1>8. d \in D /\ d.position = p /\ d.file = f
  OBVIOUS
<1>9. ASSUME NEW c \in D
      PROVE  TieLess(d, c) \/ (c.position = d.position /\ c.file = d.file /\ c.index = d.index)
  <2>1. p <= c.position /\ (c.position = p => f <= c.file)
        /\ (c.position = p /\ c.file = f => i <= c.index)
    BY <1>2, <1>4, <1>6
  <2>2. c.position \in Nat /\ c.file \in Nat /\ c.index \in Nat /\ p \in Nat /\ f \in Nat /\ i \in Nat
    BY <1>1, <1>3, <1>5
  <2> QED
    BY <2>1, <2>2, <1>7, <1>8 DEF TieLess
<1> QED
  BY <1>8, <1>9

(* Precedence between what competes for a symbol: the kinds in classes, an *)
(* archive member and a shared library in one.                             *)
ClassOf(kind) == CASE kind = "Regular" -> 0 [] kind = "Common" -> 1 [] kind = "Weak" -> 2 [] OTHER -> 3

LEMMA CompetingPrecedence ==
  ASSUME NEW d, NEW c,
         d.kind \in {"Lazy", "Shared", "Weak", "Common", "Regular"},
         c.kind \in {"Lazy", "Shared", "Weak", "Common", "Regular"},
         d.size = 0, c.size = 0, d.position \in Nat, c.position \in Nat,
         d.file \in Nat, c.file \in Nat,
         \/ ClassOf(d.kind) < ClassOf(c.kind)
         \/ ClassOf(d.kind) = ClassOf(c.kind) /\ TieLess(d, c) /\ d.file # c.file
         \/ d.kind = c.kind /\ TieLess(d, c)
  PROVE  TakesPrecedence(d, c)
<1>1. /\ Rank("Lazy") = 1 /\ Rank("Shared") = 2 /\ Rank("Weak") = 3
      /\ Rank("Common") = 4 /\ Rank("Regular") = 5
  BY DEF Rank
<1>2. IsDefined(d) /\ IsDefined(c)
  BY DEF IsDefined
<1>3. CASE LazyAgainstShared(d, c)
  BY <1>2, <1>3 DEF LazyAgainstShared, ClassOf, TakesPrecedence, Compare, Cmp, TieLess
<1>4. CASE ~LazyAgainstShared(d, c)
  <2>1. ClassOf(d.kind) = ClassOf(c.kind) => d.kind = c.kind
    BY <1>4 DEF ClassOf, LazyAgainstShared
  <2>2. CASE d.kind = c.kind
    BY <1>1, <1>2, <1>4, <2>2 DEF ClassOf, TakesPrecedence, Compare, Cmp
  <2>3. CASE d.kind # c.kind
    <3>1. ClassOf(d.kind) < ClassOf(c.kind)
      BY <2>1, <2>3
    <3>2. Rank(d.kind) > Rank(c.kind)
      BY <1>1, <1>4, <3>1 DEF ClassOf, LazyAgainstShared
    <3> QED
      BY <1>1, <1>2, <1>4, <2>3, <3>2 DEF TakesPrecedence, Compare, Cmp
  <2> QED
    BY <2>2, <2>3
<1> QED
  BY <1>3, <1>4

LEMMA BestCompetes ==
  ASSUME Going, NEW s
  PROVE  \/ Competing(s) = {} /\ Best(s) = UndefinedDefinition
         \/ Best(s) \in Competing(s)
<1> SUFFICES ASSUME Competing(s) # {}
             PROVE  \E d \in Competing(s) : \A c \in Competing(s) \ {d} : TakesPrecedence(d, c)
  BY DEF Best
<1> DEFINE all == Competing(s)
           K == {ClassOf(d.kind) : d \in all}
<1>1. \A d \in all : ClassOf(d.kind) \in Nat
  BY DEF ClassOf
<1>2. K \in SUBSET Nat /\ K # {}
  BY <1>1
<1>3. PICK k \in K : \A m \in K : k <= m
  BY <1>2, LeastNat
<1> DEFINE D == {d \in all : ClassOf(d.kind) = k}
<1>4. D # {} /\ \A d \in D : d.position \in Nat /\ d.file \in Nat /\ d.index \in Nat
  BY <1>3, CompetingFacts
<1>5. PICK d \in D : \A c \in D :
           TieLess(d, c) \/ (c.position = d.position /\ c.file = d.file /\ c.index = d.index)
  BY <1>4, TieLeast
<1>6. ASSUME NEW c \in all, c # d PROVE TakesPrecedence(d, c)
  <2>1. d \in all /\ ClassOf(d.kind) = k /\ k \in Nat /\ ClassOf(c.kind) \in Nat
    BY <1>1, <1>2
  <2>2. /\ d.kind \in {"Lazy", "Shared", "Weak", "Common", "Regular"}
        /\ c.kind \in {"Lazy", "Shared", "Weak", "Common", "Regular"}
        /\ d.size = 0 /\ c.size = 0 /\ d.position \in Nat /\ c.position \in Nat
        /\ d.file \in Nat /\ c.file \in Nat
    BY <2>1, CompetingFacts
  <2>3. CASE ClassOf(c.kind) # k
    <3>1. k < ClassOf(c.kind)
      BY <1>3, <2>1, <2>3
    <3> QED
      BY <2>1, <2>2, <3>1, CompetingPrecedence
  <2>4. CASE ClassOf(c.kind) = k
    <3>1. c \in D
      BY <2>4
    <3>2. d.file = c.file => d.kind = c.kind
      <4>1. /\ d.kind = "Lazy" => ~files[d.file].start
            /\ c.kind = "Lazy" => ~files[c.file].start
            /\ d.kind = "Shared" => files[d.file].role = "shared"
            /\ c.kind = "Shared" => files[c.file].role = "shared"
            /\ d.file \in Ids
        BY <2>1, CompetingFacts
      <4>2. files[d.file].role = "shared" => files[d.file].start
        BY <4>1, FileFacts DEF FileOK
      <4> QED
        BY <4>1, <4>2, <2>1, <2>2, <2>4 DEF ClassOf
    <3>3. ~(c.position = d.position /\ c.file = d.file /\ c.index = d.index)
      <4>1. d = Candidate(d.kind, d.file, d.index) /\ c = Candidate(c.kind, c.file, c.index)
        BY <2>1, CompetingFacts
      <4> QED
        BY <4>1, <3>2, <1>6
    <3>4. TieLess(d, c)
      BY <1>5, <3>1, <3>3
    <3> QED
      BY <2>1, <2>2, <2>4, <3>2, <3>4, CompetingPrecedence
  <2> QED
    BY <2>3, <2>4
<1> QED
  BY <1>6

LEMMA FirstOfShared ==
  ASSUME Going, NEW fs \in SUBSET Ids, NEW s, SharedDefinitions(fs, s) # {}
  PROVE  /\ FirstOf(SharedDefinitions(fs, s)) \in SharedDefinitions(fs, s)
         /\ FirstOf(SharedDefinitions(fs, s)).kind = "Shared"
         /\ FirstOf(SharedDefinitions(fs, s)).file \in fs
<1> DEFINE D == SharedDefinitions(fs, s)
<1>1. ASSUME NEW d \in D
      PROVE  /\ d.kind = "Shared" /\ d.file \in fs /\ d = Candidate("Shared", d.file, d.index)
             /\ d.position \in Nat /\ d.file \in Nat /\ d.index \in Nat
  <2>1. PICK f \in fs : \E i \in DOMAIN Syms(f) : d = Candidate("Shared", f, i)
    BY DEF SharedDefinitions
  <2>2. PICK i \in DOMAIN Syms(f) : d = Candidate("Shared", f, i)
    BY <2>1
  <2>3. f \in Ids /\ f \in Nat /\ PositionOf(f) \in Nat /\ i \in Nat
    BY FileFacts, SymbolFacts
  <2> QED
    BY <2>2, <2>3 DEF Candidate
<1> HIDE DEF D
<1>2. PICK d \in D : \A c \in D :
           TieLess(d, c) \/ (c.position = d.position /\ c.file = d.file /\ c.index = d.index)
  BY <1>1, TieLeast DEF D
<1>3. \A c \in D \ {d} : TieLess(d, c)
  BY <1>1, <1>2
<1>4. FirstOf(D) \in D
  BY <1>3 DEF FirstOf
<1> QED
  BY <1>1, <1>4 DEF D

-----------------------------------------------------------------------------
(***************************************************************************)
(* Contents and tables                                                     *)
(***************************************************************************)
Held == Going /\ Working /\ Deferring /\ Resolved /\ Opens /\ stage # "failed"

LEMMA SequenceExcept ==
  ASSUME NEW s, IsSequence(s), NEW k \in DOMAIN s, NEW x
  PROVE  /\ IsSequence([s EXCEPT ![k] = x]) /\ DOMAIN [s EXCEPT ![k] = x] = DOMAIN s
         /\ Len([s EXCEPT ![k] = x]) = Len(s)
         /\ [s EXCEPT ![k] = x][k] = x
         /\ \A j \in DOMAIN s : j # k => [s EXCEPT ![k] = x][j] = s[j]
<1> DEFINE t == [s EXCEPT ![k] = x]
<1>1. DOMAIN t = 1 .. Len(s) /\ Len(s) \in Nat /\ t = [i \in DOMAIN t |-> t[i]]
  BY SequenceFacts
<1>2. IsSequence(t) /\ Len(t) = Len(s)
  <2> HIDE DEF t
  <2> QED
    BY <1>1, SequenceMade
<1> QED
  BY <1>2

LEMMA SequenceMapped ==
  ASSUME NEW s, IsSequence(s), NEW t, DOMAIN t = DOMAIN s, t = [i \in DOMAIN t |-> t[i]]
  PROVE  IsSequence(t) /\ Len(t) = Len(s)
BY SequenceFacts, SequenceMade

LEMMA OpenedStored ==
  ASSUME Stored, NEW p
  PROVE  OpenFailed(Opened(p)) \/ Opened(p) \in DOMAIN job.content
BY DEF Stored, Opened, OpenFailed, IsFile

LEMMA RepeatOfDomain ==
  ASSUME Opens, NEW i \in DOMAIN Specs
  PROVE  RepeatOf(i) = 0 \/ RepeatOf(i) \in DOMAIN Specs
<1> DEFINE Same == {m \in 1 .. i - 1 : /\ Specs[i].kind # "bytes" /\ Specs[m].kind # "bytes"
                                       /\ work[m].path = work[i].path}
<1>1. DOMAIN Specs \subseteq Nat /\ 1 .. i - 1 \subseteq DOMAIN Specs
  BY DEF Opens, IsSequence
<1>2. Same \in SUBSET Nat /\ Same \subseteq DOMAIN Specs
  BY <1>1
<1>3. Same # {} => \E x \in Same : \A y \in Same : x <= y
  BY <1>2, LeastNat
<1> QED
  BY <1>2, <1>3 DEF RepeatOf

LEMMA AllOpenedStored ==
  ASSUME Stored, Opens, stage = "open", NEW i \in DOMAIN Specs
  PROVE  LET c == IF RepeatOf(i) = 0 THEN opened[i] ELSE RepeatedContent(i)
         IN OpenFailed(c) \/ c \in DOMAIN job.content
<1>1. DOMAIN opened = DOMAIN Specs
  BY DEF Opens, Opening
<1>2. \A j \in DOMAIN Specs : OpenFailed(opened[j]) \/ opened[j] \in DOMAIN job.content
  BY <1>1 DEF Stored
<1> QED
  BY <1>2, RepeatOfDomain, OpenedStored DEF RepeatedContent

(* A table that grows by known contents. *)
LEMMA StoredMore ==
  ASSUME Stored, UNCHANGED <<job, disk, opened, pass>>, NEW t, IsSequence(t), table' = table \o t,
         \A n \in DOMAIN t : t[n].content \in DOMAIN job.content
  PROVE  Stored'
<1>1. IsSequence(table)
  BY DEF Stored
<1>2. /\ IsSequence(table \o t)
      /\ \A i \in 1 .. Len(table) : (table \o t)[i] = table[i]
      /\ \A i \in DOMAIN (table \o t) : i \notin 1 .. Len(table) =>
           i - Len(table) \in 1 .. Len(t) /\ (table \o t)[i] = t[i - Len(table)]
  BY <1>1, SequenceConcat
<1>3. DOMAIN table = 1 .. Len(table) /\ DOMAIN t = 1 .. Len(t)
  BY <1>1, SequenceFacts
<1>4. \A n \in DOMAIN (table \o t) : (table \o t)[n].content \in DOMAIN job.content
  BY <1>2, <1>3 DEF Stored
<1>5. IsSequence(table') /\ \A n \in DOMAIN table' : table'[n].content \in DOMAIN job'.content
  BY <1>2, <1>4
<1> QED
  BY <1>5 DEF Stored, OpenFailed

LEMMA AppendConcat ==
  ASSUME NEW s, IsSequence(s), NEW x
  PROVE  Append(s, x) = s \o <<x>>
<1>1. s \in Seq(ToSet(s) \cup {x}) /\ x \in ToSet(s) \cup {x}
  BY DEF IsSequence
<1> QED
  BY <1>1

LEMMA StoredAppend ==
  ASSUME Stored, UNCHANGED <<job, disk, opened, pass>>, NEW x, table' = Append(table, x),
         x.content \in DOMAIN job.content
  PROVE  Stored'
<1>1. IsSequence(<<x>>) /\ \A n \in DOMAIN <<x>> : <<x>>[n].content \in DOMAIN job.content
  BY SequenceOne
<1>2. table' = table \o <<x>>
  BY AppendConcat DEF Stored
<1> QED
  BY <1>1, <1>2, StoredMore

LEMMA PushInputsStored ==
  ASSUME Held, PushInputs, UNCHANGED pass
  PROVE  Stored'
<1> DEFINE all == [i \in DOMAIN Specs |-> IF RepeatOf(i) = 0 THEN opened[i] ELSE RepeatedContent(i)]
           given == [i \in DOMAIN Specs |-> [path |-> work[i].path, content |-> all[i]]]
           good == {f \in ToSet(given) : ~OpenFailed(f.content)}
<1>1. UNCHANGED <<job, disk>> /\ opened' = all /\ table' = Picked(given, good) /\ stage = "open"
  BY DEF PushInputs
<1>2. \A i \in DOMAIN Specs : OpenFailed(all[i]) \/ all[i] \in DOMAIN job.content
  BY <1>1, AllOpenedStored DEF Held, Going
<1>3. IsSequence(Specs)
  BY DEF Held, Opens
<1>4. DOMAIN given = DOMAIN Specs /\ given = [i \in DOMAIN given |-> given[i]]
  OBVIOUS
<1>5. IsSequence(given)
  <2> HIDE DEF given
  <2> QED
    BY <1>3, <1>4, SequenceMapped
<1>6. \A x \in ToSet(given) \cap good : x.content \in DOMAIN job.content
  BY <1>2 DEF ToSet
<1> HIDE DEF given, good
<1>7. /\ IsSequence(Picked(given, good))
      /\ \A n \in DOMAIN Picked(given, good) : Picked(given, good)[n] \in ToSet(given) \cap good
  BY <1>5, PickedElements
<1>8. \A n \in DOMAIN table' : table'[n].content \in DOMAIN job.content
  BY <1>1, <1>6, <1>7
<1>9. \A i \in DOMAIN opened' : OpenFailed(opened'[i]) \/ opened'[i] \in DOMAIN job.content
  BY <1>1, <1>2
<1>10. IsSequence(table')
  BY <1>1, <1>7
<1> QED
  BY <1>1, <1>8, <1>9, <1>10 DEF Held, Going, Stored, OpenFailed

LEMMA NextFacts ==
  ASSUME Held, Adding
  PROVE  /\ Next1 = work[1] /\ 1 \in DOMAIN work /\ ItemOK(Next1, Len(table)) /\ DOMAIN Next1 = ItemFields
         /\ Next1.id \in -1 .. Len(table) /\ ItemsOK(Tail(work), Len(table))
         /\ Next1.id > 0 => /\ Next1.id \in DOMAIN table
                            /\ C1 \in DOMAIN job.content
                            /\ IsContent(Content(C1), DOMAIN job.content)
<1>1. IsSequence(work) /\ work # <<>> /\ (\A i \in DOMAIN work : ItemOK(work[i], Len(table))) /\ Next1.op = "add"
  BY DEF Held, Working, Adding, ItemsOK
<1>2. /\ Next1 = work[1] /\ 1 \in DOMAIN work /\ IsSequence(Tail(work))
      /\ \A i \in DOMAIN Tail(work) : i + 1 \in DOMAIN work /\ Tail(work)[i] = work[i + 1]
  BY <1>1, SequenceTail DEF Next1
<1>3. ItemOK(Next1, Len(table)) /\ \A i \in DOMAIN Tail(work) : ItemOK(Tail(work)[i], Len(table))
  BY <1>1, <1>2
<1>4. DOMAIN Next1 = ItemFields /\ Next1.id \in -1 .. Len(table)
  BY <1>1, <1>3 DEF ItemOK
<1>5. Next1.id > 0 => Next1.id \in DOMAIN table
  BY <1>4, FileFacts DEF Held
<1>6. Next1.id > 0 => C1 \in DOMAIN job.content
  BY <1>5 DEF C1, Held, Going, Stored
<1>7. Next1.id > 0 => IsContent(Content(C1), DOMAIN job.content)
  BY <1>6 DEF Held, Going, Stored, IsJob, Content
<1> QED
  BY <1>1, <1>2, <1>3, <1>4, <1>5, <1>6, <1>7 DEF ItemsOK

LEMMA NextRoundIds ==
  ASSUME Held, NEW f \in NextRound
  PROVE  f \in Ids /\ f \notin live
<1>1. CASE live = {}
  BY <1>1 DEF NextRound
<1>2. CASE live # {}
  <2>1. PICK s : Best(s).kind = "Lazy" /\ f = Best(s).file /\ f \notin live
    BY <1>2 DEF NextRound
  <2>2. Best(s) # UndefinedDefinition
    BY <2>1 DEF UndefinedDefinition
  <2>3. Best(s) \in Competing(s)
    BY <2>2, BestCompetes DEF Held
  <2> QED
    BY <2>1, <2>3, CompetingFacts DEF Held
<1> QED
  BY <1>1, <1>2

(* What a file is loaded from. *)
LEMMA LoadedFacts ==
  ASSUME Held, NEW f \in Ids, ~LoadFails(f)
  PROVE  /\ files[f].thin # NoThin =>
              /\ files[f].role \in {"object", "member"} /\ ~files[f].object
              /\ LoadedContent(f) \in DOMAIN job.content
         /\ files[f].thin = NoThin => LoadedContent(f) = ContentOf(f)
         /\ files[f].thin = NoThin /\ files[f].id # 0 => LoadedContent(f) \in DOMAIN job.content
<1>1. FileOK(files[f], table, job.content)
  BY FileFacts DEF Held
<1>2. ASSUME files[f].thin # NoThin
      PROVE  /\ files[f].role \in {"object", "member"} /\ ~files[f].object
             /\ LoadedContent(f) \in DOMAIN job.content
  <2>1. files[f].role \in {"object", "member"} /\ ~files[f].object
    BY <1>1, <1>2 DEF FileOK
  <2>2. ~OpenFailed(LoadedContent(f))
    BY <2>1 DEF LoadFails
  <2>3. LoadedContent(f) = Opened(files[f].thin.path)
    BY <1>2 DEF LoadedContent
  <2> QED
    BY <2>1, <2>2, <2>3, OpenedStored DEF Held, Going
<1>3. files[f].thin = NoThin => LoadedContent(f) = ContentOf(f)
  BY DEF LoadedContent
<1>4. files[f].thin = NoThin /\ files[f].id # 0 => LoadedContent(f) \in DOMAIN job.content
  BY <1>3, FileFacts DEF Held
<1> QED
  BY <1>2, <1>3, <1>4

LEMMA ThinFacts ==
  ASSUME Held, NEW fs \in SUBSET Ids
  PROVE  /\ IsSequence(Thin(fs)) /\ Len(Thin(fs)) \in Nat
         /\ \A n \in DOMAIN Thin(fs) : Thin(fs)[n] \in fs /\ files[Thin(fs)[n]].thin # NoThin
         /\ Len(Thin(fs)) = Cardinality({f \in fs : files[f].thin # NoThin})
<1> DEFINE ids == [f \in Ids |-> f]
           K == {f \in fs : files[f].thin # NoThin}
<1>1. IsSequence(files) /\ DOMAIN ids = DOMAIN files /\ ids = [f \in DOMAIN ids |-> ids[f]]
  BY DEF Held, Going, Listed, Ids
<1>2. IsSequence(ids)
  <2> HIDE DEF ids
  <2> QED
    BY <1>1, SequenceMapped
<1>3. Thin(fs) = Picked(ids, K)
  BY DEF Thin
<1>4. {i \in DOMAIN ids : ids[i] \in K} = K
  OBVIOUS
<1> HIDE DEF ids
<1>5. /\ IsSequence(Picked(ids, K))
      /\ \A n \in DOMAIN Picked(ids, K) : Picked(ids, K)[n] \in K
      /\ Len(Picked(ids, K)) = Cardinality(K)
  <2> HIDE DEF K
  <2>1. Len(Picked(ids, K)) = Cardinality({i \in DOMAIN ids : ids[i] \in K})
    BY <1>2, PickedLength
  <2>2. /\ IsSequence(Picked(ids, K))
        /\ \A n \in DOMAIN Picked(ids, K) : Picked(ids, K)[n] \in ToSet(ids) \cap K
    BY <1>2, PickedElements
  <2>3. Len(Picked(ids, K)) = Cardinality(K)
    BY <2>1, <1>4, Zenon
  <2> QED
    BY <2>2, <2>3
<1>6. Len(Picked(ids, K)) \in Nat
  BY <1>5, SequenceFacts
<1> QED
  BY <1>3, <1>5, <1>6

LEMMA LoadRoundTable ==
  ASSUME Held, LoadRound, stage' = "claiming"
  PROVE  /\ stage = "round" /\ NextRound \subseteq Ids /\ NextRound # {}
         /\ \A f \in NextRound : f \notin live /\ ~LoadFails(f)
         /\ live' = live \cup NextRound
         /\ todo' = {f \in NextRound : files[f].lto = "claim" /\ PendingIr(f)}
         /\ files' = [f \in Ids |-> IF f \in NextRound THEN LoadedFile(f) ELSE files[f]]
         /\ \E t : /\ IsSequence(t) /\ Len(t) = Len(Thin(NextRound)) /\ table' = table \o t
                   /\ \A n \in DOMAIN t : /\ Thin(NextRound)[n] \in NextRound
                                          /\ t[n].content = LoadedContent(Thin(NextRound)[n])
                                          /\ t[n].content \in DOMAIN job.content
         /\ UNCHANGED <<job, disk, opened, work, walk, indexed, err, cancel, cell>>
         /\ UNCHANGED <<hostVars, claims, pass, needed, first>>
<1> DEFINE new == NextRound
           t == [i \in DOMAIN Thin(new) |->
                   [path |-> files[Thin(new)[i]].thin.path, content |-> LoadedContent(Thin(new)[i])]]
<1>1. /\ stage = "round" /\ new # {} /\ \A f \in new : ~LoadFails(f)
      /\ live' = live \cup new
      /\ todo' = {f \in new : files[f].lto = "claim" /\ PendingIr(f)}
      /\ files' = [f \in Ids |-> IF f \in new THEN LoadedFile(f) ELSE files[f]]
      /\ table' = table \o t
      /\ UNCHANGED <<job, disk, opened, work, walk, indexed, err, cancel, cell>>
      /\ UNCHANGED <<hostVars, claims, pass, needed, first>>
  BY DEF LoadRound, SetStage, Fail
<1>2. new \subseteq Ids /\ \A f \in new : f \notin live
  BY NextRoundIds
<1>3. /\ IsSequence(Thin(new))
      /\ \A n \in DOMAIN Thin(new) : Thin(new)[n] \in new /\ files[Thin(new)[n]].thin # NoThin
  BY <1>2, ThinFacts
<1>4. DOMAIN t = DOMAIN Thin(new) /\ t = [n \in DOMAIN t |-> t[n]]
      /\ \A n \in DOMAIN t : t[n].content = LoadedContent(Thin(new)[n])
  OBVIOUS
<1> HIDE DEF t
<1>5. IsSequence(t) /\ Len(t) = Len(Thin(new))
  BY <1>3, <1>4, SequenceMapped
<1>6. \A n \in DOMAIN t : t[n].content \in DOMAIN job.content
  BY <1>1, <1>2, <1>3, <1>4, LoadedFacts
<1> QED
  BY <1>1, <1>2, <1>3, <1>4, <1>5, <1>6

LEMMA TableStored ==
  ASSUME Held, UNCHANGED pass, LoadNext \/ AddArchive \/ AddLtoLibrary \/ LoadRound
  PROVE  Stored'
<1>0. Stored
  BY DEF Held, Going
<1>1. ASSUME UNCHANGED <<job, disk, opened, table, pass>> PROVE Stored'
  BY <1>0, <1>1 DEF Stored, OpenFailed
<1>2. CASE LoadNext
  <2>1. CASE OpenFailed(Opened(Next1.path))
    BY <1>1, <1>2, <2>1 DEF LoadNext, Stop
  <2>2. CASE ~OpenFailed(Opened(Next1.path))
    <3>1. UNCHANGED <<job, disk, opened>>
          /\ table' = Append(table, [path |-> Next1.path, content |-> Opened(Next1.path)])
      BY <1>2, <2>2 DEF LoadNext
    <3> QED
      BY <3>1, <2>2, <1>0, OpenedStored, StoredAppend
  <2> QED
    BY <2>1, <2>2
<1>3. CASE AddArchive
  <2>1. CASE table' = table
    BY <1>1, <1>3, <2>1 DEF AddArchive
  <2>2. CASE table' # table
    <3> DEFINE ms == Content(C1).members
               t == [i \in DOMAIN ms |-> [path |-> Next1.path, content |-> ms[i].content]]
    <3>1. UNCHANGED <<job, disk, opened>> /\ table' = table \o t /\ Ready({"archive", "thin"})
      BY <1>3, <2>2 DEF AddArchive, Stop
    <3>2. Content(C1).kind \in {"archive", "thin"} /\ IsContent(Content(C1), DOMAIN job.content)
      BY <3>1, NextFacts DEF Ready
    <3>3. IsSequence(ms) /\ \A i \in DOMAIN ms : ms[i].content \in DOMAIN job.content
      BY <3>2 DEF IsContent
    <3>4. DOMAIN t = DOMAIN ms /\ t = [i \in DOMAIN t |-> t[i]]
          /\ \A i \in DOMAIN t : t[i].content \in DOMAIN job.content
      BY <3>3
    <3> HIDE DEF t
    <3>5. IsSequence(t)
      BY <3>3, <3>4, SequenceMapped
    <3> QED
      BY <1>0, <3>1, <3>4, <3>5, StoredMore
  <2> QED
    BY <2>1, <2>2
<1>4. CASE AddLtoLibrary
  <2>1. CASE table' = table
    BY <1>1, <1>4, <2>1 DEF AddLtoLibrary
  <2>2. CASE table' # table
    <3>1. PICK p : /\ UNCHANGED <<job, disk, opened>> /\ ~OpenFailed(Opened(p))
                   /\ table' = Append(table, [path |-> p, content |-> Opened(p)])
      BY <1>4, <2>2 DEF AddLtoLibrary
    <3> QED
      BY <3>1, <1>0, OpenedStored, StoredAppend
  <2> QED
    BY <2>1, <2>2
<1>5. CASE LoadRound
  <2>1. CASE stage' # "claiming"
    BY <1>1, <1>5, <2>1 DEF LoadRound, SetStage, Fail
  <2>2. CASE stage' = "claiming"
    <3>1. /\ UNCHANGED <<job, disk, opened>>
          /\ \E t : /\ IsSequence(t) /\ table' = table \o t
                    /\ \A n \in DOMAIN t : t[n].content \in DOMAIN job.content
      BY <1>5, <2>2, LoadRoundTable
    <3> QED
      BY <3>1, <1>0, StoredMore
  <2> QED
    BY <2>1, <2>2
<1> QED
  BY <1>2, <1>3, <1>4, <1>5

(* What the plugins were told of are symbols of objects. *)
LEMMA ToldFacts ==
  ASSUME Held, stage = "symbols", NEW values
  PROVE  Told(values) \subseteq ObjectSymbol /\ IsFiniteSet(Told(values))
<1> DEFINE K == {r \in DOMAIN host.files : host.files[r].state = "included"}
           J(k) == {j \in DOMAIN host.files[k].resolution : host.files[k].resolution[j] \in values}
           E(k) == {host.files[k].symbols[1].syms[i] : i \in J(k)}
<1>1. ASSUME NEW k \in K
      PROVE  E(k) \subseteq ObjectSymbol /\ IsFiniteSet(E(k))
  <2> DEFINE r == host.files[k]
  <2>1. /\ IsSequence(r.resolution) /\ AddedOK(r.symbols)
        /\ r.resolution # <<>> => r.symbols # <<>> /\ DOMAIN r.resolution = DOMAIN r.symbols[1].syms
    BY DEF Held, Going, Claiming, Records
  <2> HIDE DEF r
  <2>2. IsFiniteSet(DOMAIN r.resolution)
    <3>1. DOMAIN r.resolution = 1 .. Len(r.resolution) /\ Len(r.resolution) \in Nat
      BY <2>1, SequenceFacts
    <3> QED
      BY <3>1, FS_Interval
  <2>3. J(k) \in SUBSET DOMAIN r.resolution
    BY DEF r
  <2>4. IsFiniteSet(J(k))
    <3> HIDE DEF J
    <3> QED
      BY <2>2, <2>3, FS_Subset
  <2> DEFINE g == [i \in J(k) |-> r.symbols[1].syms[i]]
  <2>5. DOMAIN g = J(k) /\ g = [i \in DOMAIN g |-> g[i]] /\ E(k) = {g[i] : i \in DOMAIN g}
    BY DEF r
  <2>6. IsFiniteSet(E(k))
    <3> HIDE DEF g, J, E
    <3>1. IsFiniteSet({g[i] : i \in DOMAIN g})
      BY <2>4, <2>5, FiniteRange
    <3> QED
      BY <3>1, <2>5
  <2>7. ASSUME NEW i \in J(k) PROVE r.symbols[1].syms[i] \in ObjectSymbol
    <3>1. i \in DOMAIN r.resolution /\ r.resolution # <<>>
      BY <2>3, SequenceEmpty
    <3>2. 1 \in DOMAIN r.symbols
      BY <2>1, <3>1, SequenceTail DEF AddedOK
    <3>3. r.symbols[1].syms \in Seq(ObjectSymbol) /\ i \in DOMAIN r.symbols[1].syms
      BY <2>1, <3>1, <3>2 DEF AddedOK
    <3> QED
      BY <3>3
  <2>8. E(k) \subseteq ObjectSymbol
    BY <2>7 DEF r
  <2> QED
    BY <2>6, <2>8
<1>2. IsFiniteSet(K)
  <2>1. IsSequence(host.files)
    BY DEF Held, Going, Records
  <2>2. DOMAIN host.files = 1 .. Len(host.files) /\ Len(host.files) \in Nat
    BY <2>1, SequenceFacts
  <2>3. IsFiniteSet(DOMAIN host.files) /\ K \in SUBSET DOMAIN host.files
    BY <2>2, FS_Interval
  <2> HIDE DEF K
  <2> QED
    BY <2>3, FS_Subset
<1> DEFINE F == [k \in K |-> E(k)]
<1>3. DOMAIN F = K /\ F = [k \in DOMAIN F |-> F[k]] /\ {F[k] : k \in DOMAIN F} = {E(k) : k \in K}
  BY Zenon
<1>4. IsFiniteSet({E(k) : k \in K})
  <2> HIDE DEF F, K, E
  <2>1. IsFiniteSet({F[k] : k \in DOMAIN F})
    BY <1>2, <1>3, FiniteRange
  <2> QED
    BY <2>1, <1>3
<1>5. Told(values) = UNION {E(k) : k \in K}
  BY DEF Told
<1> HIDE DEF K, E
<1>6. \A S \in {E(k) : k \in K} : IsFiniteSet(S) /\ S \subseteq ObjectSymbol
  BY <1>1
<1>7. IsFiniteSet(UNION {E(k) : k \in K})
  BY <1>4, <1>6, FS_UNION
<1> QED
  BY <1>5, <1>6, <1>7

LEMMA GeneratedContents ==
  ASSUME Held, stage = "symbols", NEW D
  PROVE  /\ IsContent(Generated[1], D) /\ IsContent(Generated[2], D)
         /\ Generated[1].kind = "rel" /\ Generated[2].kind = "rel"
<1> DEFINE told == Told({"prevailing", "ironly exp"})
           told2 == Told({"resolved exec", "resolved dyn", "undefined", "preempted"})
           defs == SetToSeq(told)
           refs == {e.sym : e \in told2}
           use == {[sym |-> s, use |-> "Reference", hidden |-> FALSE] : s \in refs \cup job.libcalls}
           uses == SetToSeq(use)
<1>1. Generated = <<NativeObject(defs), NativeObject(uses)>>
  BY DEF Generated
<1>2. ASSUME NEW S, S \subseteq ObjectSymbol, IsFiniteSet(S) PROVE SetToSeq(S) \in Seq(ObjectSymbol)
  <2>1. SetToSeq(S) \in Seq(S)
    BY <1>2, FiniteSeqToSet
  <2>2. Seq(S) \subseteq Seq(ObjectSymbol)
    BY <1>2
  <2> QED
    BY <2>1, <2>2
<1>3. defs \in Seq(ObjectSymbol)
  BY <1>2, ToldFacts
<1>4. told2 \subseteq ObjectSymbol /\ IsFiniteSet(told2)
  BY ToldFacts
<1> HIDE DEF told2
<1>5. refs \subseteq Names /\ IsFiniteSet(refs)
  <2>1. refs \subseteq Names
    BY <1>4 DEF ObjectSymbol
  <2> DEFINE g == [e \in told2 |-> e.sym]
  <2>2. DOMAIN g = told2 /\ g = [e \in DOMAIN g |-> g[e]] /\ {g[e] : e \in DOMAIN g} = refs
    BY Zenon
  <2>3. IsFiniteSet(refs)
    <3> HIDE DEF g, refs
    <3>1. IsFiniteSet({g[e] : e \in DOMAIN g})
      BY <1>4, <2>2, FiniteRange
    <3> QED
      BY <3>1, <2>2
  <2> QED
    BY <2>1, <2>3
<1> HIDE DEF refs
<1>6. job.libcalls \subseteq Names /\ IsFiniteSet(job.libcalls)
  BY DEF Held, Going, Stored, IsJob
<1>7. IsFiniteSet(refs \cup job.libcalls)
  BY <1>5, <1>6, FS_Union
<1>8. use \subseteq ObjectSymbol
  <2>1. ASSUME NEW s \in Names
        PROVE  [sym |-> s, use |-> "Reference", hidden |-> FALSE] \in ObjectSymbol
    BY DEF ObjectSymbol, Uses
  <2>2. \A s \in refs \cup job.libcalls : s \in Names
    BY <1>5, <1>6
  <2> QED
    BY <2>1, <2>2
<1>9. IsFiniteSet(use)
  <2> DEFINE A == refs \cup job.libcalls
             g == [s \in A |-> [sym |-> s, use |-> "Reference", hidden |-> FALSE]]
  <2>1. DOMAIN g = A /\ g = [s \in DOMAIN g |-> g[s]] /\ {g[s] : s \in DOMAIN g} = use
    BY Zenon
  <2>2. IsFiniteSet(A)
    BY <1>7
  <2> HIDE DEF g, A, use
  <2>3. IsFiniteSet({g[s] : s \in DOMAIN g})
    BY <2>1, <2>2, FiniteRange
  <2> QED
    BY <2>1, <2>3
<1> HIDE DEF use
<1>10. uses \in Seq(ObjectSymbol)
  BY <1>2, <1>8, <1>9
<1>11. Seq(ObjectSymbol) \subseteq Seq(Symbol)
  <2>1. ObjectSymbol \subseteq Symbol
    BY DEF ObjectSymbol, Symbol
  <2> QED
    BY <2>1
<1> HIDE DEF defs, uses
<1>12. ASSUME NEW x \in Seq(ObjectSymbol)
       PROVE  IsContent(NativeObject(x), D) /\ NativeObject(x).kind = "rel"
  <2>1. NativeObject(x).kind = "rel" /\ NativeObject(x).syms = x /\ NativeObject(x).ir = <<>>
    BY DEF NativeObject
  <2>2. x \in Seq(Symbol) /\ <<>> \in Seq(ObjectSymbol)
    BY <1>11
  <2> QED
    BY <2>1, <2>2 DEF IsContent
<1>13. Generated[1] = NativeObject(defs) /\ Generated[2] = NativeObject(uses)
  BY <1>1
<1> QED
  BY <1>3, <1>10, <1>12, <1>13

(* The command line after the IR was replaced. *)
Replaced == stage = "symbols" /\ ReplaceIr /\ stage' = "new input"

LEMMA ReplacedJob ==
  ASSUME Held, Replaced
  PROVE  /\ IsJob(job') /\ DOMAIN job.content \subseteq DOMAIN job'.content
         /\ "defs" \in DOMAIN job'.content /\ "uses" \in DOMAIN job'.content
         /\ \A c \in DOMAIN job.content : job'.content[c] = job.content[c]
         /\ job'.content["defs"].kind = "rel" /\ job'.content["uses"].kind = "rel"
         /\ job'.specs = job.specs /\ job'.dirs = job.dirs
<1> DEFINE new == [c \in DOMAIN job.content \cup {"defs", "uses"} |->
                     CASE c = "defs" -> Generated[1] [] c = "uses" -> Generated[2]
                       [] OTHER -> job.content[c]]
<1>1. job' = [job EXCEPT !.content = new]
  BY DEF Replaced, ReplaceIr, Fail
<1>2. IsJob(job) /\ "defs" \notin DOMAIN job.content /\ "uses" \notin DOMAIN job.content
  BY DEF Held, Going, Stored, Alive, Replaced
<1>3. /\ DOMAIN new = DOMAIN job.content \cup {"defs", "uses"}
      /\ new["defs"] = Generated[1] /\ new["uses"] = Generated[2]
      /\ \A c \in DOMAIN job.content : new[c] = job.content[c]
  BY <1>2
<1> HIDE DEF new
<1>4. \A c \in DOMAIN new : IsContent(new[c], DOMAIN new)
  <2>1. ASSUME NEW c \in DOMAIN job.content PROVE IsContent(new[c], DOMAIN new)
    <3>1. IsContent(job.content[c], DOMAIN job.content)
      BY <1>2 DEF IsJob
    <3> QED
      BY <3>1, <1>3 DEF IsContent
  <2> QED
    BY <2>1, <1>3, GeneratedContents DEF Replaced
<1>5. DOMAIN job' = JobFields /\ job'.content = new
      /\ \A x \in JobFields \ {"content"} : job'[x] = job[x]
  BY <1>1, <1>2 DEF IsJob, JobFields
<1>6. /\ job'.specs = job.specs /\ job'.ltoLibs = job.ltoLibs /\ job'.internal = job.internal
      /\ job'.libcalls = job.libcalls /\ job'.disk = job.disk /\ job'.rewritten = job.rewritten
      /\ job'.dirs = job.dirs
  BY <1>5 DEF JobFields
<1>7. IsJob(job')
  BY <1>2, <1>3, <1>4, <1>5, <1>6 DEF IsJob
<1> QED
  BY <1>3, <1>5, <1>6, <1>7, GeneratedContents DEF Replaced

LEMMA ReplacedStored ==
  ASSUME Held, Replaced
  PROVE  /\ Stored'
         /\ Len(table') = Len(table) + 2 /\ \A n \in DOMAIN table : table'[n] = table[n]
         /\ table'[Len(table) + 1].content = "defs" /\ table'[Len(table) + 2].content = "uses"
<1> DEFINE t == << [path |-> ObjectPath("1"), content |-> "defs"],
                   [path |-> ObjectPath("2"), content |-> "uses"] >>
<1>1. table' = table \o t /\ pass' = 2 /\ UNCHANGED <<disk, opened>>
  BY DEF Replaced, ReplaceIr, Fail
<1>2. IsSequence(t) /\ Len(t) = 2 /\ t[1].content = "defs" /\ t[2].content = "uses"
  <2>1. DOMAIN t = 1 .. 2 /\ t = [i \in DOMAIN t |-> t[i]]
        /\ t[1].content = "defs" /\ t[2].content = "uses"
    OBVIOUS
  <2> HIDE DEF t
  <2> QED
    BY <2>1, SequenceMade
<1> HIDE DEF t
<1>3. IsSequence(table) /\ DOMAIN table = 1 .. Len(table) /\ Len(table) \in Nat
  BY SequenceFacts DEF Held, Going, Stored
<1>4. /\ IsSequence(table \o t) /\ Len(table \o t) = Len(table) + 2
      /\ DOMAIN (table \o t) = 1 .. Len(table) + 2
      /\ \A i \in 1 .. Len(table) : (table \o t)[i] = table[i]
      /\ (table \o t)[Len(table) + 1] = t[1] /\ (table \o t)[Len(table) + 2] = t[2]
  <2>1. 1 \in 1 .. Len(t) /\ 2 \in 1 .. Len(t)
    BY <1>2
  <2>2. /\ IsSequence(table \o t) /\ Len(table \o t) = Len(table) + Len(t)
        /\ DOMAIN (table \o t) = 1 .. Len(table) + Len(t)
        /\ \A i \in 1 .. Len(table) : (table \o t)[i] = table[i]
        /\ \A i \in 1 .. Len(t) : (table \o t)[Len(table) + i] = t[i]
    <3>1. IsSequence(table) /\ IsSequence(t)
      BY <1>2, <1>3
    <3>2. /\ IsSequence(table \o t)
          /\ \A i \in 1 .. Len(table) : (table \o t)[i] = table[i]
          /\ \A i \in 1 .. Len(t) : (table \o t)[Len(table) + i] = t[i]
      BY <3>1, SequenceConcat
    <3>3. Len(table \o t) = Len(table) + Len(t)
      BY <3>1, SequenceConcat
    <3>4. DOMAIN (table \o t) = 1 .. Len(table) + Len(t)
      BY <3>2, <3>3, SequenceFacts
    <3> QED
      BY <3>2, <3>3, <3>4
  <2>3. (table \o t)[Len(table) + 1] = t[1] /\ (table \o t)[Len(table) + 2] = t[2]
    BY <2>1, <2>2
  <2> QED
    BY <1>2, <2>2, <2>3
<1>5. \A n \in DOMAIN table : table[n].content \in DOMAIN job.content
  BY DEF Held, Going, Stored
<1>6. \A n \in DOMAIN table' : table'[n].content \in DOMAIN job'.content
  <2>1. ASSUME NEW n \in 1 .. Len(table) + 2, n \notin 1 .. Len(table)
        PROVE  n = Len(table) + 1 \/ n = Len(table) + 2
    BY <2>1, <1>3
  <2> QED
    BY <1>1, <1>2, <1>3, <1>4, <1>5, <2>1, ReplacedJob
<1>7. \A p \in DOMAIN disk : disk[p] \in DOMAIN job'.content
  BY ReplacedJob DEF Held, Going, Stored
<1>8. \A i \in DOMAIN opened : OpenFailed(opened[i]) \/ opened[i] \in DOMAIN job'.content
  BY ReplacedJob DEF Held, Going, Stored
<1>9. Stored'
  BY <1>1, <1>4, <1>6, <1>7, <1>8, ReplacedJob DEF Stored, OpenFailed
<1> QED
  BY <1>1, <1>2, <1>3, <1>4, <1>9

LEMMA StoredSame ==
  ASSUME Stored, UNCHANGED <<job, disk, opened, table, pass>>
  PROVE  Stored'
BY DEF Stored, OpenFailed

LEMMA StoredStep ==
  ASSUME Held, Next, stage' # "failed"
  PROVE  Stored'
<1>0. Stored
  BY DEF Held, Going
<1>1. CASE Collect
  <2>1. UNCHANGED pass /\ CollectStep
    BY <1>1 DEF Collect, Unchanged2, ltoVars
  <2>2. CASE PushInputs
    BY <2>1, <2>2, PushInputsStored
  <2>3. CASE LoadNext \/ AddArchive
    BY <2>1, <2>3, TableStored
  <2>4. CASE \E i \in DOMAIN Specs : OpenInput(i)
    <3>1. PICK i \in DOMAIN Specs : OpenInput(i)
      BY <2>4
    <3>2. UNCHANGED <<job, disk, table>> /\ opened' = [opened EXCEPT ![i] = Opened(work[i].path)]
      BY <3>1 DEF OpenInput
    <3>3. \A j \in DOMAIN opened' : OpenFailed(opened'[j]) \/ opened'[j] \in DOMAIN job.content
      BY <1>0, <3>2, OpenedStored DEF Stored
    <3> QED
      BY <1>0, <2>1, <3>2, <3>3 DEF Stored, OpenFailed
  <2>5. CASE ~PushInputs /\ ~LoadNext /\ ~AddArchive /\ ~(\E i \in DOMAIN Specs : OpenInput(i))
    <3>1. UNCHANGED <<job, disk, opened, table>>
      BY <2>1, <2>5 DEF CollectStep, ResolveSpecs, NotLoaded,
        SkipIncompatible, AddObject, AddShared, AddScript, EndScript, AddOther, WalkDone,
        ReadIndex, FinishInputs, Stop, AddOne
    <3> QED
      BY <1>0, <2>1, <3>1, StoredSame
  <2> QED
    BY <2>2, <2>3, <2>4, <2>5
<1>2. CASE LtoStep
  <2>1. CASE ReplaceIr
    <3>1. Replaced
      BY <2>1 DEF Replaced, ReplaceIr, Fail
    <3> QED
      BY <3>1, ReplacedStored
  <2>2. CASE AddLtoLibrary \/ LoadRound
    <3>1. UNCHANGED pass
      BY <2>2 DEF AddLtoLibrary, LoadRound, Unchanged2, ltoVars
    <3> QED
      BY <2>2, <3>1, TableStored
  <2>3. CASE ~ReplaceIr /\ ~AddLtoLibrary /\ ~LoadRound
    <3>1. UNCHANGED <<job, disk, opened, table, pass>>
      BY <1>2, <2>3 DEF LtoStep, StartClaims, NamesDone, ClaimsDone, StartSession, StartPlugin,
        PluginLoadFailed, OfferFile, OfferToPlugin, EndOffer, TellPlugins, CompileIr,
        OfferObject, ObjectOffered, ObjectsOffered, PlanLibraries,
        LaterStageFails, BeginCleanUp, CleanUpPlugin, FinishLink,
        DropSession, SetStage, Fail, inputVars, Unchanged2, ltoVars
    <3> QED
      BY <1>0, <3>1, StoredSame
  <2> QED
    BY <2>1, <2>2, <2>3
<1>3. CASE Environment
  <2>1. UNCHANGED <<job, opened, table, pass>>
    BY <1>3 DEF Environment, Rewrite, CancelLink, Unchanged2, ltoVars
  <2>2. \A p \in DOMAIN disk' : disk'[p] \in DOMAIN job.content
    <3>1. CASE UNCHANGED disk
      BY <3>1, <1>0 DEF Stored
    <3>2. CASE ~UNCHANGED disk
      <4>1. PICK q \in DOMAIN job.rewritten : disk' = [disk EXCEPT ![q] = job.rewritten[q]]
        BY <1>3, <3>2 DEF Environment, Rewrite, CancelLink
      <4>2. job.rewritten[q] \in DOMAIN job.content
        BY <1>0 DEF Stored, IsJob
      <4> QED
        BY <4>1, <4>2, <1>0 DEF Stored
    <3> QED
      BY <3>1, <3>2
  <2> QED
    BY <1>0, <2>1, <2>2 DEF Stored, OpenFailed
<1>4. CASE Stutter
  BY <1>0, <1>4, StoredSame DEF Stutter, vars, inputVars, ltoVars
<1> QED
  BY <1>1, <1>2, <1>3, <1>4 DEF Next

-----------------------------------------------------------------------------
(***************************************************************************)
(* The work list                                                           *)
(***************************************************************************)
LEMMA ItemsMore ==
  ASSUME NEW w, NEW n \in Nat, NEW m \in Nat, n <= m, ItemsOK(w, n)
  PROVE  ItemsOK(w, m)
BY DEF ItemsOK, ItemOK

LEMMA ItemsConcat ==
  ASSUME NEW v, NEW w, NEW n, ItemsOK(v, n), ItemsOK(w, n)
  PROVE  ItemsOK(v \o w, n)
<1>1. IsSequence(v) /\ IsSequence(w)
  BY DEF ItemsOK
<1>2. /\ IsSequence(v \o w)
      /\ \A i \in 1 .. Len(v) : (v \o w)[i] = v[i]
      /\ \A i \in DOMAIN (v \o w) : i \notin 1 .. Len(v) =>
           i - Len(v) \in 1 .. Len(w) /\ (v \o w)[i] = w[i - Len(v)]
  BY <1>1, SequenceConcat
<1>3. DOMAIN v = 1 .. Len(v) /\ DOMAIN w = 1 .. Len(w)
  BY <1>1, SequenceFacts
<1>4. \A i \in DOMAIN (v \o w) : ItemOK((v \o w)[i], n)
  BY <1>2, <1>3 DEF ItemsOK
<1> QED
  BY <1>2, <1>4 DEF ItemsOK

LEMMA ItemsOne ==
  ASSUME NEW x, NEW n, ItemOK(x, n)
  PROVE  ItemsOK(<<x>>, n)
BY SequenceOne DEF ItemsOK

LEMMA ItemsTail ==
  ASSUME NEW w, NEW n, ItemsOK(w, n), w # <<>>
  PROVE  ItemsOK(Tail(w), n) /\ ItemOK(Head(w), n)
<1>1. /\ IsSequence(Tail(w)) /\ Head(w) = w[1] /\ 1 \in DOMAIN w
      /\ \A i \in DOMAIN Tail(w) : i + 1 \in DOMAIN w /\ Tail(w)[i] = w[i + 1]
  BY SequenceTail DEF ItemsOK
<1> QED
  BY <1>1 DEF ItemsOK

LEMMA ItemsMade ==
  ASSUME NEW s, IsSequence(s), NEW w, DOMAIN w = DOMAIN s, w = [i \in DOMAIN w |-> w[i]],
         NEW n, \A i \in DOMAIN s : ItemOK(w[i], n)
  PROVE  ItemsOK(w, n)
BY SequenceMapped DEF ItemsOK

(* A new item. *)
LEMMA ItemMade ==
  ASSUME NEW p, NEW id, NEW a, NEW s, NEW n, id \in -1 .. n
  PROVE  ItemOK(Item(p, id, a, s), n)
BY DEF ItemOK, Item, ItemFields

LEMMA IdRange ==
  ASSUME NEW m \in Nat
  PROVE  0 \in -1 .. m /\ Later \in -1 .. m /\ m \in -1 .. m
BY DEF Later

LEMMA ItemExcept ==
  ASSUME NEW x, NEW n, NEW m, NEW id \in -1 .. m, ItemOK(x, n), x.op = "add"
  PROVE  /\ ItemOK([x EXCEPT !.id = id], m)
         /\ \A p, k : ItemOK([x EXCEPT !.path = p, !.id = id, !.nth = k], m)
BY DEF ItemOK, ItemFields

LEMMA ScriptItemsOK ==
  ASSUME Held, Ready({"script"})
  PROVE  ItemsOK(ScriptItems(Content(C1), Next1.path), Len(table))
<1> DEFINE c == Content(C1)
           lists == [k \in DOMAIN c.commands |->
                       LET cmd == c.commands[k] IN
                       IF cmd.op \notin {"input", "lib"} THEN <<>>
                       ELSE [i \in DOMAIN cmd.list |-> ScriptItem(cmd.list[i], cmd.op = "lib", Next1.path)]]
<1>1. IsSequence(c.commands) /\ \A k \in DOMAIN c.commands : IsSequence(c.commands[k].list)
  BY NextFacts DEF Ready, IsContent
<1>2. ScriptItems(c, Next1.path) = FlattenSeq(lists)
  BY DEF ScriptItems
<1>3. DOMAIN lists = DOMAIN c.commands /\ lists = [k \in DOMAIN lists |-> lists[k]]
  OBVIOUS
<1>4. \A k \in DOMAIN lists : IsSequence(lists[k]) /\ \A i \in DOMAIN lists[k] : ItemOK(lists[k][i], Len(table))
  <2> SUFFICES ASSUME NEW k \in DOMAIN c.commands
               PROVE  IsSequence(lists[k]) /\ \A i \in DOMAIN lists[k] : ItemOK(lists[k][i], Len(table))
    OBVIOUS
  <2> DEFINE cmd == c.commands[k]
             made == [i \in DOMAIN cmd.list |-> ScriptItem(cmd.list[i], cmd.op = "lib", Next1.path)]
  <2>1. CASE cmd.op \notin {"input", "lib"}
    <3>1. lists[k] = <<>>
      BY <2>1
    <3> QED
      BY <3>1, SequenceEmpty
  <2>2. CASE cmd.op \in {"input", "lib"}
    <3>1. lists[k] = made
      BY <2>2
    <3>2. DOMAIN made = DOMAIN cmd.list /\ made = [i \in DOMAIN made |-> made[i]]
      OBVIOUS
    <3>3. \A i \in DOMAIN made : ItemOK(made[i], Len(table))
      <4>1. Later \in -1 .. Len(table)
        BY FileFacts DEF Later, Held
      <4>2. ASSUME NEW e, NEW lazy PROVE ItemOK(ScriptItem(e, lazy, Next1.path), Len(table))
        BY <4>1, ItemMade DEF ScriptItem
      <4> QED
        BY <4>2
    <3>4. IsSequence(made)
      <4> HIDE DEF made
      <4>1. IsSequence(cmd.list)
        BY <1>1
      <4> QED
        BY <3>2, <4>1, SequenceMapped
    <3> QED
      BY <3>1, <3>3, <3>4
  <2> QED
    BY <2>1, <2>2
<1> HIDE DEF lists
<1>5. IsSequence(lists)
  BY <1>1, <1>3, SequenceMapped
<1>6. /\ IsSequence(FlattenSeq(lists))
      /\ \A n \in DOMAIN FlattenSeq(lists) :
           \E i \in DOMAIN lists : \E j \in DOMAIN lists[i] : FlattenSeq(lists)[n] = lists[i][j]
  BY <1>4, <1>5, FlattenSequence
<1>7. \A n \in DOMAIN FlattenSeq(lists) : ItemOK(FlattenSeq(lists)[n], Len(table))
  BY <1>4, <1>6
<1> QED
  BY <1>2, <1>6, <1>7 DEF ItemsOK

LEMMA PushInputsWorking ==
  ASSUME Held, PushInputs
  PROVE  Working'
<1> DEFINE all == [i \in DOMAIN Specs |-> IF RepeatOf(i) = 0 THEN opened[i] ELSE RepeatedContent(i)]
           given == [i \in DOMAIN Specs |-> [path |-> work[i].path, content |-> all[i]]]
           good == {f \in ToSet(given) : ~OpenFailed(f.content)}
           ok(i) == {j \in 1 .. i : ~OpenFailed(all[j])}
           id(i) == IF OpenFailed(all[i]) THEN 0 ELSE Cardinality(ok(i))
<1>1. /\ stage = "open" /\ table' = Picked(given, good)
      /\ work' = [i \in DOMAIN Specs |-> [work[i] EXCEPT !.id = id(i)]]
  BY DEF PushInputs
<1>2. IsSequence(Specs) /\ DOMAIN work = DOMAIN Specs
  BY <1>1 DEF Held, Opens, Opening
<1>3. DOMAIN given = DOMAIN Specs /\ given = [i \in DOMAIN given |-> given[i]]
  OBVIOUS
<1>4. IsSequence(given)
  <2> HIDE DEF given
  <2> QED
    BY <1>2, <1>3, SequenceMapped
<1>5. DOMAIN Specs = 1 .. Len(Specs) /\ Len(Specs) \in Nat
  BY <1>2, SequenceFacts
<1> DEFINE G == {n \in DOMAIN given : given[n] \in good}
<1>6. Len(table') = Cardinality(G)
  <2> HIDE DEF given, good
  <2> QED
    BY <1>1, <1>4, PickedLength
<1>7. G = {n \in DOMAIN Specs : ~OpenFailed(all[n])}
  <2>1. \A n \in DOMAIN Specs : given[n] \in ToSet(given) /\ given[n].content = all[n]
    BY DEF ToSet
  <2> HIDE DEF given, all
  <2> QED
    BY <1>3, <2>1
<1>8. IsFiniteSet(G) /\ Cardinality(G) \in Nat
  <2>1. IsFiniteSet(DOMAIN Specs) /\ G \in SUBSET DOMAIN Specs
    BY <1>5, <1>7, FS_Interval
  <2> HIDE DEF G
  <2>2. IsFiniteSet(G)
    BY <2>1, FS_Subset
  <2> QED
    BY <2>2, FS_CardinalityType
<1> HIDE DEF given, good, all
<1>9. ASSUME NEW i \in DOMAIN Specs PROVE id(i) \in -1 .. Len(table')
  <2>1. ok(i) \in SUBSET G
    BY <1>5, <1>7
  <2> HIDE DEF G, ok
  <2>2. IsFiniteSet(ok(i)) /\ Cardinality(ok(i)) <= Cardinality(G)
    BY <1>8, <2>1, FS_Subset
  <2>3. Cardinality(ok(i)) \in Nat
    BY <2>2, FS_CardinalityType
  <2> QED
    BY <1>6, <1>8, <2>2, <2>3
<1>10. \A i \in DOMAIN Specs : ItemOK(work[i], Len(table))
  BY <1>1, <1>2 DEF Held, Working, ItemsOK
<1> HIDE DEF id
<1>11. ASSUME NEW i \in DOMAIN Specs PROVE ItemOK([work[i] EXCEPT !.id = id(i)], Len(table'))
  <2>1. "op" \in DOMAIN work[i] /\ (work[i].op = "add" => DOMAIN work[i] = ItemFields)
    BY <1>10 DEF ItemOK
  <2>2. ASSUME work[i].op # "add" PROVE ItemOK([work[i] EXCEPT !.id = id(i)], Len(table'))
    BY <2>1, <2>2 DEF ItemOK
  <2>3. ASSUME work[i].op = "add" PROVE ItemOK([work[i] EXCEPT !.id = id(i)], Len(table'))
    BY <2>1, <2>3, <1>9 DEF ItemOK, ItemFields
  <2> QED
    BY <2>2, <2>3
<1>12. DOMAIN work' = DOMAIN Specs /\ work' = [i \in DOMAIN work' |-> work'[i]]
       /\ \A i \in DOMAIN Specs : ItemOK(work'[i], Len(table'))
  BY <1>1, <1>11
<1> QED
  BY <1>2, <1>12, ItemsMade DEF Working

(* Later steps keep what the table holds. *)
LEMMA TableGrows ==
  ASSUME Held, Next, ~PushInputs
  PROVE  /\ Len(table) \in Nat /\ Len(table') \in Nat /\ Len(table) <= Len(table')
         /\ DOMAIN table = 1 .. Len(table)
         /\ \A n \in DOMAIN table : table'[n] = table[n]
<1>0. IsSequence(table) /\ Len(table) \in Nat /\ DOMAIN table = 1 .. Len(table)
  BY SequenceFacts DEF Held, Going, Stored
<1>1. ASSUME NEW t, IsSequence(t), table' = table \o t
      PROVE  Len(table') \in Nat /\ Len(table) <= Len(table')
             /\ \A n \in DOMAIN table : table'[n] = table[n]
  <2>1. Len(table \o t) = Len(table) + Len(t) /\ Len(t) \in Nat
        /\ \A i \in 1 .. Len(table) : (table \o t)[i] = table[i]
    BY <1>0, <1>1, SequenceConcat
  <2> QED
    BY <2>1, <1>0, <1>1
<1>2. ASSUME NEW x, table' = Append(table, x)
      PROVE  Len(table') \in Nat /\ Len(table) <= Len(table')
             /\ \A n \in DOMAIN table : table'[n] = table[n]
  <2>1. table' = table \o <<x>> /\ IsSequence(<<x>>)
    BY <1>0, <1>2, AppendConcat, SequenceOne
  <2> QED
    BY <2>1, <1>1
<1>3. CASE table' = table
  BY <1>0, <1>3
<1>4. CASE LoadNext /\ table' # table
  BY <1>0, <1>2, <1>4 DEF LoadNext, Stop
<1>5. CASE AddLtoLibrary /\ table' # table
  BY <1>0, <1>2, <1>5 DEF AddLtoLibrary
<1>6. CASE AddArchive /\ table' # table
  <2> DEFINE ms == Content(C1).members
             t == [i \in DOMAIN ms |-> [path |-> Next1.path, content |-> ms[i].content]]
  <2>1. table' = table \o t /\ Ready({"archive", "thin"})
    BY <1>6 DEF AddArchive, Stop
  <2>2. IsSequence(ms)
    BY <2>1, NextFacts DEF Ready, IsContent
  <2>3. DOMAIN t = DOMAIN ms /\ t = [i \in DOMAIN t |-> t[i]]
    OBVIOUS
  <2> HIDE DEF t
  <2>4. IsSequence(t)
    BY <2>2, <2>3, SequenceMapped
  <2> QED
    BY <1>0, <1>1, <2>1, <2>4
<1>7. CASE LoadRound /\ table' # table
  <2>1. stage' = "claiming"
    BY <1>7 DEF LoadRound, SetStage, Fail
  <2>2. PICK t : IsSequence(t) /\ table' = table \o t
    BY <1>7, <2>1, LoadRoundTable
  <2> QED
    BY <1>0, <1>1, <2>2
<1>8. CASE ReplaceIr /\ table' # table
  <2>1. Replaced
    BY <1>8 DEF Replaced, ReplaceIr, Fail
  <2> QED
    BY <1>0, <2>1, ReplacedStored
<1>9. table' = table \/ LoadNext \/ AddLtoLibrary \/ AddArchive \/ LoadRound \/ ReplaceIr
  <2>1. CASE Collect
    BY <2>1 DEF Collect, CollectStep, ResolveSpecs, OpenInput, NotLoaded,
        SkipIncompatible, AddObject, AddShared, AddScript, EndScript, AddOther, WalkDone,
        ReadIndex, FinishInputs, Stop, AddOne
  <2>2. CASE LtoStep
    BY <2>2 DEF LtoStep, StartClaims, NamesDone, ClaimsDone, StartSession, StartPlugin,
        PluginLoadFailed, OfferFile, OfferToPlugin, EndOffer, TellPlugins, CompileIr,
        OfferObject, ObjectOffered, ObjectsOffered, PlanLibraries,
        LaterStageFails, BeginCleanUp, CleanUpPlugin, FinishLink,
        DropSession, SetStage, Fail, inputVars
  <2>3. CASE Environment \/ Stutter
    BY <2>3 DEF Environment, Rewrite, CancelLink, Stutter, vars, inputVars
  <2> QED
    BY <2>1, <2>2, <2>3 DEF Next
<1> QED
  BY <1>3, <1>4, <1>5, <1>6, <1>7, <1>8, <1>9

LEMMA WorkingStep ==
  ASSUME Held, Next, stage' # "failed"
  PROVE  Working'
<1> SUFFICES ASSUME stage' \in {"open", "walk", "new input"} PROVE ItemsOK(work', Len(table'))
  BY DEF Working
<1>1. CASE PushInputs
  BY <1>1, PushInputsWorking DEF Working
<1> SUFFICES ASSUME ~PushInputs PROVE ItemsOK(work', Len(table'))
  BY <1>1
<1>2. Len(table) \in Nat /\ Len(table') \in Nat /\ Len(table) <= Len(table')
  BY TableGrows
<1>3. ASSUME stage \in {"open", "walk", "new input"}, UNCHANGED work
      PROVE  ItemsOK(work', Len(table'))
  <2>1. ItemsOK(work, Len(table))
    BY <1>3 DEF Held, Working
  <2> QED
    BY <1>2, <1>3, <2>1, ItemsMore
<1>4. ASSUME stage = "walk", work # <<>>, work' = Tail(work)
      PROVE  ItemsOK(work', Len(table'))
  <2>1. ItemsOK(Tail(work), Len(table))
    BY <1>4, ItemsTail DEF Held, Working
  <2> QED
    BY <1>2, <1>4, <2>1, ItemsMore
<1>5. ASSUME stage = "walk", work # <<>>, NEW x, ItemOK(x, Len(table')), work' = <<x>> \o Tail(work)
      PROVE  ItemsOK(work', Len(table'))
  <2>1. ItemsOK(Tail(work), Len(table))
    BY <1>5, ItemsTail DEF Held, Working
  <2>2. ItemsOK(Tail(work), Len(table'))
    BY <1>2, <2>1, ItemsMore
  <2>3. ItemsOK(<<x>>, Len(table'))
    BY <1>5, ItemsOne
  <2> QED
    BY <1>5, <2>2, <2>3, ItemsConcat
<1>6. CASE Collect
  <2>0. CollectStep
    BY <1>6 DEF Collect
  <2>1. CASE ResolveSpecs
    <3>1. work' = [i \in DOMAIN Specs |->
                     Item(ResolveSpec(Specs[i]), 0, Specs[i].attrs, SearchedOf(Specs[i]))]
      BY <2>1 DEF ResolveSpecs
    <3>2. IsSequence(Specs) /\ 0 \in -1 .. Len(table')
      BY <1>2, IdRange DEF Held, Opens
    <3>3. DOMAIN work' = DOMAIN Specs /\ work' = [i \in DOMAIN work' |-> work'[i]]
          /\ \A i \in DOMAIN Specs : ItemOK(work'[i], Len(table'))
      BY <3>1, <3>2, ItemMade
    <3> QED
      BY <3>2, <3>3, ItemsMade
  <2>2. CASE \E i \in DOMAIN Specs : OpenInput(i)
    BY <1>3, <2>2 DEF OpenInput
  <2>3. CASE LoadNext
    <3>1. /\ Adding /\ work' = <<[Next1 EXCEPT !.id = Len(table) + 1]>> \o Tail(work)
          /\ table' = Append(table, [path |-> Next1.path, content |-> Opened(Next1.path)])
      BY <2>3 DEF LoadNext, Stop
    <3>2. Len(table') = Len(table) + 1
      BY <3>1, SequenceAppend DEF Held, Going, Stored
    <3>3. ItemOK([Next1 EXCEPT !.id = Len(table) + 1], Len(table'))
      <4>1. Len(table) + 1 \in -1 .. Len(table')
        BY <1>2, <3>2, IdRange
      <4> QED
        BY <3>1, <4>1, NextFacts, ItemExcept DEF Adding
    <3> QED
      BY <3>1, <3>3, <1>5 DEF Adding
  <2>4. CASE SkipIncompatible
    <3>1. PICK p, n : /\ Adding /\ work' = <<[Next1 EXCEPT !.path = p, !.id = Later, !.nth = n]>> \o Tail(work)
      BY <2>4 DEF SkipIncompatible, Stop
    <3>2. ItemOK([Next1 EXCEPT !.path = p, !.id = Later, !.nth = n], Len(table'))
      <4>1. Later \in -1 .. Len(table')
        BY <1>2, IdRange
      <4> QED
        BY <3>1, <4>1, NextFacts, ItemExcept DEF Adding
    <3> QED
      BY <3>1, <3>2, <1>5 DEF Adding
  <2>5. CASE AddObject \/ AddShared \/ AddArchive \/ AddOther \/ EndScript
    <3>1. stage = "walk" /\ work # <<>> /\ work' = Tail(work)
      BY <2>5 DEF AddObject, AddShared, AddArchive, AddOther, EndScript, Stop, AddOne, Ready, Adding
    <3> QED
      BY <3>1, <1>4
  <2>6. CASE AddScript
    <3> DEFINE items == ScriptItems(Content(C1), Next1.path)
    <3>1. Ready({"script"}) /\ UNCHANGED table /\ work' = items \o <<LeaveScript>> \o Tail(work)
      BY <2>6 DEF AddScript, Stop
    <3>2. ItemsOK(items, Len(table))
      BY <3>1, ScriptItemsOK
    <3>3. ItemsOK(<<LeaveScript>>, Len(table))
      <4>1. ItemOK(LeaveScript, Len(table))
        BY DEF LeaveScript, ItemOK
      <4> QED
        BY <4>1, ItemsOne
    <3>4. ItemsOK(Tail(work), Len(table))
      BY <3>1, NextFacts DEF Ready
    <3> HIDE DEF items
    <3>5. ItemsOK(items \o <<LeaveScript>>, Len(table))
      BY <3>2, <3>3, ItemsConcat
    <3>6. ItemsOK((items \o <<LeaveScript>>) \o Tail(work), Len(table))
      BY <3>4, <3>5, ItemsConcat
    <3> QED
      BY <3>1, <3>6
  <2>7. CASE NotLoaded \/ WalkDone \/ (\E k \in DOMAIN walk.deferred : ReadIndex(k))
             \/ FinishInputs(IF pass = 1 THEN "claim" ELSE "round")
    <3>1. stage' \notin {"open", "walk", "new input"}
      BY <2>7 DEF NotLoaded, WalkDone, ReadIndex, FinishInputs, Stop
    <3> QED
      BY <3>1
  <2> QED
    BY <2>0, <2>1, <2>2, <2>3, <2>4, <2>5, <2>6, <2>7 DEF CollectStep
<1>7. CASE LtoStep
  <2>1. CASE ReplaceIr
    <3>1. work' = IF job.relocatable THEN <<>>
                  ELSE [i \in DOMAIN job.ltoLibs |-> LtoLibrary(job.ltoLibs[i])]
      BY <2>1 DEF ReplaceIr, Fail
    <3>2. CASE job.relocatable
      BY <3>1, <3>2, SequenceEmpty DEF ItemsOK
    <3>3. CASE ~job.relocatable
      <4>1. IsSequence(job.ltoLibs)
        BY DEF Held, Going, Stored, IsJob
      <4>2. \A x : ItemOK(LtoLibrary(x), Len(table'))
        BY DEF ItemOK, LtoLibrary
      <4>3. DOMAIN work' = DOMAIN job.ltoLibs /\ work' = [i \in DOMAIN work' |-> work'[i]]
            /\ \A i \in DOMAIN job.ltoLibs : ItemOK(work'[i], Len(table'))
        BY <3>1, <3>3, <4>2
      <4> QED
        BY <4>1, <4>3, ItemsMade
    <3> QED
      BY <3>2, <3>3
  <2>2. CASE AddLtoLibrary
    <3>0. stage = "walk" /\ work # <<>> /\ Next1.op = "lib"
      BY <2>2 DEF AddLtoLibrary
    <3>1. CASE work' = Tail(work)
      BY <3>0, <3>1, <1>4
    <3>2. CASE work' # Tail(work)
      <4>1. PICK p, c : /\ table' = Append(table, [path |-> p, content |-> c])
                        /\ work' = IF SearchedMismatch(c, walk.target)
                             THEN <<[Next1 EXCEPT !.nth = @ + 1]>> \o Tail(work)
                             ELSE <<Item(p, Len(table) + 1, AttrsAfterLto, NotSearched)>> \o Tail(work)
        BY <2>2, <3>2 DEF AddLtoLibrary
      <4>2. Len(table') = Len(table) + 1
        BY <4>1, SequenceAppend DEF Held, Going, Stored
      <4>3. CASE SearchedMismatch(c, walk.target)
        <5>1. ItemOK(Next1, Len(table))
          BY <3>0, ItemsTail DEF Held, Working, Next1
        <5>2. ItemOK([Next1 EXCEPT !.nth = @ + 1], Len(table'))
          BY <3>0, <5>1 DEF ItemOK
        <5> QED
          BY <3>0, <4>1, <4>3, <5>2, <1>5
      <4>4. CASE ~SearchedMismatch(c, walk.target)
        <5>1. Len(table) + 1 \in -1 .. Len(table')
          BY <1>2, <4>2, IdRange
        <5>2. ItemOK(Item(p, Len(table) + 1, AttrsAfterLto, NotSearched), Len(table'))
          BY <5>1, ItemMade
        <5> QED
          BY <3>0, <4>1, <4>4, <5>2, <1>5
      <4> QED
        BY <4>3, <4>4
    <3> QED
      BY <3>1, <3>2
  <2>3. CASE CompileIr \/ OfferObject \/ ObjectOffered \/ ObjectsOffered
    <3>1. stage \in {"open", "walk", "new input"} /\ UNCHANGED work
      BY <2>3 DEF CompileIr, OfferObject, ObjectOffered, ObjectsOffered, SetStage, Fail, inputVars
    <3> QED
      BY <3>1, <1>3
  <2>4. CASE ~(ReplaceIr \/ AddLtoLibrary \/ CompileIr \/ OfferObject \/ ObjectOffered \/ ObjectsOffered)
    <3>1. stage' \notin {"open", "walk", "new input"}
      BY <1>7, <2>4 DEF LtoStep, StartClaims, NamesDone, LoadRound, ClaimsDone, StartSession, StartPlugin,
        PluginLoadFailed, OfferFile, OfferToPlugin, EndOffer, TellPlugins, PlanLibraries,
        LaterStageFails, BeginCleanUp, CleanUpPlugin, FinishLink,
        DropSession, SetStage, Fail, inputVars, Offering
    <3> QED
      BY <3>1
  <2> QED
    BY <2>1, <2>2, <2>3, <2>4
<1>8. CASE Environment \/ Stutter
  BY <1>3, <1>8 DEF Environment, Rewrite, CancelLink, Stutter, vars, inputVars
<1> QED
  BY <1>6, <1>7, <1>8 DEF Next

-----------------------------------------------------------------------------
(***************************************************************************)
(* The deferred indexes                                                    *)
(***************************************************************************)
LEMMA DeferringSame ==
  ASSUME Deferring, UNCHANGED job, DOMAIN walk' = DOMAIN walk, walk'.deferred = walk.deferred,
         walk'.ordinal \in Nat, walk.ordinal <= walk'.ordinal,
         stage' = "resolve" => stage = "resolve"
  PROVE  Deferring'
<1>1. \A k \in DOMAIN walk.deferred : walk.deferred[k].at <= walk'.ordinal
  BY DEF Deferring
<1> QED
  BY <1>1 DEF Deferring, Content

LEMMA DeferringMore ==
  ASSUME Held, AddArchive
  PROVE  Deferring'
<1>0. Deferring
  BY DEF Held
<1> DEFINE n == walk.ordinal + 1
           d == [content |-> C1, first |-> Len(files), at |-> n]
<1>1. /\ UNCHANGED job /\ stage = "walk" /\ Ready({"archive", "thin"})
      /\ \/ UNCHANGED walk
         \/ \E t : walk' = [walk EXCEPT !.ordinal = @ + 1, !.target = t, !.deferred = walk.deferred]
         \/ \E t : walk' = [walk EXCEPT !.ordinal = @ + 1, !.target = t, !.deferred = Append(walk.deferred, d)]
      /\ stage' # "resolve"
  BY DEF AddArchive, Stop, Ready, Adding
<1>2. CASE UNCHANGED walk
  BY <1>0, <1>1, <1>2, DeferringSame DEF Deferring
<1>3. CASE \E t : walk' = [walk EXCEPT !.ordinal = @ + 1, !.target = t, !.deferred = walk.deferred]
  <2>1. DOMAIN walk' = DOMAIN walk /\ walk'.deferred = walk.deferred /\ walk'.ordinal = walk.ordinal + 1
    BY <1>0, <1>3 DEF Deferring, WalkFields
  <2>2. walk'.ordinal \in Nat /\ walk.ordinal <= walk'.ordinal
    BY <1>0, <2>1 DEF Deferring
  <2> QED
    BY <1>0, <1>1, <2>1, <2>2, DeferringSame
<1>4. CASE \E t : walk' = [walk EXCEPT !.ordinal = @ + 1, !.target = t, !.deferred = Append(walk.deferred, d)]
  <2> DEFINE D == walk.deferred
  <2>1. DOMAIN walk' = DOMAIN walk /\ walk'.deferred = Append(D, d) /\ walk'.ordinal = n
    BY <1>0, <1>4 DEF Deferring, WalkFields
  <2>2. /\ IsSequence(D) /\ n \in Nat /\ walk.ordinal \in Nat
        /\ \A k \in DOMAIN D : D[k].at \in Nat /\ D[k].at <= walk.ordinal
    BY <1>0 DEF Deferring
  <2>3. \A k \in DOMAIN D : D[k].at <= n
    BY <2>2
  <2>4. d.at = n /\ d.content = C1 /\ C1 \in DOMAIN job.content /\ Content(C1).kind \in {"archive", "thin"}
    BY <1>1, NextFacts DEF Ready
  <2> HIDE DEF d, D, n
  <2>5. /\ IsSequence(Append(D, d)) /\ DOMAIN Append(D, d) = 1 .. Len(D) + 1
        /\ Append(D, d)[Len(D) + 1] = d
        /\ \A i \in 1 .. Len(D) : Append(D, d)[i] = D[i]
    BY <2>2, SequenceAppend
  <2>6. DOMAIN D = 1 .. Len(D) /\ Len(D) \in Nat
    BY <2>2, SequenceFacts
  <2>7. \A i \in DOMAIN Append(D, d) : i \in DOMAIN D \/ i = Len(D) + 1
    BY <2>5, <2>6
  <2> DEFINE E == Append(D, d)
  <2>8. \A k \in DOMAIN E :
          /\ E[k].at \in Nat /\ E[k].at <= n
          /\ E[k].content \in DOMAIN job.content /\ Content(E[k].content).kind \in {"archive", "thin"}
    <3>1. \A k \in DOMAIN D : D[k].content \in DOMAIN job.content /\ Content(D[k].content).kind \in {"archive", "thin"}
      BY <1>0 DEF Deferring, D
    <3> QED
      BY <2>2, <2>3, <2>4, <2>5, <2>6, <2>7, <3>1
  <2>9. \A j, k \in DOMAIN E : j <= k => E[j].at <= E[k].at
    <3>1. \A j, k \in DOMAIN D : j <= k => D[j].at <= D[k].at
      BY <1>0 DEF Deferring, D
    <3>2. ASSUME NEW j \in DOMAIN E, NEW k \in DOMAIN E, j <= k PROVE E[j].at <= E[k].at
      <4>1. CASE k = Len(D) + 1
        BY <4>1, <2>4, <2>5, <2>8
      <4>2. CASE k # Len(D) + 1
        <5>1. k \in DOMAIN D /\ j \in DOMAIN D
          BY <4>2, <3>2, <2>5, <2>6, <2>7
        <5> QED
          BY <5>1, <3>1, <3>2, <2>5, <2>6
      <4> QED
        BY <4>1, <4>2
    <3> QED
      BY <3>2
  <2> HIDE DEF E
  <2>10. walk'.deferred = E
    BY <2>1 DEF E
  <2>11. IsSequence(E)
    BY <2>5 DEF E
  <2> QED
    BY <1>0, <1>1, <2>1, <2>2, <2>8, <2>9, <2>10, <2>11 DEF Deferring, Content
<1> QED
  BY <1>1, <1>2, <1>3, <1>4

LEMMA ReplacedDeferring ==
  ASSUME Held, Replaced
  PROVE  Deferring'
<1>1. walk' = [walk EXCEPT !.dirs = job.ltoDirs \o job.dirs, !.lto = "after", !.depth = 0,
                           !.deferred = <<>>, !.ordinal = files[Len(files)].position[1]]
      /\ stage' = "new input"
  BY DEF Replaced, ReplaceIr, Fail
<1>2. DOMAIN walk' = WalkFields /\ walk'.deferred = <<>> /\ walk'.ordinal = files[Len(files)].position[1]
  BY <1>1 DEF Held, Deferring, WalkFields
<1>3. files # <<>> /\ IsSequence(files)
  BY DEF Held, Going, Listed, Alive, Replaced
<1>4. Len(files) \in Ids
  BY <1>3, SequenceFacts DEF Ids
<1>5. files[Len(files)].position \in Nat \X Nat
  BY <1>4, FileFacts DEF FileOK, Held
<1>6. walk'.ordinal \in Nat
  BY <1>2, <1>5
<1> QED
  BY <1>1, <1>2, <1>6, SequenceEmpty DEF Deferring

LEMMA DeferringStep ==
  ASSUME Held, Next, stage' # "failed"
  PROVE  Deferring'
<1>0. Deferring /\ DOMAIN walk = WalkFields /\ walk.ordinal \in Nat
  BY DEF Held, Deferring
<1>1. ASSUME UNCHANGED <<job, walk>>, stage' = "resolve" => stage = "resolve" PROVE Deferring'
  BY <1>0, <1>1, DeferringSame
<1>2. ASSUME UNCHANGED job, stage' # "resolve", DOMAIN walk' = DOMAIN walk,
             walk'.deferred = walk.deferred, walk'.ordinal \in {walk.ordinal, walk.ordinal + 1}
      PROVE  Deferring'
  BY <1>0, <1>2, DeferringSame
<1>3. CASE Collect
  <2>1. CASE AddArchive
    BY <2>1, DeferringMore
  <2>2. CASE AddObject \/ AddOther
    <3>1. UNCHANGED job /\ stage' # "resolve"
          /\ (UNCHANGED walk \/ \E t : walk' = [walk EXCEPT !.ordinal = @ + 1, !.target = t])
      BY <2>2 DEF AddObject, AddOther, AddOne, Stop, Ready, Adding
    <3>2. DOMAIN walk' = DOMAIN walk /\ walk'.deferred = walk.deferred
          /\ walk'.ordinal \in {walk.ordinal, walk.ordinal + 1}
      BY <1>0, <3>1 DEF WalkFields
    <3> QED
      BY <3>1, <3>2, <1>2
  <2>3. CASE AddShared
    <3>1. UNCHANGED job /\ stage' # "resolve"
          /\ \/ UNCHANGED walk
             \/ \E t : walk' = [walk EXCEPT !.target = t]
             \/ \E t, s : walk' = [walk EXCEPT !.ordinal = @ + 1, !.target = t, !.sonames = s]
      BY <2>3 DEF AddShared, Stop, Ready, Adding
    <3>2. DOMAIN walk' = DOMAIN walk /\ walk'.deferred = walk.deferred
          /\ walk'.ordinal \in {walk.ordinal, walk.ordinal + 1}
      BY <1>0, <3>1 DEF WalkFields
    <3> QED
      BY <3>1, <3>2, <1>2
  <2>4. CASE AddScript \/ EndScript
    <3>1. UNCHANGED job /\ stage' # "resolve"
          /\ (UNCHANGED walk \/ \E d : walk' = [walk EXCEPT !.depth = d])
      BY <2>4 DEF AddScript, EndScript, Stop, Ready, Adding
    <3>2. DOMAIN walk' = DOMAIN walk /\ walk'.deferred = walk.deferred
          /\ walk'.ordinal \in {walk.ordinal, walk.ordinal + 1}
      BY <1>0, <3>1 DEF WalkFields
    <3> QED
      BY <3>1, <3>2, <1>2
  <2>5. CASE ~(AddArchive \/ AddObject \/ AddOther \/ AddShared \/ AddScript \/ EndScript)
    <3>1. UNCHANGED <<job, walk>> /\ stage' # "resolve"
      BY <1>3, <2>5 DEF Collect, CollectStep, ResolveSpecs, OpenInput, PushInputs, LoadNext, NotLoaded,
        SkipIncompatible, WalkDone, ReadIndex, FinishInputs, Stop, Adding
    <3> QED
      BY <3>1, <1>1
  <2> QED
    BY <2>1, <2>2, <2>3, <2>4, <2>5
<1>4. CASE LtoStep
  <2>1. CASE ReplaceIr
    <3>1. Replaced
      BY <2>1 DEF Replaced, ReplaceIr, Fail
    <3> QED
      BY <3>1, ReplacedDeferring
  <2>2. CASE ~ReplaceIr
    <3>1. UNCHANGED <<job, walk>> /\ stage' # "resolve"
      BY <1>4, <2>2 DEF LtoStep, StartClaims, NamesDone, LoadRound, ClaimsDone, StartSession, StartPlugin,
        PluginLoadFailed, OfferFile, OfferToPlugin, EndOffer, TellPlugins, CompileIr,
        OfferObject, ObjectOffered, ObjectsOffered, AddLtoLibrary, PlanLibraries,
        LaterStageFails, BeginCleanUp, CleanUpPlugin, FinishLink,
        DropSession, SetStage, Fail, inputVars, Offering
    <3> QED
      BY <3>1, <1>1
  <2> QED
    BY <2>1, <2>2
<1>5. CASE Environment \/ Stutter
  BY <1>1, <1>5 DEF Environment, Rewrite, CancelLink, Stutter, vars, inputVars
<1> QED
  BY <1>3, <1>4, <1>5 DEF Next

-----------------------------------------------------------------------------
(***************************************************************************)
(* The file list                                                           *)
(***************************************************************************)
LEMMA FileKept ==
  ASSUME NEW r, NEW tab, NEW con, FileOK(r, tab, con), NEW tab2, NEW con2,
         Len(tab) \in Nat, Len(tab2) \in Nat, Len(tab) <= Len(tab2), DOMAIN tab = 1 .. Len(tab),
         \A n \in DOMAIN tab : tab2[n] = tab[n],
         \A n \in DOMAIN tab : con2[tab[n].content] = con[tab[n].content]
  PROVE  FileOK(r, tab2, con2)
<1>1. r.id \in 0 .. Len(tab2)
  BY DEF FileOK
<1>2. r.object => r.role \in {"object", "member"} /\ r.thin = NoThin
  BY DEF FileOK
<1>3. r.object => r.id \in DOMAIN tab
  BY <1>2 DEF FileOK
<1>4. r.object => con2[tab2[r.id].content].kind # "dyn"
  BY <1>3 DEF FileOK
<1> QED
  BY <1>1, <1>4 DEF FileOK

LEMMA FilesKept ==
  ASSUME Held, Next, ~PushInputs, NEW f \in Ids
  PROVE  FileOK(files[f], table', job'.content)
<1>1. FileOK(files[f], table, job.content)
  BY FileFacts DEF Held
<1>2. /\ Len(table) \in Nat /\ Len(table') \in Nat /\ Len(table) <= Len(table')
      /\ DOMAIN table = 1 .. Len(table)
      /\ \A n \in DOMAIN table : table'[n] = table[n]
  BY TableGrows
<1>3. \A n \in DOMAIN table : table[n].content \in DOMAIN job.content
  BY DEF Held, Going, Stored
<1>4. UNCHANGED job \/ Replaced
  <2>1. CASE ReplaceIr
    BY <2>1 DEF ReplaceIr, Replaced, Fail
  <2>2. CASE ~ReplaceIr
    BY <2>2 DEF Next, Collect, CollectStep, ResolveSpecs, OpenInput, PushInputs, LoadNext, NotLoaded,
        SkipIncompatible, AddObject, AddShared, AddArchive, AddScript, EndScript, AddOther, WalkDone,
        ReadIndex, FinishInputs, LtoStep, StartClaims, NamesDone, LoadRound, ClaimsDone, StartSession,
        StartPlugin, PluginLoadFailed, OfferFile, OfferToPlugin, EndOffer, TellPlugins, CompileIr,
        OfferObject, ObjectOffered, ObjectsOffered, AddLtoLibrary, PlanLibraries,
        LaterStageFails, BeginCleanUp, CleanUpPlugin, FinishLink,
        DropSession, SetStage, Fail, inputVars, Environment, Rewrite, CancelLink, Stutter, vars
  <2> QED
    BY <2>1, <2>2
<1>5. \A n \in DOMAIN table : job'.content[table[n].content] = job.content[table[n].content]
  BY <1>3, <1>4, ReplacedJob
<1> QED
  BY <1>1, <1>2, <1>5, FileKept

(* The parts of Listed about the files themselves. *)
FilesOK ==
  /\ IsSequence(files') /\ \A f \in DOMAIN files' : FileOK(files'[f], table', job'.content)
  /\ pass' = 2 => \A f \in DOMAIN files' : files'[f].lto # "claim" /\ files'[f].ir = 0
  /\ files # <<>> => files' # <<>>
  /\ stage # "claiming" => \A f \in DOMAIN files' : files'[f].ir # 0 => f \in Ids /\ files[f].ir = files'[f].ir

LEMMA FilesAdded ==
  ASSUME Held, Next, ~PushInputs, UNCHANGED pass, NEW new, IsSequence(new), files' = files \o new,
         \A i \in DOMAIN new : /\ FileOK(new[i], table', job'.content)
                               /\ new[i].lto = walk.lto /\ new[i].ir = 0
  PROVE  FilesOK
<1>1. IsSequence(files) /\ DOMAIN files = 1 .. Len(files) /\ DOMAIN new = 1 .. Len(new) /\ Len(files) \in Nat
  BY SequenceFacts DEF Held, Going, Listed
<1>2. \A f \in DOMAIN files : FileOK(files[f], table', job'.content)
  BY FilesKept DEF Ids
<1>3. pass = 2 => walk.lto # "claim" /\ \A f \in DOMAIN files : files[f].lto # "claim" /\ files[f].ir = 0
  BY DEF Held, Going, Listed, Ids
<1>4. /\ IsSequence(files \o new)
      /\ \A i \in 1 .. Len(files) : (files \o new)[i] = files[i]
      /\ \A i \in DOMAIN (files \o new) : i \notin 1 .. Len(files) =>
              i - Len(files) \in 1 .. Len(new) /\ (files \o new)[i] = new[i - Len(files)]
  BY <1>1, SequenceConcat
<1>5. Len(files \o new) = Len(files) + Len(new) /\ Len(new) \in Nat
  BY <1>1, SequenceConcat
<1>6. files # <<>> => files' # <<>>
  BY <1>1, <1>4, <1>5, SequenceFacts
<1>7. \A f \in DOMAIN files' : FileOK(files'[f], table', job'.content)
  BY <1>1, <1>2, <1>4
<1>8. pass' = 2 => \A f \in DOMAIN files' : files'[f].lto # "claim" /\ files'[f].ir = 0
  BY <1>1, <1>3, <1>4
<1>9. \A f \in DOMAIN files' : files'[f].ir # 0 => f \in Ids /\ files[f].ir = files'[f].ir
  BY <1>1, <1>4 DEF Ids
<1> QED
  BY <1>4, <1>6, <1>7, <1>8, <1>9 DEF FilesOK

(* The same files, some of them with other fields. *)
LEMMA FilesChanged ==
  ASSUME Held, Next, ~PushInputs, UNCHANGED pass, DOMAIN files' = DOMAIN files,
         files' = [f \in DOMAIN files' |-> files'[f]],
         \A f \in Ids : \/ files'[f] = files[f]
                        \/ /\ FileOK(files'[f], table', job'.content)
                           /\ pass = 2 => files'[f].lto = files[f].lto /\ files'[f].ir = files[f].ir
                           /\ stage # "claiming" => files'[f].ir = files[f].ir
  PROVE  FilesOK
<1>1. IsSequence(files) /\ DOMAIN files = 1 .. Len(files) /\ Len(files) \in Nat
  BY SequenceFacts DEF Held, Going, Listed
<1>2. IsSequence(files') /\ Len(files') = Len(files)
  BY <1>1, SequenceMade
<1>3. \A f \in DOMAIN files : FileOK(files[f], table', job'.content)
  BY FilesKept DEF Ids
<1>4. pass = 2 => \A f \in DOMAIN files : files[f].lto # "claim" /\ files[f].ir = 0
  BY DEF Held, Going, Listed, Ids
<1>5. files # <<>> => files' # <<>>
  BY <1>1, <1>2, SequenceFacts
<1>6. \A f \in DOMAIN files' : FileOK(files'[f], table', job'.content)
  BY <1>3 DEF Ids
<1>7. pass' = 2 => \A f \in DOMAIN files' : files'[f].lto # "claim" /\ files'[f].ir = 0
  BY <1>4 DEF Ids
<1>8. stage # "claiming" => \A f \in DOMAIN files' : files'[f].ir # 0 => f \in Ids /\ files[f].ir = files'[f].ir
  BY DEF Ids
<1> QED
  BY <1>2, <1>5, <1>6, <1>7, <1>8 DEF FilesOK

LEMMA FilesSame ==
  ASSUME Held, Next, ~PushInputs, UNCHANGED <<files, pass>>
  PROVE  FilesOK
<1>1. IsSequence(files)
  BY DEF Held, Going, Listed
<1>2. files = [f \in DOMAIN files |-> files[f]]
  BY <1>1, SequenceFacts
<1> QED
  BY <1>2, FilesChanged

LEMMA DefinedSequence ==
  ASSUME NEW syms, IsSequence(syms)
  PROVE  IsSequence(DefinedBy(syms))
<1> DEFINE defs == Picked(syms, {e \in ToSet(syms) : IsDefinitionUse(e.use)})
           names == [i \in DOMAIN defs |-> defs[i].sym]
<1>1. IsSequence(defs)
  BY PickedElements
<1>2. DefinedBy(syms) = names
  BY DEF DefinedBy
<1>3. DOMAIN names = DOMAIN defs /\ names = [i \in DOMAIN names |-> names[i]]
  OBVIOUS
<1> HIDE DEF names, defs
<1> QED
  BY <1>1, <1>2, <1>3, SequenceMapped

LEMMA DefinedNamesSequence ==
  ASSUME Held, NEW c \in DOMAIN job.content
  PROVE  IsSequence(DefinedNames(c))
<1>1. IsContent(Content(c), DOMAIN job.content)
  BY DEF Held, Going, Stored, IsJob, Content
<1>2. IsSequence(Content(c).syms)
  BY <1>1, SequenceOf DEF IsContent
<1> QED
  BY <1>2, DefinedSequence DEF DefinedNames

(* What the walk adds for one input. *)
LEMMA FileAdded ==
  ASSUME Held, Next, ~PushInputs, UNCHANGED <<pass, table>>, Adding, Next1.id > 0,
         NEW r, files' = Append(files, r), DOMAIN r = FileFields,
         r.position = <<walk.ordinal + 1, 0>>, r.id = Next1.id, IsSequence(r.lazy), r.ir = 0,
         r.thin = NoThin, r.object = FALSE, r.lto = walk.lto,
         \/ r.role = "object"
         \/ r.role = "shared" /\ r.start
  PROVE  FilesOK
<1>1. walk.ordinal \in Nat
  BY DEF Held, Deferring
<1>2. r.position \in Nat \X Nat
  BY <1>1
<1>3. Next1.id \in -1 .. Len(table) /\ Len(table) \in Nat
  BY NextFacts, FileFacts DEF Held
<1>4. r.id \in 0 .. Len(table') /\ r.id # 0
  BY <1>3
<1>5. FileOK(r, table', job'.content)
  BY <1>2, <1>4 DEF FileOK
<1>6. files' = files \o <<r>>
  BY AppendConcat DEF Held, Going, Listed
<1>7. IsSequence(<<r>>) /\ DOMAIN <<r>> = 1 .. 1 /\ <<r>>[1] = r
  BY SequenceOne
<1>8. \A i \in DOMAIN <<r>> : /\ FileOK(<<r>>[i], table', job'.content)
                              /\ <<r>>[i].lto = walk.lto /\ <<r>>[i].ir = 0
  BY <1>5, <1>7
<1> QED
  BY <1>6, <1>7, <1>8, FilesAdded

LEMMA AddOneFiles ==
  ASSUME Held, Next, ~PushInputs, UNCHANGED pass, Adding, Next1.id > 0,
         NEW target, NEW start, NEW lazy, IsSequence(lazy), AddOne("object", target, start, lazy)
  PROVE  FilesOK
<1> DEFINE r == [Input(<<walk.ordinal + 1, 0>>, "object", Next1.id) EXCEPT !.start = start, !.lazy = lazy]
<1>1. files' = Append(files, r) /\ UNCHANGED table
  BY DEF AddOne
<1>2. /\ DOMAIN r = FileFields /\ r.position = <<walk.ordinal + 1, 0>> /\ r.id = Next1.id /\ r.lazy = lazy
      /\ r.ir = 0 /\ r.thin = NoThin /\ r.object = FALSE /\ r.lto = walk.lto /\ r.role = "object"
  BY DEF Input, FileFields
<1> HIDE DEF r
<1> QED
  BY <1>1, <1>2, FileAdded

LEMMA AddSharedFiles ==
  ASSUME Held, Next, ~PushInputs, UNCHANGED pass, AddShared
  PROVE  FilesOK
<1> DEFINE soname == Content(C1).soname
           r == [Input(<<walk.ordinal + 1, 0>>, "shared", Next1.id) EXCEPT
                   !.start = TRUE, !.soname = soname, !.asNeeded = Attrs.asNeeded]
<1>1. CASE UNCHANGED files
  BY <1>1, FilesSame
<1>2. CASE ~UNCHANGED files
  <2>1. files' = Append(files, r) /\ UNCHANGED table /\ Adding /\ Next1.id > 0
    BY <1>2 DEF AddShared, Stop, Ready
  <2>2. /\ DOMAIN r = FileFields /\ r.position = <<walk.ordinal + 1, 0>> /\ r.id = Next1.id /\ r.lazy = <<>>
        /\ r.ir = 0 /\ r.thin = NoThin /\ r.object = FALSE /\ r.lto = walk.lto /\ r.role = "shared"
        /\ r.start = TRUE
    BY DEF Input, FileFields
  <2> HIDE DEF r
  <2>3. IsSequence(r.lazy) /\ r.role = "shared" /\ r.start
    BY <2>2, SequenceEmpty
  <2> QED
    BY <2>1, <2>2, <2>3, FileAdded
<1> QED
  BY <1>1, <1>2

LEMMA AddObjectFiles ==
  ASSUME Held, Next, ~PushInputs, UNCHANGED pass, AddObject \/ AddOther
  PROVE  FilesOK
<1>1. CASE UNCHANGED files
  BY <1>1, FilesSame
<1>2. CASE AddObject /\ ~UNCHANGED files
  <2>1. Adding /\ Next1.id > 0
        /\ \E target, start, lazy : /\ AddOne("object", target, start, lazy)
                                    /\ lazy \in {DefinedNames(C1), <<>>}
    BY <1>2 DEF AddObject, Stop, Ready
  <2>2. IsSequence(DefinedNames(C1)) /\ IsSequence(<<>>)
    BY <2>1, NextFacts, DefinedNamesSequence, SequenceEmpty
  <2> QED
    BY <2>1, <2>2, AddOneFiles
<1>3. CASE AddOther /\ ~UNCHANGED files
  <2>1. Adding /\ Next1.id > 0
        /\ \E target, start : AddOne("object", target, start, <<>>)
    BY <1>3 DEF AddOther, Stop, Ready
  <2> QED
    BY <2>1, SequenceEmpty, AddOneFiles
<1> QED
  BY <1>1, <1>2, <1>3

LEMMA MemberFile ==
  ASSUME NEW f, NEW m, DOMAIN f = FileFields, IsSequence(f.lazy), f.role = "member",
         f.id # 0 => m \in DOMAIN job.content, Held
  PROVE  LET g == NamedFromItself(f, m) IN
         /\ DOMAIN g = FileFields /\ IsSequence(g.lazy)
         /\ \A x \in FileFields \ {"lazy", "needsClaim"} : g[x] = f[x]
<1>1. f.id # 0 => IsSequence(DefinedNames(m))
  BY DefinedNamesSequence
<1>2. CASE f.id = 0 \/ f.incompatible
  <2>1. NamedFromItself(f, m) = f
    BY <1>2 DEF NamedFromItself
  <2> QED
    BY <2>1
<1>3. CASE f.id # 0 /\ ~f.incompatible
  <2>1. \/ NamedFromItself(f, m) = f
        \/ \E b : NamedFromItself(f, m) = [f EXCEPT !.needsClaim = b]
        \/ NamedFromItself(f, m) = [f EXCEPT !.lazy = DefinedNames(m)]
    BY <1>3 DEF NamedFromItself
  <2> QED
    BY <1>1, <1>3, <2>1 DEF FileFields
<1> QED
  BY <1>2, <1>3

LEMMA MemberInputFacts ==
  ASSUME Held, Adding, Next1.id > 0, Content(C1).kind \in {"archive", "thin"}, NEW target,
         NEW i \in DOMAIN Content(C1).members
  PROVE  LET f == MemberInputs(C1, target, Len(table))[i] IN
         /\ DOMAIN f = FileFields /\ f.position = <<walk.ordinal + 1, i>> /\ f.lazy = <<>>
         /\ f.role = "member" /\ f.lto = walk.lto /\ f.ir = 0 /\ f.object = FALSE
         /\ IF Content(C1).kind = "thin" THEN f.id = 0 /\ f.thin # NoThin
            ELSE f.id = Len(table) + i /\ f.thin = NoThin
<1> DEFINE m == Content(C1).members[i]
           g == [Input(<<walk.ordinal + 1, i>>, "member", Len(table) + i) EXCEPT !.start = Attrs.whole]
           f == MemberInputs(C1, target, Len(table))[i]
<1>1. f = IF Content(C1).kind = "thin"
            THEN [g EXCEPT !.id = 0, !.thin = [path |-> m.path, target |-> target]]
            ELSE [g EXCEPT !.incompatible = Mismatch(m.content, target)]
  BY DEF MemberInputs
<1>2. /\ DOMAIN g = FileFields /\ g.position = <<walk.ordinal + 1, i>> /\ g.lazy = <<>>
      /\ g.role = "member" /\ g.lto = walk.lto /\ g.ir = 0 /\ g.object = FALSE
      /\ g.id = Len(table) + i /\ g.thin = NoThin
  BY DEF Input, FileFields
<1> HIDE DEF g
<1>3. CASE Content(C1).kind = "thin"
  <2>1. m.path # NoPath
    BY <1>3, NextFacts DEF IsContent
  <2>2. [path |-> m.path, target |-> target] # NoThin
    BY <2>1 DEF NoThin
  <2>3. f = [g EXCEPT !.id = 0, !.thin = [path |-> m.path, target |-> target]]
    BY <1>1, <1>3
  <2> HIDE DEF f
  <2>4. /\ DOMAIN f = FileFields /\ f.position = g.position /\ f.lazy = g.lazy
        /\ f.role = g.role /\ f.lto = g.lto /\ f.ir = g.ir /\ f.object = g.object
        /\ f.id = 0 /\ f.thin = [path |-> m.path, target |-> target]
    BY <1>2, <2>3 DEF FileFields
  <2> QED
    BY <1>2, <1>3, <2>2, <2>4 DEF f
<1>4. CASE Content(C1).kind # "thin"
  <2>3. f = [g EXCEPT !.incompatible = Mismatch(m.content, target)]
    BY <1>1, <1>4
  <2> HIDE DEF f
  <2>4. /\ DOMAIN f = FileFields /\ f.position = g.position /\ f.lazy = g.lazy
        /\ f.role = g.role /\ f.lto = g.lto /\ f.ir = g.ir /\ f.object = g.object
        /\ f.id = g.id /\ f.thin = g.thin
    BY <1>2, <2>3 DEF FileFields
  <2> QED
    BY <1>2, <1>4, <2>4 DEF f
<1> QED
  BY <1>3, <1>4

LEMMA AddArchiveFiles ==
  ASSUME Held, Next, ~PushInputs, UNCHANGED pass, AddArchive
  PROVE  FilesOK
<1>1. CASE UNCHANGED files
  BY <1>1, FilesSame
<1>2. CASE ~UNCHANGED files
  <2> DEFINE c == Content(C1)
             ms == c.members
             target == InferMembers(C1, walk.target)
             inputs == MemberInputs(C1, target, Len(table))
             named == IF Attrs.whole \/ c.indexed THEN inputs
                      ELSE [i \in DOMAIN inputs |-> NamedFromItself(inputs[i], c.members[i].content)]
             t == [i \in DOMAIN ms |-> [path |-> Next1.path, content |-> ms[i].content]]
  <2>1. /\ Adding /\ Next1.id > 0 /\ c.kind \in {"archive", "thin"} /\ files' = files \o named
        /\ table' = IF c.kind = "thin" THEN table ELSE table \o t
    BY <1>2 DEF AddArchive, Stop, Ready
  <2>2. IsSequence(ms) /\ \A i \in DOMAIN ms : ms[i].content \in DOMAIN job.content
    BY <2>1, NextFacts DEF IsContent
  <2>3. DOMAIN inputs = DOMAIN ms /\ inputs = [i \in DOMAIN inputs |-> inputs[i]]
    BY DEF MemberInputs
  <2>4. DOMAIN named = DOMAIN ms /\ named = [i \in DOMAIN named |-> named[i]]
    BY <2>3
  <2>5. IsSequence(named)
    <3> HIDE DEF named
    <3> QED
      BY <2>2, <2>4, SequenceMapped
  <2>6. Len(table) \in Nat /\ walk.ordinal \in Nat /\ DOMAIN ms = 1 .. Len(ms) /\ Len(ms) \in Nat
    BY <2>2, SequenceFacts, FileFacts DEF Held, Deferring
  <2>7. Len(table') = IF c.kind = "thin" THEN Len(table) ELSE Len(table) + Len(ms)
    <3>1. DOMAIN t = DOMAIN ms /\ t = [i \in DOMAIN t |-> t[i]]
      OBVIOUS
    <3> HIDE DEF t
    <3>2. IsSequence(t) /\ Len(t) = Len(ms)
      BY <2>2, <3>1, SequenceMapped
    <3>3. Len(table \o t) = Len(table) + Len(t)
      BY <3>2, SequenceConcat DEF Held, Going, Stored
    <3> QED
      BY <2>1, <3>2, <3>3
  <2>8. ASSUME NEW i \in DOMAIN ms
        PROVE  FileOK(named[i], table', job'.content) /\ named[i].lto = walk.lto /\ named[i].ir = 0
    <3> DEFINE f == inputs[i]
               g == named[i]
    <3>1. /\ DOMAIN f = FileFields /\ f.position = <<walk.ordinal + 1, i>> /\ f.lazy = <<>>
          /\ f.role = "member" /\ f.lto = walk.lto /\ f.ir = 0 /\ f.object = FALSE
          /\ IF c.kind = "thin" THEN f.id = 0 /\ f.thin # NoThin
             ELSE f.id = Len(table) + i /\ f.thin = NoThin
      BY <2>1, MemberInputFacts
    <3>2. g = f \/ g = NamedFromItself(f, ms[i].content)
      BY <2>3
    <3> HIDE DEF f, g
    <3>3. f.id \in 0 .. Len(table') /\ (f.thin = NoThin => f.id # 0) /\ f.position \in Nat \X Nat
      BY <3>1, <2>6, <2>7
    <3>4. /\ DOMAIN g = FileFields /\ IsSequence(g.lazy)
          /\ \A x \in FileFields \ {"lazy", "needsClaim"} : g[x] = f[x]
      <4>1. IsSequence(f.lazy)
        BY <3>1, SequenceEmpty
      <4> QED
        BY <3>1, <3>2, <4>1, <2>2, MemberFile
    <3>5. /\ g.position = f.position /\ g.role = f.role /\ g.id = f.id /\ g.thin = f.thin /\ g.lto = f.lto
          /\ g.ir = f.ir /\ g.object = f.object
      BY <3>4 DEF FileFields
    <3>6. FileOK(g, table', job'.content)
      BY <3>1, <3>3, <3>4, <3>5 DEF FileOK
    <3> QED
      BY <3>1, <3>5, <3>6 DEF g
  <2> HIDE DEF named
  <2> QED
    BY <2>1, <2>4, <2>5, <2>8, FilesAdded
<1> QED
  BY <1>1, <1>2

LEMMA FileRenamed ==
  ASSUME NEW f, NEW g, NEW tab, NEW con, FileOK(f, tab, con), DOMAIN g = FileFields, IsSequence(g.lazy),
         \A x \in FileFields \ {"lazy", "needsClaim"} : g[x] = f[x]
  PROVE  FileOK(g, tab, con) /\ g.lto = f.lto /\ g.ir = f.ir
<1>1. /\ g.position = f.position /\ g.role = f.role /\ g.id = f.id /\ g.start = f.start /\ g.thin = f.thin
      /\ g.lto = f.lto /\ g.object = f.object /\ g.ir = f.ir
  BY DEF FileFields
<1> QED
  BY <1>1 DEF FileOK

LEMMA IndexNamesSequence ==
  ASSUME Held, NEW c \in DOMAIN job.content, Content(c).kind \in {"archive", "thin"}, NEW i
  PROVE  IsSequence(IndexNames(c, i))
<1> DEFINE mine == Picked(Content(c).index,
                          {e \in ToSet(Content(c).index) : MemberAt(c, e.off) = {i}})
           names == [n \in DOMAIN mine |-> mine[n].name]
<1>1. IsSequence(Content(c).index)
  BY DEF Held, Going, Stored, IsJob, IsContent, Content
<1>2. IsSequence(mine)
  BY <1>1, PickedElements
<1>3. IndexNames(c, i) = names
  BY DEF IndexNames
<1>4. DOMAIN names = DOMAIN mine /\ names = [n \in DOMAIN names |-> names[n]]
  OBVIOUS
<1> HIDE DEF names, mine
<1> QED
  BY <1>2, <1>3, <1>4, SequenceMapped

LEMMA ReadIndexFiles ==
  ASSUME Held, Next, ~PushInputs, UNCHANGED pass, NEW k \in DOMAIN walk.deferred, ReadIndex(k)
  PROVE  FilesOK
<1>1. CASE UNCHANGED files
  BY <1>1, FilesSame
<1>2. CASE ~UNCHANGED files
  <2> DEFINE d == walk.deferred[k]
             ms == Content(d.content).members
             named(f, i) == [f EXCEPT !.lazy = IndexNames(d.content, i)]
             read(f, i) == LET g == named(f, i) IN
                           IF Undescribed(g, ms[i].content, walk.lto)
                             THEN [g EXCEPT !.needsClaim = TRUE, !.lazy = <<>>] ELSE g
  <2>1. /\ files' = [j \in DOMAIN files |-> IF j - SliceStart(k) \in DOMAIN ms
                                              THEN read(files[j], j - SliceStart(k)) ELSE files[j]]
        /\ UNCHANGED <<job, table>>
    BY <1>2 DEF ReadIndex
  <2>2. d.content \in DOMAIN job.content /\ Content(d.content).kind \in {"archive", "thin"}
    BY DEF Held, Deferring
  <2>3. ASSUME NEW j \in Ids, NEW i
        PROVE  LET g == read(files[j], i) IN FileOK(g, table', job'.content) /\ g.lto = files[j].lto /\ g.ir = files[j].ir
    <3> DEFINE g == read(files[j], i)
    <3>1. FileOK(files[j], table', job'.content)
      BY FilesKept
    <3>2. IsSequence(IndexNames(d.content, i)) /\ IsSequence(<<>>)
      BY <2>2, IndexNamesSequence, SequenceEmpty
    <3>3. /\ DOMAIN g = FileFields /\ g.lazy \in {IndexNames(d.content, i), <<>>}
          /\ \A x \in FileFields \ {"lazy", "needsClaim"} : g[x] = files[j][x]
      BY <3>1 DEF FileOK, FileFields
    <3> HIDE DEF g
    <3>4. IsSequence(g.lazy)
      BY <3>2, <3>3
    <3>5. FileOK(g, table', job'.content) /\ g.lto = files[j].lto /\ g.ir = files[j].ir
      BY <3>1, <3>3, <3>4, FileRenamed
    <3> QED
      BY <3>5 DEF g
  <2> HIDE DEF read
  <2>4. \A j \in Ids : files'[j] = files[j] \/ \E i : files'[j] = read(files[j], i)
    BY <2>1 DEF Ids
  <2>5. DOMAIN files' = DOMAIN files /\ files' = [f \in DOMAIN files' |-> files'[f]]
    BY <2>1
  <2>6. \A f \in Ids : \/ files'[f] = files[f]
                       \/ /\ FileOK(files'[f], table', job'.content)
                          /\ files'[f].lto = files[f].lto /\ files'[f].ir = files[f].ir
    BY <2>3, <2>4
  <2> QED
    BY <2>5, <2>6, FilesChanged
<1> QED
  BY <1>1, <1>2

LEMMA LoadRoundFiles ==
  ASSUME Held, Next, ~PushInputs, UNCHANGED pass, LoadRound
  PROVE  FilesOK
<1>1. CASE stage' # "claiming"
  BY <1>1, FilesSame DEF LoadRound, SetStage, Fail
<1>2. CASE stage' = "claiming"
  <2>1. /\ files' = [f \in Ids |-> IF f \in NextRound THEN LoadedFile(f) ELSE files[f]]
        /\ NextRound \subseteq Ids /\ (\A f \in NextRound : ~LoadFails(f)) /\ UNCHANGED job
    BY <1>2, LoadRoundTable
  <2>2. PICK t : /\ IsSequence(t) /\ Len(t) = Len(Thin(NextRound)) /\ table' = table \o t
                 /\ \A n \in DOMAIN t : /\ Thin(NextRound)[n] \in NextRound
                                        /\ t[n].content = LoadedContent(Thin(NextRound)[n])
    BY <1>2, LoadRoundTable
  <2>3. /\ Len(table) \in Nat /\ DOMAIN table = 1 .. Len(table) /\ Len(t) \in Nat /\ DOMAIN t = 1 .. Len(t)
        /\ IsSequence(table)
    BY <2>2, SequenceFacts DEF Held, Going, Stored
  <2>4. /\ \A i \in 1 .. Len(table) : (table \o t)[i] = table[i]
        /\ \A i \in 1 .. Len(t) : (table \o t)[Len(table) + i] = t[i]
    BY <2>2, <2>3, SequenceConcat
  <2>5. Len(table') = Len(table) + Len(t)
    BY <2>2, <2>3, SequenceConcat
  <2>6. ASSUME NEW f \in NextRound
        PROVE  /\ FileOK(LoadedFile(f), table', job'.content)
               /\ LoadedFile(f).lto = files[f].lto /\ LoadedFile(f).ir = files[f].ir
    <3> DEFINE before == {g \in Ids : g <= f /\ g \in NextRound}
               n == Len(Thin(before))
               id == IF files[f].thin = NoThin THEN files[f].id ELSE Len(table) + n
               object == /\ files[f].role \in {"object", "member"} /\ files[f].ir = 0
                         /\ (files[f].object \/ Content(LoadedContent(f)).kind = "rel")
               g == LoadedFile(f)
    <3>1. FileOK(files[f], table, job.content) /\ f \in Ids
      BY <2>1, FileFacts DEF Held
    <3>2. g = [files[f] EXCEPT !.id = id, !.thin = NoThin, !.object = object]
      BY DEF LoadedFile
    <3>3. DOMAIN files[f] = FileFields
      BY <3>1 DEF FileOK
    <3>4. ASSUME files[f].thin # NoThin PROVE n \in 1 .. Len(t)
      <4> DEFINE A == {x \in before : files[x].thin # NoThin}
                 B == {x \in NextRound : files[x].thin # NoThin}
      <4>1. n = Cardinality(A)
        BY ThinFacts
      <4>2. Len(t) = Cardinality(B)
        BY <2>1, <2>2, ThinFacts
      <4>3. A \subseteq B /\ f \in A
        BY <3>1, <3>4, FileFacts DEF Held
      <4>4. IsFiniteSet(B)
        <5>1. IsFiniteSet(Ids)
          <6>1. Ids = 1 .. Len(files) /\ Len(files) \in Nat
            BY FileFacts DEF Held
          <6> QED
            BY <6>1, FS_Interval
        <5>2. B \subseteq Ids
          BY <2>1
        <5> QED
          BY <5>1, <5>2, FS_Subset, Zenon
      <4> HIDE DEF A, B, n
      <4>5. Cardinality(A) <= Cardinality(B) /\ IsFiniteSet(A)
        BY <4>3, <4>4, FS_Subset
      <4>6. Cardinality(A) \in Nat /\ Cardinality(A) # 0
        BY <4>3, <4>5, FS_CardinalityType, FS_EmptySet
      <4> QED
        BY <4>1, <4>2, <4>5, <4>6, <2>3
    <3>5. id \in 0 .. Len(table') /\ (files[f].role \in {"shared", "object", "member"} => id # 0)
      <4>1. CASE files[f].thin = NoThin
        <5>1. id = files[f].id
          BY <4>1
        <5> HIDE DEF id
        <5> QED
          BY <4>1, <5>1, <3>1, <2>3, <2>5 DEF FileOK
      <4>2. CASE files[f].thin # NoThin
        <5>1. id = Len(table) + n /\ n \in 1 .. Len(t)
          BY <4>2, <3>4
        <5> HIDE DEF id, n
        <5> QED
          BY <5>1, <2>3, <2>5
      <4> QED
        BY <4>1, <4>2
    <3>6. object => Content(table'[id].content).kind # "dyn"
      <4>1. CASE files[f].thin # NoThin
        <5>1. id = Len(table) + n /\ n \in 1 .. Len(t)
          BY <4>1, <3>4
        <5> HIDE DEF id, n
        <5>2. table'[id] = t[n] /\ Thin(NextRound)[n] \in NextRound
              /\ t[n].content = LoadedContent(Thin(NextRound)[n])
          BY <5>1, <2>2, <2>3, <2>4
        <5> DEFINE h == Thin(NextRound)[n]
        <5>3. h \in Ids /\ ~LoadFails(h) /\ files[h].thin # NoThin
          <6>1. n \in DOMAIN Thin(NextRound)
            <7>1. IsSequence(Thin(NextRound))
              BY <2>1, ThinFacts
            <7> QED
              BY <5>1, <7>1, <2>2, SequenceFacts
          <6> QED
            BY <6>1, <2>1, ThinFacts
        <5> HIDE DEF h
        <5>4. files[h].role \in {"object", "member"} /\ ~files[h].object
          BY <5>3, LoadedFacts
        <5>5. Content(LoadedContent(h)).kind \in {"rel", "bitcode"}
          BY <5>3, <5>4 DEF LoadFails
        <5> QED
          BY <5>2, <5>5 DEF h
      <4>2. CASE files[f].thin = NoThin
        <5>1. id = files[f].id
          BY <4>2
        <5> SUFFICES ASSUME object PROVE Content(table'[id].content).kind # "dyn"
          OBVIOUS
        <5>2. id \in DOMAIN table /\ table'[id] = table[id]
          <6>1. files[f].id # 0
            BY <3>1, <4>2 DEF FileOK
          <6>2. files[f].id \in DOMAIN table
            BY <3>1, <6>1, FileFacts DEF Held
          <6> QED
            BY <5>1, <6>2, <2>2, <2>3, <2>4
        <5>3. CASE files[f].object
          BY <5>1, <5>2, <5>3, <3>1 DEF FileOK, Content
        <5>4. CASE ~files[f].object
          <6>1. Content(LoadedContent(f)).kind = "rel" /\ LoadedContent(f) = table[id].content
            BY <5>1, <5>4, <4>2 DEF LoadedContent, ContentOf
          <6> QED
            BY <5>2, <6>1
        <5> QED
          BY <5>3, <5>4
      <4> QED
        BY <4>1, <4>2
    <3>7. object => files[f].role \in {"object", "member"}
      OBVIOUS
    <3> HIDE DEF id, object, g
    <3>8. /\ DOMAIN g = FileFields /\ g.id = id /\ g.thin = NoThin /\ g.object = object
          /\ g.position = files[f].position /\ g.lazy = files[f].lazy /\ g.role = files[f].role
          /\ g.start = files[f].start /\ g.lto = files[f].lto /\ g.ir = files[f].ir
      BY <3>2, <3>3 DEF FileFields
    <3>9. job'.content[table'[id].content] = Content(table'[id].content)
      BY <2>1 DEF Content
    <3>10. FileOK(g, table', job'.content)
      BY <3>1, <3>5, <3>6, <3>7, <3>8, <3>9 DEF FileOK
    <3> QED
      BY <3>8, <3>10 DEF g
  <2>7. DOMAIN files' = DOMAIN files /\ files' = [f \in DOMAIN files' |-> files'[f]]
    BY <2>1 DEF Ids
  <2>8. \A f \in Ids : \/ files'[f] = files[f]
                       \/ /\ FileOK(files'[f], table', job'.content)
                          /\ files'[f].lto = files[f].lto /\ files'[f].ir = files[f].ir
    BY <2>1, <2>6
  <2> QED
    BY <2>7, <2>8, FilesChanged
<1> QED
  BY <1>1, <1>2

LEMMA OfferedFacts ==
  ASSUME Held, Offering
  PROVE  /\ Offered \in todo /\ (\A g \in todo : Offered <= g) /\ Offered \in Ids /\ pass = 1
         /\ files[Offered].id # 0 /\ ContentOf(Offered) \in DOMAIN job.content
         /\ stage = "claiming" => files[Offered].role \in {"object", "member"}
<1>1. todo # {} /\ todo \subseteq {f \in Ids : files[f].id # 0} /\ pass \in {1, 2}
  BY DEF Offering, Held, Going, Alive
<1>2. pass = 1
  BY <1>1 DEF Offering, Held, Going, Alive
<1>3. todo \in SUBSET Nat
  BY <1>1, FileFacts DEF Held
<1>4. \E f \in todo : \A g \in todo : f <= g
  BY <1>1, <1>3, LeastNat
<1>5. Offered \in todo /\ \A g \in todo : Offered <= g
  BY <1>4 DEF Offered
<1>6. Offered \in Ids /\ files[Offered].id # 0
  BY <1>1, <1>5
<1>7. ContentOf(Offered) \in DOMAIN job.content
  BY <1>6, FileFacts DEF Held
<1>8. stage = "claiming" => files[Offered].role \in {"object", "member"}
  BY <1>5 DEF Held, Going, Alive
<1> QED
  BY <1>2, <1>5, <1>6, <1>7, <1>8

(* The record that is open while a file is offered. *)
LEMMA CurrentFacts ==
  ASSUME Held, Offering, host.asking # 0
  PROVE  /\ OpenRecord /\ Current \in DOMAIN host.files /\ Current \in Nat
         /\ DOMAIN host.files = 1 .. Current /\ IsSequence(host.files)
         /\ DOMAIN host.files[Current] = RecordFields
         /\ AddedOK(host.files[Current].pending) /\ AddedOK(host.files[Current].symbols)
<1>1. OpenRecord
  BY OfferedFacts DEF Held, Going, Claiming, Offering
<1>2. IsSequence(host.files) /\ DOMAIN host.files = 1 .. Current /\ Current \in Nat
  BY SequenceFacts DEF Held, Going, Records, Current
<1>3. Current \in DOMAIN host.files
  BY <1>1, <1>2 DEF OpenRecord
<1> QED
  BY <1>1, <1>2, <1>3 DEF Held, Going, Records

LEMMA EndOfferFiles ==
  ASSUME Held, Next, ~PushInputs, UNCHANGED pass, EndOffer
  PROVE  FilesOK
<1>1. CASE UNCHANGED files
  BY <1>1, FilesSame
<1>2. CASE ~UNCHANGED files
  <2> DEFINE f == Offered
             c == ContentOf(f)
             k == Current
             syms == IF host.files[k].pending = <<>> THEN <<>> ELSE Head(host.files[k].pending).syms
             new == CASE Claimed(k) /\ stage = "claiming" ->
                           [files[f] EXCEPT !.ir = ClaimNumber(f), !.object = FALSE]
                      [] Claimed(k) /\ stage = "names" -> [files[f] EXCEPT !.lazy = DefinedBy(syms)]
                      [] ~Claimed(k) /\ stage = "names" /\ Content(c).kind = "rel" ->
                           [files[f] EXCEPT !.lazy = DefinedNames(c)]
                      [] OTHER -> files[f]
  <2>1. Offering /\ host.asking = host.plugins + 1 /\ host.plugins \in Nat
        /\ files' = [files EXCEPT ![f] = new] /\ UNCHANGED <<job, table>>
    BY <1>2 DEF EndOffer, Fail, Held, Going, Records
  <2>2. f \in Ids /\ pass = 1 /\ c \in DOMAIN job.content
        /\ (stage = "claiming" => files[f].role \in {"object", "member"})
    BY <2>1, OfferedFacts
  <2>3. FileOK(files[f], table', job'.content)
    BY <2>2, FilesKept
  <2>4. AddedOK(host.files[k].pending)
    BY <2>1, CurrentFacts
  <2>5. IsSequence(syms)
    <3>1. CASE host.files[k].pending = <<>>
      BY <3>1, SequenceEmpty
    <3>2. CASE host.files[k].pending # <<>>
      <4>1. syms = host.files[k].pending[1].syms /\ 1 \in DOMAIN host.files[k].pending
        BY <2>4, <3>2, SequenceTail DEF AddedOK
      <4>2. syms \in Seq(ObjectSymbol)
        BY <2>4, <4>1 DEF AddedOK
      <4> HIDE DEF syms
      <4> QED
        BY <4>2, SequenceOf
    <3> QED
      BY <3>1, <3>2
  <2>6. IsSequence(DefinedBy(syms)) /\ IsSequence(DefinedNames(c))
    BY <2>2, <2>5, DefinedSequence, DefinedNamesSequence
  <2>7. ClaimNumber(f) \in Nat
    <3>1. IsSequence(claims)
      BY DEF Held, Going, Claiming
    <3> QED
      BY <3>1, SequenceFacts DEF ClaimNumber
  <2>8. \/ new = files[f]
        \/ stage = "claiming" /\ new = [files[f] EXCEPT !.ir = ClaimNumber(f), !.object = FALSE]
        \/ \E lazy : IsSequence(lazy) /\ new = [files[f] EXCEPT !.lazy = lazy]
    BY <2>6
  <2> HIDE DEF new, f, c
  <2>9. FileOK(new, table', job'.content)
    <3>1. CASE new = files[f]
      BY <2>3, <3>1
    <3>2. CASE stage = "claiming" /\ new = [files[f] EXCEPT !.ir = ClaimNumber(f), !.object = FALSE]
      <4>1. /\ DOMAIN new = FileFields /\ new.ir = ClaimNumber(f) /\ new.object = FALSE
            /\ new.position = files[f].position /\ new.role = files[f].role /\ new.id = files[f].id
            /\ new.start = files[f].start /\ new.lazy = files[f].lazy /\ new.thin = files[f].thin
        BY <3>2, <2>3 DEF FileOK, FileFields
      <4> QED
        BY <2>2, <2>3, <2>7, <3>2, <4>1 DEF FileOK
    <3>3. CASE \E lazy : IsSequence(lazy) /\ new = [files[f] EXCEPT !.lazy = lazy]
      <4>1. /\ DOMAIN new = FileFields /\ IsSequence(new.lazy)
            /\ \A x \in FileFields \ {"lazy", "needsClaim"} : new[x] = files[f][x]
        BY <3>3, <2>3 DEF FileOK, FileFields
      <4> QED
        BY <4>1, <2>3, FileRenamed
    <3> QED
      BY <2>8, <3>1, <3>2, <3>3
  <2>10. DOMAIN files' = DOMAIN files /\ files' = [g \in DOMAIN files' |-> files'[g]]
         /\ \A g \in Ids : files'[g] = IF g = f THEN new ELSE files[g]
    BY <2>1, <2>2 DEF Ids
  <2>11. stage # "claiming" => new.ir = files[f].ir
    <3>1. DOMAIN files[f] = FileFields
      BY <2>3 DEF FileOK
    <3> QED
      BY <2>8, <3>1 DEF FileFields
  <2> QED
    BY <2>2, <2>9, <2>10, <2>11, FilesChanged
<1> QED
  BY <1>1, <1>2

LEMMA ReplacedFiles ==
  ASSUME Held, Next, Replaced
  PROVE  /\ IsSequence(files') /\ \A f \in DOMAIN files' : FileOK(files'[f], table', job'.content)
         /\ \A f \in DOMAIN files' : files'[f].lto # "claim" /\ files'[f].ir = 0
<1> DEFINE n == Len(table)
           ss == [f \in Ids |->
                IF files[f].ir = 0 THEN <<PreparedAfterLto(f)>>
                ELSE IF f = FirstIr THEN <<LtoObject(Len(table) + 1), LtoObject(Len(table) + 2)>>
                ELSE <<>>]
           ok(r) == FileOK(r, table', job'.content) /\ r.lto # "claim" /\ r.ir = 0
<1>1. files' = FlattenSeq(ss) /\ pass' = 2
  BY DEF Replaced, ReplaceIr, Fail
<1>2. IsSequence(files) /\ n \in Nat /\ DOMAIN files = Ids
  BY FileFacts DEF Held, Going, Listed, Ids
<1>3. ~PushInputs
  BY DEF Replaced, PushInputs
<1>4. ASSUME NEW f \in Ids, files[f].ir = 0 PROVE ok(PreparedAfterLto(f))
  <2> DEFINE g == PreparedAfterLto(f)
  <2>1. FileOK(files[f], table', job'.content)
    BY <1>3, FilesKept
  <2>2. /\ DOMAIN g = FileFields /\ g.lto = "after" /\ g.start = (files[f].start \/ f \in live)
        /\ g.position = files[f].position /\ g.role = files[f].role /\ g.id = files[f].id
        /\ g.lazy = files[f].lazy /\ g.thin = files[f].thin /\ g.object = files[f].object
        /\ g.ir = files[f].ir
    BY <2>1 DEF PreparedAfterLto, FileOK, FileFields
  <2> HIDE DEF g
  <2>3. FileOK(g, table', job'.content)
    BY <2>1, <2>2 DEF FileOK
  <2> QED
    BY <1>4, <2>2, <2>3 DEF g
<1>5. ASSUME NEW f \in Ids, f = FirstIr, NEW id \in {n + 1, n + 2} PROVE ok(LtoObject(id))
  <2> DEFINE g == LtoObject(id)
  <2>1. /\ DOMAIN g = FileFields /\ g.lto = "generated" /\ g.start = TRUE /\ g.position = files[f].position
        /\ g.role = "object" /\ g.id = id /\ g.lazy = <<>> /\ g.thin = NoThin /\ g.object = FALSE /\ g.ir = 0
    BY <1>5 DEF LtoObject, Input, FileFields
  <2>2. Len(table') = n + 2
    BY ReplacedStored
  <2>3. id \in 0 .. Len(table') /\ id # 0
    BY <1>2, <2>2
  <2>4. files[f].position \in Nat \X Nat
    BY FileFacts DEF FileOK, Held
  <2> HIDE DEF g
  <2>5. FileOK(g, table', job'.content)
    BY <2>1, <2>3, <2>4, SequenceEmpty DEF FileOK
  <2> QED
    BY <2>1, <2>5 DEF g
<1> HIDE DEF ok
<1>6. DOMAIN ss = Ids /\ ss = [f \in DOMAIN ss |-> ss[f]]
  OBVIOUS
<1>7. \A f \in DOMAIN ss : IsSequence(ss[f]) /\ \A j \in DOMAIN ss[f] : ok(ss[f][j])
  <2> SUFFICES ASSUME NEW f \in Ids PROVE IsSequence(ss[f]) /\ \A j \in DOMAIN ss[f] : ok(ss[f][j])
    OBVIOUS
  <2>1. CASE files[f].ir = 0
    <3>1. ss[f] = <<PreparedAfterLto(f)>>
      BY <2>1
    <3> QED
      BY <2>1, <3>1, <1>4, SequenceOne
  <2>2. CASE files[f].ir # 0 /\ f = FirstIr
    <3> DEFINE two == <<LtoObject(n + 1), LtoObject(n + 2)>>
    <3>1. ss[f] = two
      BY <2>2
    <3>2. DOMAIN two = 1 .. 2 /\ two[1] = LtoObject(n + 1) /\ two[2] = LtoObject(n + 2)
          /\ two = [i \in DOMAIN two |-> two[i]]
      OBVIOUS
    <3> HIDE DEF two
    <3>3. IsSequence(two)
      BY <3>2, SequenceMade
    <3>4. \A j \in DOMAIN two : j = 1 \/ j = 2
      BY <3>2
    <3>5. ok(LtoObject(n + 1)) /\ ok(LtoObject(n + 2))
      BY <2>2, <1>5
    <3> QED
      BY <3>1, <3>2, <3>3, <3>4, <3>5
  <2>3. CASE files[f].ir # 0 /\ f # FirstIr
    <3>1. ss[f] = <<>>
      BY <2>3
    <3> QED
      BY <3>1, SequenceEmpty
  <2> QED
    BY <2>1, <2>2, <2>3
<1> HIDE DEF ss
<1>8. IsSequence(ss)
  BY <1>2, <1>6, SequenceMapped
<1>9. /\ IsSequence(FlattenSeq(ss))
      /\ \A i \in DOMAIN FlattenSeq(ss) : \E f \in DOMAIN ss : \E j \in DOMAIN ss[f] : FlattenSeq(ss)[i] = ss[f][j]
  BY <1>7, <1>8, FlattenSequence
<1>10. \A i \in DOMAIN files' : ok(files'[i])
  BY <1>1, <1>7, <1>9
<1> QED
  BY <1>1, <1>9, <1>10 DEF ok

LEMMA PushInputsListed ==
  ASSUME Held, PushInputs, UNCHANGED pass
  PROVE  Listed'
<1> DEFINE r == InternalInput
<1>1. files' = <<r>> /\ pass = 1 /\ pass' = 1 /\ UNCHANGED job
  BY DEF PushInputs, Held, Going, Alive
<1>2. /\ DOMAIN r = FileFields /\ r.position = <<0, 0>> /\ r.role = "internal" /\ r.id = 0 /\ r.start = TRUE
      /\ r.lazy = <<>> /\ r.thin = NoThin /\ r.object = FALSE /\ r.ir = 0
  BY DEF InternalInput, Input, FileFields
<1> HIDE DEF r
<1>3. IsSequence(<<r>>) /\ Len(<<r>>) = 1 /\ DOMAIN <<r>> = 1 .. 1 /\ <<r>>[1] = r
  BY SequenceOne
<1>4. Len(table') \in Nat
  <2>1. Stored'
    BY PushInputsStored
  <2>2. IsSequence(table')
    BY <2>1 DEF Stored
  <2> QED
    BY <2>2, SequenceFacts
<1>5. FileOK(r, table', job'.content)
  BY <1>2, <1>4, SequenceEmpty DEF FileOK
<1>6. files' # <<>>
  BY <1>1, <1>3, SequenceFacts
<1>7. \A f \in DOMAIN files' : files'[f] = r
  BY <1>1, <1>3
<1> QED
  BY <1>1, <1>3, <1>5, <1>6, <1>7 DEF Listed, Ids

LEMMA FilesStep ==
  ASSUME Held, Next, stage' # "failed", ~PushInputs, ~ReplaceIr
  PROVE  FilesOK
<1>1. CASE Collect
  <2>0. UNCHANGED pass /\ CollectStep
    BY <1>1 DEF Collect, Unchanged2, ltoVars
  <2>1. CASE AddObject \/ AddOther
    BY <2>0, <2>1, AddObjectFiles
  <2>2. CASE AddShared
    BY <2>0, <2>2, AddSharedFiles
  <2>3. CASE AddArchive
    BY <2>0, <2>3, AddArchiveFiles
  <2>4. CASE \E k \in DOMAIN walk.deferred : ReadIndex(k)
    BY <2>0, <2>4, ReadIndexFiles
  <2>5. CASE UNCHANGED files
    BY <2>0, <2>5, FilesSame
  <2>6. \/ AddObject \/ AddOther \/ AddShared \/ AddArchive \/ UNCHANGED files
        \/ \E k \in DOMAIN walk.deferred : ReadIndex(k)
    BY <2>0 DEF CollectStep, ResolveSpecs, OpenInput, LoadNext, NotLoaded, SkipIncompatible,
      AddScript, EndScript, WalkDone, FinishInputs, Stop
  <2> QED
    BY <2>1, <2>2, <2>3, <2>4, <2>5, <2>6
<1>2. CASE LtoStep
  <2>0. UNCHANGED pass
    BY <1>2 DEF LtoStep, StartClaims, NamesDone, LoadRound, ClaimsDone, StartSession, StartPlugin,
      PluginLoadFailed, OfferFile, OfferToPlugin, EndOffer, TellPlugins, CompileIr,
      OfferObject, ObjectOffered, ObjectsOffered, AddLtoLibrary, PlanLibraries,
      LaterStageFails, BeginCleanUp, CleanUpPlugin, FinishLink,
      DropSession, Unchanged2, ltoVars
  <2>1. CASE LoadRound
    BY <2>0, <2>1, LoadRoundFiles
  <2>2. CASE EndOffer
    BY <2>0, <2>2, EndOfferFiles
  <2>3. CASE ~LoadRound /\ ~EndOffer
    <3>1. UNCHANGED files
      BY <1>2, <2>3 DEF LtoStep, StartClaims, NamesDone, ClaimsDone, StartSession, StartPlugin,
        PluginLoadFailed, OfferFile, OfferToPlugin, TellPlugins, CompileIr,
        OfferObject, ObjectOffered, ObjectsOffered, AddLtoLibrary, PlanLibraries,
        LaterStageFails, BeginCleanUp, CleanUpPlugin, FinishLink,
        DropSession, SetStage, Fail, inputVars
    <3> QED
      BY <2>0, <3>1, FilesSame
  <2> QED
    BY <2>1, <2>2, <2>3
<1>3. CASE Environment \/ Stutter
  <2>1. UNCHANGED <<files, pass>>
    BY <1>3 DEF Environment, Rewrite, CancelLink, Stutter, vars, inputVars, Unchanged2, ltoVars
  <2> QED
    BY <2>1, FilesSame
<1> QED
  BY <1>1, <1>2, <1>3 DEF Next

LEMMA ListedStep ==
  ASSUME Held, Next, stage' # "failed"
  PROVE  Listed'
<1>0. /\ IsSequence(files) /\ DOMAIN walk = WalkFields /\ pass \in {1, 2}
      /\ (stage \notin {"resolve", "open"} /\ pass = 1 => files # <<>>)
      /\ (pass = 2 => walk.lto # "claim")
  BY DEF Held, Going, Listed, Deferring, Alive
<1>1. CASE PushInputs
  <2>1. UNCHANGED pass
    BY <1>1 DEF PushInputs, Next, Collect, Unchanged2, ltoVars, LtoStep, StartClaims, NamesDone, LoadRound,
      ClaimsDone, StartSession, StartPlugin, PluginLoadFailed, OfferFile, OfferToPlugin, EndOffer,
      TellPlugins, CompileIr, ReplaceIr, OfferObject, ObjectOffered, ObjectsOffered, AddLtoLibrary,
      PlanLibraries,
      LaterStageFails, BeginCleanUp, CleanUpPlugin, FinishLink, DropSession, Environment, Stutter, vars
  <2> QED
    BY <1>1, <2>1, PushInputsListed
<1>2. CASE ReplaceIr
  <2>1. Replaced /\ pass' = 2
    BY <1>2 DEF Replaced, ReplaceIr, Fail
  <2>2. walk' = [walk EXCEPT !.dirs = job.ltoDirs \o job.dirs, !.lto = "after", !.depth = 0,
                   !.deferred = <<>>, !.ordinal = files[Len(files)].position[1]]
    BY <1>2 DEF ReplaceIr, Fail
  <2>3. walk'.lto = "after"
    BY <2>2, <1>0 DEF WalkFields
  <2> QED
    BY <2>1, <2>3, ReplacedFiles DEF Listed, Ids
<1>3. CASE ~PushInputs /\ ~ReplaceIr
  <2>1. FilesOK
    BY <1>3, FilesStep
  <2>2. UNCHANGED pass /\ (stage \notin {"resolve", "open"} \/ stage' \in {"resolve", "open"})
    BY <1>3 DEF Next, Collect, CollectStep, ResolveSpecs, OpenInput, LoadNext, NotLoaded, SkipIncompatible,
      AddObject, AddShared, AddArchive, AddScript, EndScript, AddOther, WalkDone, ReadIndex, FinishInputs,
      Stop, Ready, Adding, AddOne, LtoStep, StartClaims, NamesDone, LoadRound, ClaimsDone, StartSession, StartPlugin,
      PluginLoadFailed, OfferFile, OfferToPlugin, EndOffer, TellPlugins, CompileIr,
      OfferObject, ObjectOffered, ObjectsOffered, AddLtoLibrary, PlanLibraries,
      LaterStageFails, BeginCleanUp, CleanUpPlugin, FinishLink,
      DropSession, SetStage, Fail, inputVars, Offering, Unchanged2, ltoVars, Environment, Rewrite, CancelLink,
      Stutter, vars
  <2>3. walk'.lto = walk.lto
    <3>1. \/ UNCHANGED walk
          \/ \E o, t, d : walk' = [walk EXCEPT !.ordinal = o, !.target = t, !.deferred = d]
          \/ \E o, t, s : walk' = [walk EXCEPT !.ordinal = o, !.target = t, !.sonames = s]
          \/ \E o, t : walk' = [walk EXCEPT !.ordinal = o, !.target = t]
          \/ \E t : walk' = [walk EXCEPT !.target = t]
          \/ \E d : walk' = [walk EXCEPT !.depth = d]
      <4>1. CASE Collect
        BY <1>3, <4>1 DEF Collect, CollectStep, ResolveSpecs, OpenInput, LoadNext, NotLoaded, SkipIncompatible,
          AddObject, AddShared, AddArchive, AddScript, EndScript, AddOther, WalkDone, ReadIndex, FinishInputs,
          Stop, AddOne
      <4>2. CASE ~Collect
        BY <1>3, <4>2 DEF Next, LtoStep, StartClaims, NamesDone, LoadRound, ClaimsDone, StartSession, StartPlugin,
          PluginLoadFailed, OfferFile, OfferToPlugin, EndOffer, TellPlugins, CompileIr,
          OfferObject, ObjectOffered, ObjectsOffered, AddLtoLibrary, PlanLibraries,
          LaterStageFails, BeginCleanUp, CleanUpPlugin, FinishLink,
          DropSession, SetStage, Fail, inputVars, Environment, Rewrite, CancelLink, Stutter, vars
      <4> QED
        BY <4>1, <4>2
    <3> QED
      BY <3>1, <1>0 DEF WalkFields
  <2> QED
    BY <1>0, <2>1, <2>2, <2>3 DEF FilesOK, Listed, Ids
<1> QED
  BY <1>1, <1>2, <1>3

-----------------------------------------------------------------------------
(***************************************************************************)
(* What is live and what is to be offered                                  *)
(***************************************************************************)
LEMMA AliveSame ==
  ASSUME Alive, UNCHANGED <<live, pass>>,
         live = {} \/ UNCHANGED files,
         stage' \in {"resolve", "open", "claim", "names", "symbols"} => pass = 1,
         stage' = "new input" => pass = 2,
         stage' \in {"resolve", "open", "walk", "finish", "claim", "names", "new input"} => live = {},
         stage' \in {"names", "claiming"} =>
           /\ todo' \subseteq {f \in DOMAIN files' : files'[f].id # 0}
           /\ stage' = "claiming" =>
                /\ \A f \in todo' : files'[f].role \in {"object", "member"}
                /\ pass = 2 => todo' = {}
  PROVE  Alive'
<1>1. live' \subseteq Ids' /\ (live' # {} => \A f \in Ids' : files'[f].start => f \in live')
  BY DEF Alive, Ids
<1> QED
  BY <1>1 DEF Alive, Ids

LEMMA LoadRoundAlive ==
  ASSUME Held, LoadRound, stage' = "claiming", Listed'
  PROVE  Alive'
<1>1. /\ stage = "round" /\ NextRound \subseteq Ids /\ NextRound # {}
      /\ live' = live \cup NextRound
      /\ todo' = {f \in NextRound : files[f].lto = "claim" /\ PendingIr(f)}
      /\ files' = [f \in Ids |-> IF f \in NextRound THEN LoadedFile(f) ELSE files[f]]
      /\ UNCHANGED pass
  BY LoadRoundTable
<1>2. /\ live \subseteq Ids /\ pass \in {1, 2} /\ (live # {} => \A f \in Ids : files[f].start => f \in live)
      /\ \A f \in Ids : DOMAIN files[f] = FileFields
      /\ pass = 2 => \A f \in Ids : files[f].lto # "claim"
  BY DEF Held, Going, Alive, Listed, FileOK
<1>3. \A f \in Ids : files'[f].start = files[f].start /\ files'[f].role = files[f].role
                     /\ (f \in NextRound => files'[f].thin = NoThin)
  <2> SUFFICES ASSUME NEW f \in Ids
               PROVE  files'[f].start = files[f].start /\ files'[f].role = files[f].role
                      /\ (f \in NextRound => files'[f].thin = NoThin)
    OBVIOUS
  <2>1. CASE f \in NextRound
    <3>1. \E id, ob : LoadedFile(f) = [files[f] EXCEPT !.id = id, !.thin = NoThin, !.object = ob]
      BY DEF LoadedFile
    <3> QED
      BY <1>1, <1>2, <2>1, <3>1 DEF FileFields
  <2>2. CASE f \notin NextRound
    BY <1>1, <2>2
  <2> QED
    BY <2>1, <2>2
<1>4. Ids' = Ids
  BY <1>1 DEF Ids
<1>5. ASSUME NEW f \in Ids, files[f].start PROVE f \in live'
  <2>1. CASE live = {}
    BY <1>1, <1>5, <2>1 DEF NextRound
  <2>2. CASE live # {}
    BY <1>1, <1>2, <1>5, <2>2
  <2> QED
    BY <2>1, <2>2
<1>6. ASSUME NEW f \in todo' PROVE f \in Ids /\ files'[f].id # 0 /\ files'[f].role \in {"object", "member"}
  <2>1. f \in Ids /\ f \in NextRound /\ files[f].role \in {"object", "member"}
    BY <1>1, <1>6 DEF PendingIr
  <2>2. files'[f].role \in {"object", "member"} /\ files'[f].thin = NoThin
    BY <2>1, <1>3
  <2>3. FileOK(files'[f], table', job'.content)
    BY <2>1, <1>4 DEF Listed
  <2> QED
    BY <2>1, <2>2, <2>3 DEF FileOK
<1>7. pass = 2 => todo' = {}
  BY <1>1, <1>2
<1>8. live' \subseteq Ids /\ stage' = "claiming"
  BY <1>1, <1>2
<1>9. \A f \in Ids' : files'[f].start => f \in live'
  BY <1>3, <1>4, <1>5
<1> QED
  BY <1>1, <1>2, <1>4, <1>6, <1>7, <1>8, <1>9 DEF Alive

(* What the end of an offer leaves alone in the files. *)
LEMMA EndOfferKeeps ==
  ASSUME Held, EndOffer
  PROVE  /\ DOMAIN files' = DOMAIN files
         /\ \A f \in Ids : /\ files'[f].start = files[f].start /\ files'[f].role = files[f].role
                           /\ files'[f].id = files[f].id /\ files'[f].position = files[f].position
         /\ \A f \in Ids : f # Offered => files'[f] = files[f]
<1>1. CASE UNCHANGED files
  BY <1>1
<1>2. CASE ~UNCHANGED files
  <2>1. Offering
    BY DEF EndOffer
  <2>2. Offered \in Ids
    BY <2>1, OfferedFacts
  <2>3. \E x : /\ files' = [files EXCEPT ![Offered] = x]
               /\ \/ x = files[Offered]
                  \/ \E n : x = [files[Offered] EXCEPT !.ir = n, !.object = FALSE]
                  \/ \E n : x = [files[Offered] EXCEPT !.lazy = n]
    BY <1>2 DEF EndOffer, Fail
  <2>4. DOMAIN files[Offered] = FileFields
    BY <2>2 DEF Held, Going, Listed, FileOK
  <2>5. PICK x : /\ files' = [files EXCEPT ![Offered] = x]
                 /\ \/ x = files[Offered]
                    \/ \E n : x = [files[Offered] EXCEPT !.ir = n, !.object = FALSE]
                    \/ \E n : x = [files[Offered] EXCEPT !.lazy = n]
    BY <2>3
  <2>6. /\ x.start = files[Offered].start /\ x.role = files[Offered].role
        /\ x.id = files[Offered].id /\ x.position = files[Offered].position
    BY <2>4, <2>5 DEF FileFields
  <2>7. DOMAIN files' = DOMAIN files /\ \A f \in Ids : files'[f] = IF f = Offered THEN x ELSE files[f]
    BY <2>2, <2>5 DEF Ids
  <2> QED
    BY <2>2, <2>6, <2>7
<1> QED
  BY <1>1, <1>2

LEMMA EndOfferAlive ==
  ASSUME Held, EndOffer, stage' # "failed"
  PROVE  Alive'
<1>1. UNCHANGED <<live, pass, stage>> /\ todo' = todo \ {Offered} /\ Offering
  BY DEF EndOffer, Fail
<1>2. Alive
  BY DEF Held, Going
<1> QED
  BY <1>1, <1>2, EndOfferKeeps DEF Alive, Ids, Offering

LEMMA AliveStep ==
  ASSUME Held, Next, stage' # "failed", Listed'
  PROVE  Alive'
<1>0. Alive /\ pass \in {1, 2} /\ stage # "failed" /\ stage # "done"
  BY DEF Held, Going, Alive
<1>1. CASE Collect
  <2>0. UNCHANGED <<pass, live, todo>> /\ CollectStep
    BY <1>1 DEF Collect, Unchanged2, ltoVars
  <2>1. /\ stage \in {"resolve", "open", "walk", "finish"}
        /\ stage' \in {"open", "walk", "finish", "claim", "round"}
        /\ (stage' = "open" => stage \in {"resolve", "open"})
        /\ (stage' = "claim" => pass = 1)
    BY <2>0 DEF CollectStep, ResolveSpecs, OpenInput, PushInputs, LoadNext, NotLoaded, SkipIncompatible,
      AddObject, AddShared, AddArchive, AddScript, EndScript, AddOther, WalkDone, ReadIndex, FinishInputs,
      Stop, Ready, Adding, AddOne
  <2>2. live = {}
    BY <1>0, <2>1 DEF Alive
  <2>3. stage' = "open" => pass = 1
    BY <1>0, <2>1 DEF Alive
  <2> QED
    BY <1>0, <2>0, <2>1, <2>2, <2>3, AliveSame
<1>2. CASE LtoStep
  <2>1. CASE ReplaceIr
    <3>1. pass' = 2 /\ live' = {} /\ stage' = "new input"
      BY <2>1 DEF ReplaceIr, Fail
    <3> QED
      BY <3>1 DEF Alive
  <2>2. CASE EndOffer
    BY <2>2, EndOfferAlive
  <2>3. CASE LoadRound /\ stage' = "claiming"
    BY <2>3, LoadRoundAlive
  <2>4. CASE StartClaims
    <3>1. stage = "claim" /\ stage' = "names" /\ UNCHANGED <<live, pass, files>>
          /\ todo' = {f \in Ids : files[f].needsClaim /\ ~files[f].start /\ files[f].id # 0}
      BY <2>4 DEF StartClaims, SetStage
    <3>2. live = {} /\ pass = 1 /\ todo' \subseteq {f \in DOMAIN files' : files'[f].id # 0}
      BY <1>0, <3>1 DEF Alive, Ids
    <3> QED
      BY <1>0, <3>1, <3>2, AliveSame
  <2>5. CASE StartSession \/ StartPlugin \/ PluginLoadFailed \/ OfferFile \/ OfferToPlugin \/ CompileIr
             \/ OfferObject \/ ObjectOffered \/ LaterStageFails \/ BeginCleanUp \/ CleanUpPlugin
    <3>1. UNCHANGED <<live, pass, files, stage>> /\ (UNCHANGED todo \/ stage = "new input")
      BY <2>5 DEF StartSession, StartPlugin, PluginLoadFailed, OfferFile, OfferToPlugin, CompileIr,
        OfferObject, ObjectOffered, LaterStageFails, BeginCleanUp, CleanUpPlugin, Fail, inputVars,
        Unchanged2, ltoVars
    <3> QED
      BY <1>0, <3>1 DEF Alive, Ids
  <2>6. CASE (LoadRound /\ stage' # "claiming") \/ NamesDone \/ ClaimsDone \/ TellPlugins \/ ObjectsOffered
             \/ PlanLibraries \/ FinishLink \/ DropSession \/ AddLtoLibrary
    <3>1. /\ UNCHANGED <<live, pass, files>>
          /\ \/ stage' \in {"resolved", "round", "planned", "done"}
             \/ stage' = "symbols" /\ pass = 1
             \/ stage' = "walk" /\ stage \in {"new input", "walk"}
             \/ stage' = "finish" /\ stage = "walk"
      BY <1>0, <2>6 DEF LoadRound, NamesDone, ClaimsDone, TellPlugins, ObjectsOffered,
        PlanLibraries, FinishLink, DropSession, AddLtoLibrary, SetStage, Fail, Unchanged2, ltoVars
    <3>2. stage' \in {"walk", "finish"} => live = {}
      BY <1>0, <3>1 DEF Alive
    <3> QED
      BY <1>0, <3>1, <3>2, AliveSame
  <2> QED
    BY <1>2, <2>1, <2>2, <2>3, <2>4, <2>5, <2>6 DEF LtoStep
<1>3. CASE Environment \/ Stutter
  <2>1. UNCHANGED <<live, todo, files, pass, stage>>
    BY <1>3 DEF Environment, Rewrite, CancelLink, Stutter, vars, inputVars, Unchanged2, ltoVars
  <2> QED
    BY <1>0, <2>1 DEF Alive, Ids
<1> QED
  BY <1>1, <1>2, <1>3 DEF Next

-----------------------------------------------------------------------------
(***************************************************************************)
(* The claim records                                                       *)
(***************************************************************************)
RecordOK(r) ==
  /\ DOMAIN r = RecordFields /\ AddedOK(r.pending) /\ AddedOK(r.symbols)
  /\ r.claimedBy # 0 => \A i \in DOMAIN r.symbols : r.symbols[i].plugin = r.claimedBy

LEMMA RecordsAre ==
  ASSUME Records
  PROVE  /\ DOMAIN host = HostFields /\ host.plugins \in Nat /\ host.asking \in Nat
         /\ IsSequence(host.files) /\ \A k \in DOMAIN host.files : RecordOK(host.files[k])
BY DEF Records, RecordOK, SymbolsOfClaimer

LEMMA RecordsMade ==
  ASSUME NEW h, host' = h, DOMAIN h = HostFields, h.plugins \in Nat, h.asking \in Nat,
         IsSequence(h.files), \A k \in DOMAIN h.files : RecordOK(h.files[k])
  PROVE  Records'
BY DEF Records, RecordOK, SymbolsOfClaimer

(* A host with the same records. *)
LEMMA RecordsKept ==
  ASSUME Records, NEW h, host' = h, DOMAIN h = HostFields, h.plugins \in Nat, h.asking \in Nat,
         h.files = host.files
  PROVE  Records'
BY RecordsAre, RecordsMade

LEMMA MessageFacts ==
  ASSUME NEW h, DOMAIN h = HostFields, NEW b
  PROVE  /\ DOMAIN Messages(h, b) = HostFields
         /\ \A x \in HostFields \ {"errors", "failed"} : Messages(h, b)[x] = h[x]
BY DEF Messages, HostFields

LEMMA BeginRecords ==
  ASSUME NEW save, BeginSession(save)
  PROVE  /\ Records' /\ host'.active = TRUE /\ host'.files = <<>> /\ host'.asking = 0
         /\ host'.plugins = 0
<1> DEFINE h == [NoHost EXCEPT !.active = TRUE, !.phase = "loading", !.saveTemps = save]
<1>1. host' = h
  BY DEF BeginSession
<1>2. DOMAIN h = HostFields /\ h.plugins = 0 /\ h.asking = 0 /\ h.files = <<>> /\ h.active = TRUE
  BY DEF NoHost, HostFields
<1> HIDE DEF h
<1> QED
  BY <1>1, <1>2, SequenceEmpty, RecordsMade

LEMMA EndRecords ==
  ASSUME Records, EndSession
  PROVE  Records'
<1> DEFINE h == [NoHost EXCEPT !.failed = host.failed, !.plugins = host.plugins,
                   !.saveTemps = host.saveTemps, !.cleaners = host.cleaners]
<1>1. host' = h
  BY DEF EndSession
<1>2. DOMAIN h = HostFields /\ h.plugins = host.plugins /\ h.asking = 0 /\ h.files = <<>>
  BY DEF NoHost, HostFields
<1> HIDE DEF h
<1> QED
  BY <1>1, <1>2, SequenceEmpty, RecordsMade, RecordsAre

LEMMA LoadRecords ==
  ASSUME Records, NEW b, LoadPlugin(b)
  PROVE  /\ Records' /\ host'.files = host.files /\ host'.active = host.active
         /\ host'.asking = host.asking /\ host'.phase = host.phase
         /\ host'.plugins = host.plugins + 1 /\ host.phase = "loading"
<1> DEFINE m == Messages(host, b)
           h == [m EXCEPT !.plugins = @ + 1,
                   !.cleaners = IF b.cleans THEN @ \cup {host.plugins + 1} ELSE @]
<1>1. host' = h /\ host.phase = "loading"
  BY DEF LoadPlugin, MayLoad
<1>2. DOMAIN host = HostFields /\ host.plugins \in Nat /\ host.asking \in Nat
  BY RecordsAre
<1>3. DOMAIN m = HostFields /\ \A x \in HostFields \ {"errors", "failed"} : m[x] = host[x]
  BY <1>2, MessageFacts
<1> HIDE DEF m
<1>4. /\ DOMAIN h = HostFields /\ h.plugins = host.plugins + 1 /\ h.asking = host.asking
      /\ h.files = host.files /\ h.active = host.active /\ h.phase = host.phase
  BY <1>3 DEF HostFields
<1> HIDE DEF h
<1> QED
  BY <1>1, <1>2, <1>4, RecordsKept

LEMMA EndBegins ==
  ASSUME Records, BeginEnd
  PROVE  /\ Records' /\ host'.files = host.files /\ host'.active = host.active
         /\ host'.asking = host.asking /\ host'.plugins = host.plugins
<1> DEFINE h == [host EXCEPT !.phase = "finished", !.cleaning = 1]
<1>1. host' = h
  BY DEF BeginEnd
<1>2. DOMAIN host = HostFields /\ host.plugins \in Nat /\ host.asking \in Nat
  BY RecordsAre
<1>3. /\ DOMAIN h = HostFields /\ h.plugins = host.plugins /\ h.asking = host.asking
      /\ h.files = host.files /\ h.active = host.active
  BY <1>2 DEF HostFields
<1> HIDE DEF h
<1> QED
  BY <1>1, <1>2, <1>3, RecordsKept

LEMMA CleanUpRecords ==
  ASSUME Records, NEW b, CleanUp(b)
  PROVE  /\ Records' /\ host'.files = host.files /\ host'.active = host.active
         /\ host'.asking = host.asking /\ host'.plugins = host.plugins
<1>1. DOMAIN host = HostFields /\ host.plugins \in Nat /\ host.asking \in Nat
  BY RecordsAre
<1>2. \/ host' = [host EXCEPT !.cleaning = @ + 1]
      \/ \E e, x : host' = [host EXCEPT !.cleaning = @ + 1, !.errors = e, !.failed = x]
  BY DEF CleanUp
<1>3. /\ DOMAIN host' = HostFields /\ host'.plugins = host.plugins /\ host'.asking = host.asking
      /\ host'.files = host.files /\ host'.active = host.active
  BY <1>1, <1>2 DEF HostFields
<1> QED
  BY <1>1, <1>3, RecordsKept

LEMMA OpenRecords ==
  ASSUME Records, NEW f, OpenClaim(f)
  PROVE  /\ Records' /\ host'.files = Append(host.files, Record(f)) /\ host'.asking = 1
         /\ host'.active = host.active /\ host'.phase = "claiming" /\ host'.plugins = host.plugins
         /\ host.active
<1> DEFINE h == [host EXCEPT !.phase = "claiming", !.files = Append(@, Record(f)), !.asking = 1]
<1>1. host' = h /\ host.active
  BY DEF OpenClaim, Usable
<1>2. /\ DOMAIN host = HostFields /\ host.plugins \in Nat /\ IsSequence(host.files)
      /\ \A k \in DOMAIN host.files : RecordOK(host.files[k])
  BY RecordsAre
<1>3. /\ DOMAIN h = HostFields /\ h.plugins = host.plugins /\ h.asking = 1 /\ h.active = host.active
      /\ h.phase = "claiming" /\ h.files = Append(host.files, Record(f))
  BY <1>2 DEF HostFields
<1>4. RecordOK(Record(f))
  BY SequenceEmpty DEF RecordOK, Record, AddedOK, RecordFields
<1>5. /\ IsSequence(h.files) /\ DOMAIN h.files = 1 .. Len(host.files) + 1 /\ Len(host.files) \in Nat
      /\ h.files[Len(host.files) + 1] = Record(f)
      /\ \A i \in 1 .. Len(host.files) : h.files[i] = host.files[i]
      /\ DOMAIN host.files = 1 .. Len(host.files)
  BY <1>2, <1>3, SequenceAppend, SequenceFacts
<1> HIDE DEF h
<1>6. \A k \in DOMAIN h.files : RecordOK(h.files[k])
  BY <1>2, <1>4, <1>5
<1>7. h.plugins \in Nat /\ h.asking \in Nat /\ IsSequence(h.files)
  BY <1>2, <1>3, <1>5
<1>8. Records'
  BY <1>1, <1>3, <1>6, <1>7, RecordsMade
<1> QED
  BY <1>1, <1>3, <1>8

LEMMA HandlerRecords ==
  ASSUME Records, NEW b, RunHandler(b)
  PROVE  /\ Records' /\ host'.files = host.files /\ host'.active = host.active
         /\ host'.phase = host.phase /\ host'.asking # 0
<1> DEFINE m == Messages(host, b)
           h == [m EXCEPT !.asking = IF m.failed THEN host.plugins + 1 ELSE @ + 1]
<1>1. host' = h
  BY DEF RunHandler
<1>2. DOMAIN host = HostFields /\ host.plugins \in Nat /\ host.asking \in Nat
  BY RecordsAre
<1>3. DOMAIN m = HostFields /\ \A x \in HostFields \ {"errors", "failed"} : m[x] = host[x]
  BY <1>2, MessageFacts
<1> HIDE DEF m
<1>4. /\ DOMAIN h = HostFields /\ h.plugins = host.plugins
      /\ h.asking \in {host.plugins + 1, host.asking + 1}
      /\ h.files = host.files /\ h.active = host.active /\ h.phase = host.phase
  BY <1>3 DEF HostFields
<1> HIDE DEF h
<1>5. h.asking \in Nat /\ h.asking # 0
  BY <1>2, <1>4
<1> QED
  BY <1>1, <1>2, <1>4, <1>5, RecordsKept

LEMMA EndHandlersRecords ==
  ASSUME Records, EndHandlers
  PROVE  /\ Records' /\ host'.files = host.files /\ host'.active = host.active /\ host'.asking = 0
<1> DEFINE h == [host EXCEPT !.asking = 0, !.errors = 0]
<1>1. host' = h
  BY DEF EndHandlers
<1>2. DOMAIN host = HostFields /\ host.plugins \in Nat
  BY RecordsAre
<1>3. /\ DOMAIN h = HostFields /\ h.plugins = host.plugins /\ h.asking = 0 /\ h.files = host.files
      /\ h.active = host.active
  BY <1>2 DEF HostFields
<1> HIDE DEF h
<1> QED
  BY <1>1, <1>2, <1>3, RecordsKept

(* The record that is open changes, and the host around it. *)
LEMMA CurrentChanged ==
  ASSUME Held, Offering, host.asking # 0, NEW h, host' = h, DOMAIN h = HostFields, h.plugins \in Nat,
         h.asking \in Nat, NEW r, RecordOK(r), h.files = [host.files EXCEPT ![Current] = r]
  PROVE  /\ Records' /\ Current' = Current /\ host'.files[Current] = r
         /\ DOMAIN host'.files = DOMAIN host.files
         /\ \A k \in DOMAIN host.files : k # Current => host'.files[k] = host.files[k]
<1>1. /\ IsSequence(host.files) /\ Current \in DOMAIN host.files
      /\ \A k \in DOMAIN host.files : RecordOK(host.files[k])
  BY CurrentFacts, RecordsAre DEF Held, Going
<1> DEFINE g == [host.files EXCEPT ![Current] = r]
<1>2. /\ IsSequence(g) /\ DOMAIN g = DOMAIN host.files /\ Len(g) = Len(host.files) /\ g[Current] = r
      /\ \A k \in DOMAIN host.files : k # Current => g[k] = host.files[k]
  BY <1>1, SequenceExcept
<1> HIDE DEF g
<1>3. h.files = g /\ host'.files = g
  BY DEF g
<1>4. \A k \in DOMAIN h.files : RecordOK(h.files[k])
  BY <1>1, <1>2, <1>3
<1>5. Records'
  BY <1>2, <1>3, <1>4, RecordsMade
<1>6. Current' = Current
  BY <1>2, <1>3 DEF Current
<1> QED
  BY <1>2, <1>3, <1>5, <1>6

LEMMA AskRecords ==
  ASSUME Held, Offering, NEW b, NEW given \in Seq(ObjectSymbol), AskPlugin(b, given)
  PROVE  /\ Records' /\ Current' = Current /\ DOMAIN host'.files = DOMAIN host.files
         /\ \A k \in DOMAIN host.files : k # Current => host'.files[k] = host.files[k]
         /\ host'.active = host.active /\ host'.phase = host.phase
         /\ LET r == host'.files[Current] IN
            /\ r.handle = host.files[Current].handle /\ r.symbols = host.files[Current].symbols
            /\ r.resolution = host.files[Current].resolution
            /\ host'.asking \in 1 .. host'.plugins => r.pending = <<>> /\ r.claimedBy = 0
            /\ r.claimedBy # 0 => \A i \in DOMAIN r.pending : r.pending[i].plugin = r.claimedBy
<1> DEFINE p == host.asking
           h == Messages(host, b)
           old == host.files[Current]
           more == IF b.adds THEN old.pending \o <<[plugin |-> p, syms |-> given]>> ELSE old.pending
           added == [old EXCEPT !.pending = more]
           new == CASE h.failed              -> added
                    [] ~h.failed /\ b.claims -> [added EXCEPT !.claimedBy = p]
                    [] OTHER                 -> Declined(added)
           asking == AskedNext(h, b)
           h2 == [h EXCEPT !.asking = asking, !.files[Current] = new]
<1>1. host' = h2 /\ p \in 1 .. host.plugins
  BY DEF AskPlugin
<1>2. /\ DOMAIN host = HostFields /\ host.plugins \in Nat /\ p \in Nat /\ p # 0
  BY <1>1, RecordsAre DEF Held, Going
<1>3. DOMAIN h = HostFields /\ \A x \in HostFields \ {"errors", "failed"} : h[x] = host[x]
  BY <1>2, MessageFacts
<1>4. /\ OpenRecord /\ DOMAIN old = RecordFields
  BY <1>2, CurrentFacts
<1>5. old.pending = <<>> /\ old.claimedBy = 0 /\ old.symbols = <<>>
  BY <1>1, <1>4 DEF OpenRecord
<1>6. AddedOK(more) /\ \A i \in DOMAIN more : more[i].plugin = p
  <2> DEFINE x == [plugin |-> p, syms |-> given]
  <2>1. x.plugin = p /\ x.syms = given
    OBVIOUS
  <2> HIDE DEF x
  <2>2. CASE b.adds
    <3>1. more = <<x>>
      <4>1. <<>> \o <<x>> = <<x>>
        OBVIOUS
      <4> QED
        BY <1>5, <2>2, <4>1 DEF x
    <3>2. IsSequence(<<x>>) /\ DOMAIN <<x>> = 1 .. 1 /\ <<x>>[1] = x
      BY SequenceOne
    <3> HIDE DEF more
    <3> QED
      BY <2>1, <3>1, <3>2 DEF AddedOK
  <2>3. CASE ~b.adds
    <3>1. more = <<>>
      BY <1>5, <2>3
    <3> HIDE DEF more
    <3> QED
      BY <3>1, SequenceEmpty DEF AddedOK
  <2> QED
    BY <2>2, <2>3
<1> HIDE DEF h, more
<1>7. /\ DOMAIN added = RecordFields /\ added.pending = more /\ added.claimedBy = 0 /\ added.symbols = <<>>
      /\ added.handle = old.handle /\ added.resolution = old.resolution
  BY <1>4, <1>5 DEF RecordFields
<1> HIDE DEF added
<1>8. /\ DOMAIN new = RecordFields /\ new.handle = old.handle /\ new.symbols = <<>>
      /\ new.resolution = old.resolution
      /\ \/ h.failed /\ new.pending = more /\ new.claimedBy = 0
         \/ ~h.failed /\ b.claims /\ new.pending = more /\ new.claimedBy = p
         \/ ~h.failed /\ ~b.claims /\ new.pending = <<>> /\ new.claimedBy = 0
  <2>1. CASE h.failed
    BY <2>1, <1>7
  <2>2. CASE ~h.failed /\ b.claims
    BY <2>2, <1>7 DEF RecordFields
  <2>3. CASE ~h.failed /\ ~b.claims
    BY <2>3, <1>7 DEF RecordFields, Declined
  <2> QED
    BY <2>1, <2>2, <2>3
<1>9. asking = (IF h.failed \/ b.claims THEN host.plugins + 1 ELSE p + 1) /\ asking \in Nat
  BY <1>2, <1>3 DEF AskedNext, HostFields
<1>10. /\ DOMAIN h2 = HostFields /\ h2.asking = asking /\ h2.plugins = host.plugins
       /\ h2.active = host.active /\ h2.phase = host.phase
       /\ h2.files = [host.files EXCEPT ![Current] = new]
  BY <1>3 DEF HostFields
<1>11. RecordOK(new)
  BY <1>6, <1>8, SequenceEmpty DEF RecordOK, AddedOK
<1> HIDE DEF h2, new, asking
<1>12. /\ Records' /\ Current' = Current /\ host'.files[Current] = new
       /\ DOMAIN host'.files = DOMAIN host.files
       /\ \A k \in DOMAIN host.files : k # Current => host'.files[k] = host.files[k]
  BY <1>1, <1>2, <1>9, <1>10, <1>11, CurrentChanged
<1>13. host'.asking \in 1 .. host'.plugins => new.pending = <<>> /\ new.claimedBy = 0
  <2>1. h.failed \/ b.claims => host'.asking \notin 1 .. host'.plugins
    BY <1>1, <1>2, <1>9, <1>10
  <2> QED
    BY <1>8, <2>1
<1>14. new.claimedBy # 0 => \A i \in DOMAIN new.pending : new.pending[i].plugin = new.claimedBy
  BY <1>6, <1>8
<1> QED
  BY <1>1, <1>5, <1>8, <1>10, <1>12, <1>13, <1>14

LEMMA CloseRecords ==
  ASSUME Held, Offering, CloseClaim
  PROVE  /\ Records' /\ Current' = Current /\ DOMAIN host'.files = DOMAIN host.files
         /\ \A k \in DOMAIN host.files : k # Current => host'.files[k] = host.files[k]
         /\ host'.active = host.active /\ host'.asking = 0
         /\ host'.files[Current].handle = host.files[Current].handle
         /\ host'.files[Current].resolution = host.files[Current].resolution
<1> DEFINE old == host.files[Current]
           new == [old EXCEPT !.inClaim = FALSE, !.symbols = old.pending, !.pending = <<>>]
           h == [host EXCEPT !.asking = 0, !.errors = 0, !.files[Current] = new]
<1>1. host' = h /\ host.asking = host.plugins + 1
  BY DEF CloseClaim
<1>2. /\ DOMAIN host = HostFields /\ host.plugins \in Nat /\ host.asking # 0
  BY <1>1, RecordsAre DEF Held, Going
<1>3. OpenRecord /\ DOMAIN old = RecordFields /\ AddedOK(old.pending)
  BY <1>2, CurrentFacts
<1>4. \A i \in DOMAIN old.pending : old.claimedBy # 0 => old.pending[i].plugin = old.claimedBy
  BY <1>3 DEF OpenRecord
<1>5. /\ DOMAIN new = RecordFields /\ new.symbols = old.pending /\ new.pending = <<>>
      /\ new.claimedBy = old.claimedBy /\ new.handle = old.handle /\ new.resolution = old.resolution
  BY <1>3 DEF RecordFields
<1> HIDE DEF new
<1>6. RecordOK(new)
  BY <1>3, <1>4, <1>5, SequenceEmpty DEF RecordOK, AddedOK
<1>7. /\ DOMAIN h = HostFields /\ h.asking = 0 /\ h.plugins = host.plugins /\ h.active = host.active
      /\ h.files = [host.files EXCEPT ![Current] = new]
  BY <1>2 DEF HostFields
<1> HIDE DEF h
<1>8. /\ Records' /\ Current' = Current /\ host'.files[Current] = new
      /\ DOMAIN host'.files = DOMAIN host.files
      /\ \A k \in DOMAIN host.files : k # Current => host'.files[k] = host.files[k]
  BY <1>1, <1>2, <1>6, <1>7, CurrentChanged
<1> QED
  BY <1>1, <1>5, <1>7, <1>8

LEMMA PublishRecords ==
  ASSUME Records, NEW res, PublishResolutions(res)
  PROVE  /\ Records' /\ DOMAIN host'.files = DOMAIN host.files
         /\ host'.active = host.active /\ host'.asking = 1 /\ Current' = Current
         /\ \A k \in DOMAIN host.files :
              LET r == host'.files[k] IN
              /\ r.handle = host.files[k].handle /\ r.symbols = host.files[k].symbols
              /\ r.resolution = IF k \in DOMAIN res THEN res[k].values ELSE host.files[k].resolution
<1> DEFINE g == [k \in DOMAIN host.files |->
                   IF k \in DOMAIN res
                     THEN [host.files[k] EXCEPT !.state = res[k].state, !.resolution = res[k].values]
                     ELSE host.files[k]]
           h == [host EXCEPT !.phase = "all symbols read", !.asking = 1, !.files = g]
<1>1. host' = h
  BY DEF PublishResolutions
<1>2. /\ DOMAIN host = HostFields /\ host.plugins \in Nat /\ IsSequence(host.files)
      /\ \A k \in DOMAIN host.files : RecordOK(host.files[k])
  BY RecordsAre
<1>3. /\ DOMAIN h = HostFields /\ h.plugins = host.plugins /\ h.asking = 1 /\ h.active = host.active
      /\ h.files = g
  BY <1>2 DEF HostFields
<1>4. DOMAIN g = DOMAIN host.files /\ g = [k \in DOMAIN g |-> g[k]]
  OBVIOUS
<1>5. ASSUME NEW k \in DOMAIN host.files
      PROVE  /\ RecordOK(g[k]) /\ g[k].handle = host.files[k].handle /\ g[k].symbols = host.files[k].symbols
             /\ g[k].resolution = IF k \in DOMAIN res THEN res[k].values ELSE host.files[k].resolution
  <2> DEFINE r == g[k]
             old == host.files[k]
  <2>0. RecordOK(old)
    BY <1>2
  <2>1. CASE k \in DOMAIN res
    <3>1. r = [old EXCEPT !.state = res[k].state, !.resolution = res[k].values]
      BY <2>1
    <3> HIDE DEF r, old
    <3>2. /\ DOMAIN r = RecordFields /\ r.handle = old.handle /\ r.symbols = old.symbols
          /\ r.pending = old.pending /\ r.claimedBy = old.claimedBy /\ r.resolution = res[k].values
      BY <2>0, <3>1 DEF RecordOK, RecordFields
    <3>3. RecordOK(r)
      BY <2>0, <3>2 DEF RecordOK
    <3> QED
      BY <2>1, <3>2, <3>3 DEF r, old
  <2>2. CASE k \notin DOMAIN res
    <3>1. r = old
      BY <2>2
    <3> HIDE DEF r, old
    <3> QED
      BY <2>0, <2>2, <3>1 DEF r, old
  <2> QED
    BY <2>1, <2>2
<1> HIDE DEF g, h
<1>6. IsSequence(g) /\ Len(g) = Len(host.files)
  BY <1>2, <1>4, SequenceMapped
<1>7. Records'
  BY <1>1, <1>2, <1>3, <1>4, <1>5, <1>6, RecordsMade
<1> QED
  BY <1>1, <1>3, <1>4, <1>5, <1>6, <1>7 DEF Current

(* What a plugin describes is a symbol of an object. *)
LEMMA GivenSymbols ==
  ASSUME Held, Offering
  PROVE  Content(ContentOf(Offered)).ir \in Seq(ObjectSymbol)
<1>1. ContentOf(Offered) \in DOMAIN job.content
  BY OfferedFacts
<1>2. IsContent(Content(ContentOf(Offered)), DOMAIN job.content)
  BY <1>1 DEF Held, Going, Stored, IsJob, Content
<1> QED
  BY <1>2 DEF IsContent

LEMMA RecordsStep ==
  ASSUME Held, Next
  PROVE  Records'
<1>0. Records
  BY DEF Held, Going
<1>1. CASE UNCHANGED host
  BY <1>0, <1>1, RecordsAre, RecordsKept
<1>2. CASE StartSession
  BY <1>2, BeginRecords DEF StartSession
<1>3. CASE StartPlugin
  BY <1>0, <1>3, LoadRecords DEF StartPlugin
<1>4. CASE OfferFile
  BY <1>0, <1>4, OpenRecords DEF OfferFile
<1>5. CASE OfferToPlugin
  BY <1>5, GivenSymbols, AskRecords DEF OfferToPlugin
<1>6. CASE EndOffer
  BY <1>6, CloseRecords DEF EndOffer
<1>7. CASE TellPlugins
  <2>1. \E res : PublishResolutions(res)
    BY <1>7 DEF TellPlugins
  <2> QED
    BY <1>0, <2>1, PublishRecords
<1>8. CASE CompileIr
  BY <1>0, <1>8, HandlerRecords DEF CompileIr
<1>9. CASE ReplaceIr \/ ObjectOffered
  BY <1>0, <1>9, EndHandlersRecords DEF ReplaceIr, ObjectOffered
<1>10. CASE OfferObject
  <2> DEFINE h == [host EXCEPT !.asking = 1]
  <2>1. host' = h
    BY <1>10 DEF OfferObject
  <2>2. DOMAIN host = HostFields /\ host.plugins \in Nat
    BY <1>0, RecordsAre
  <2>3. DOMAIN h = HostFields /\ h.plugins = host.plugins /\ h.asking = 1 /\ h.files = host.files
    BY <2>2 DEF HostFields
  <2> HIDE DEF h
  <2> QED
    BY <1>0, <2>1, <2>2, <2>3, RecordsKept
<1>11. CASE FinishLink \/ DropSession
  BY <1>0, <1>1, <1>11, EndRecords DEF FinishLink, DropSession, hostVars
<1>13. CASE BeginCleanUp \/ CleanUpPlugin
  BY <1>0, <1>13, EndBegins, CleanUpRecords DEF BeginCleanUp, CleanUpPlugin
<1>12. CASE ~(StartSession \/ StartPlugin \/ OfferFile \/ OfferToPlugin \/ EndOffer \/ TellPlugins
              \/ CompileIr \/ ReplaceIr \/ ObjectOffered \/ OfferObject \/ FinishLink \/ DropSession
              \/ BeginCleanUp \/ CleanUpPlugin)
  <2>1. UNCHANGED host
    BY <1>12 DEF Next, Collect, LtoStep, Environment, Stutter, vars, hostVars, StartClaims, NamesDone, LoadRound,
      ClaimsDone, PluginLoadFailed, RefusePlugin, ObjectsOffered, AddLtoLibrary, PlanLibraries,
      LaterStageFails
  <2> QED
    BY <1>1, <2>1
<1> QED
  BY <1>2, <1>3, <1>4, <1>5, <1>6, <1>7, <1>8, <1>9, <1>10, <1>11, <1>12, <1>13

(* Nothing that Claiming speaks of changes. *)
LEMMA ClaimingSame ==
  ASSUME Claiming, stage # "done", stage' # "failed", UNCHANGED <<claims, pass>>,
         host'.files = host.files, host'.active = host.active, host'.asking = host.asking,
         \A f \in DOMAIN files' : files'[f].ir # 0 => f \in Ids /\ files[f].ir = files'[f].ir,
         stage' = "symbols" => stage = "symbols",
         stage = "symbols" => stage' \in {"symbols", "done"},
         pass = 1 /\ host.asking # 0 /\ stage # "symbols" =>
           stage' \in {"names", "claiming"} /\ UNCHANGED <<todo, host>>
  PROVE  Claiming'
<1>1. CASE stage' = "done"
  BY <1>1 DEF Claiming
<1>2. CASE stage' # "done"
  <2>1. pass' = 1 /\ host'.asking # 0 /\ stage' # "symbols" => OpenRecord'
    <3>1. ASSUME pass' = 1, host'.asking # 0, stage' # "symbols" PROVE OpenRecord'
      <4>1. OpenRecord /\ stage' \in {"names", "claiming"} /\ UNCHANGED <<todo, host>>
        BY <1>2, <3>1 DEF Claiming
      <4> QED
        BY <4>1 DEF OpenRecord, Current, Offered
    <3> QED
      BY <3>1
  <2>2. \A f \in Ids' : files'[f].ir # 0 =>
            /\ files'[f].ir \in DOMAIN claims
            /\ host.files[claims[files'[f].ir]].handle = f
    BY DEF Claiming, Ids
  <2> QED
    BY <1>2, <2>1, <2>2 DEF Claiming
<1> QED
  BY <1>1, <1>2

(* Once the plugins were told. *)
LEMMA ClaimingKept ==
  ASSUME Claiming, stage # "done", host'.files = host.files, host'.active = host.active,
         UNCHANGED claims,
         \A f \in DOMAIN files' : files'[f].ir # 0 => f \in Ids /\ files[f].ir = files'[f].ir,
         (pass' = 2 /\ stage' # "symbols") \/ (stage' = "symbols" /\ stage = "symbols")
  PROVE  Claiming'
<1>1. ~host.active => claims = <<>> /\ host.files = <<>>
  BY DEF Claiming
<1>2. /\ IsSequence(claims) /\ (\A i \in DOMAIN claims : claims[i] \in DOMAIN host.files)
      /\ \A i, j \in DOMAIN claims : i < j => claims[i] < claims[j]
  BY DEF Claiming
<1>3. \A f \in Ids' : files'[f].ir # 0 => /\ files'[f].ir \in DOMAIN claims
                                         /\ host.files[claims[files'[f].ir]].handle = f
  BY DEF Claiming, Ids
<1>4. stage' = "symbols" => \A k \in DOMAIN host.files :
            LET r == host.files[k] IN
            /\ IsSequence(r.resolution)
            /\ r.resolution # <<>> =>
                 r.symbols # <<>> /\ DOMAIN r.resolution = DOMAIN r.symbols[1].syms
  BY DEF Claiming
<1>5. host'.files = host.files /\ host'.active = host.active
  OBVIOUS
<1> QED
  BY <1>1, <1>2, <1>3, <1>4, <1>5 DEF Claiming

LEMMA StartSessionClaiming ==
  ASSUME Held, StartSession
  PROVE  Claiming'
<1>1. /\ ~host.active /\ BeginSession(job.saveTemps) /\ UNCHANGED <<files, stage, claims, pass>> /\ stage \in {"names", "claiming"}
  BY DEF StartSession, BeginSession, Offering, inputVars, Unchanged2, ltoVars
<1>2. claims = <<>> /\ \A f \in Ids : files[f].ir = 0
  <2>1. claims = <<>>
    BY <1>1 DEF Held, Going, Claiming
  <2> QED
    BY <2>1, SequenceEmpty DEF Held, Going, Claiming
<1>3. host'.active = TRUE /\ host'.files = <<>> /\ host'.asking = 0
  BY <1>1, BeginRecords
<1> QED
  BY <1>1, <1>2, <1>3, SequenceEmpty DEF Claiming, Ids

LEMMA StartPluginClaiming ==
  ASSUME Held, StartPlugin
  PROVE  Claiming'
<1>1. /\ Offering /\ UNCHANGED <<files, stage, claims, pass>>
  BY DEF StartPlugin, inputVars, Unchanged2, ltoVars
<1>2. /\ host'.files = host.files /\ host'.active = host.active
      /\ host'.asking = host.asking /\ host.phase = "loading"
  <2>1. Records
    BY DEF Held, Going
  <2> QED
    BY <2>1, LoadRecords DEF StartPlugin
<1>3. host.asking = 0
  <2>1. host.asking # 0 => OpenRecord
    BY <1>1, CurrentFacts
  <2> QED
    BY <2>1, <1>2 DEF OpenRecord
<1>4. Claiming
  BY DEF Held, Going
<1>5. stage' = stage /\ stage \in {"names", "claiming"}
  BY <1>1 DEF Offering
<1> QED
  BY <1>1, <1>2, <1>3, <1>4, <1>5 DEF Claiming, Ids

LEMMA OfferFileClaiming ==
  ASSUME Held, OfferFile
  PROVE  Claiming'
<1>1. /\ Offering /\ OpenClaim(Offered) /\ UNCHANGED <<files, stage, claims, pass, todo>>
      /\ stage \in {"names", "claiming"} /\ todo # {}
  BY DEF OfferFile, inputVars, Unchanged2, ltoVars, Offering
<1>2. /\ host'.files = Append(host.files, Record(Offered)) /\ host'.asking = 1
      /\ host'.active = host.active /\ host'.phase = "claiming" /\ host'.plugins = host.plugins
      /\ host.active
  <2>1. Records
    BY DEF Held, Going
  <2> QED
    BY <1>1, <2>1, OpenRecords
<1> DEFINE n == Len(host.files)
           r == Record(Offered)
           hf == Append(host.files, r)
<1>3. IsSequence(host.files)
  BY RecordsAre DEF Held, Going
<1>4. /\ DOMAIN hf = 1 .. n + 1 /\ n \in Nat /\ DOMAIN host.files = 1 .. n /\ Len(hf) = n + 1
      /\ hf[n + 1] = r /\ \A k \in 1 .. n : hf[k] = host.files[k]
  BY <1>3, SequenceAppend, SequenceFacts
<1>5. r.handle = Offered /\ r.symbols = <<>> /\ r.pending = <<>> /\ r.claimedBy = 0 /\ r.resolution = <<>>
  BY DEF Record
<1> HIDE DEF hf, r, n
<1>6. pass = 1 /\ Claiming /\ stage # "done"
  BY <1>1, OfferedFacts DEF Held, Going
<1>7. /\ \A i \in DOMAIN claims : claims[i] \in DOMAIN host.files
      /\ \A k \in DOMAIN host.files : host.files[k].resolution = <<>>
      /\ \A f \in Ids : files[f].ir # 0 => files[f].ir \in DOMAIN claims
                                           /\ host.files[claims[files[f].ir]].handle = f
  BY <1>1, <1>6 DEF Claiming
<1>8. host'.files = hf /\ Current' = n + 1
  BY <1>2, <1>4 DEF hf, r, Current
<1>9. \A i \in DOMAIN claims : claims[i] \in 1 .. n /\ claims[i] < n + 1
  BY <1>4, <1>7
<1>10. OpenRecord'
  <2>1. Offered' = Offered
    BY <1>1 DEF Offered
  <2>2. host'.files[Current'] = r
    BY <1>4, <1>8
  <2>3. n + 1 > 0
    BY <1>4
  <2> QED
    BY <1>1, <1>2, <1>5, <1>8, <1>9, <2>1, <2>2, <2>3, SequenceEmpty DEF OpenRecord
<1>11. \A i \in DOMAIN claims : claims[i] \in DOMAIN host'.files
  BY <1>4, <1>8, <1>9
<1>12. \A k \in DOMAIN host'.files : host'.files[k].resolution = <<>>
  BY <1>4, <1>5, <1>7, <1>8
<1>13. \A f \in Ids : files[f].ir # 0 => files[f].ir \in DOMAIN claims
                                         /\ host'.files[claims[files[f].ir]].handle = f
  BY <1>4, <1>7, <1>8, <1>9
<1> QED
  BY <1>1, <1>2, <1>6, <1>10, <1>11, <1>12, <1>13 DEF Claiming, Ids

LEMMA OfferToPluginClaiming ==
  ASSUME Held, OfferToPlugin
  PROVE  Claiming'
<1>1. /\ Offering /\ UNCHANGED <<files, stage, claims, pass, todo>>
      /\ stage \in {"names", "claiming"} /\ todo # {}
  BY DEF OfferToPlugin, inputVars, Unchanged2, ltoVars, Offering
<1>2. PICK b : AskPlugin(b, Content(ContentOf(Offered)).ir)
  BY DEF OfferToPlugin
<1>3. Content(ContentOf(Offered)).ir \in Seq(ObjectSymbol)
  BY <1>1, GivenSymbols
<1>4. /\ Current' = Current /\ DOMAIN host'.files = DOMAIN host.files
      /\ \A k \in DOMAIN host.files : k # Current => host'.files[k] = host.files[k]
      /\ host'.active = host.active /\ host'.phase = host.phase
      /\ LET r == host'.files[Current] IN
         /\ r.handle = host.files[Current].handle /\ r.symbols = host.files[Current].symbols
         /\ r.resolution = host.files[Current].resolution
         /\ host'.asking \in 1 .. host'.plugins => r.pending = <<>> /\ r.claimedBy = 0
         /\ r.claimedBy # 0 => \A i \in DOMAIN r.pending : r.pending[i].plugin = r.claimedBy
  BY <1>1, <1>2, <1>3, AskRecords
<1>5. OpenRecord /\ Current \in DOMAIN host.files
  <2>1. host.asking # 0
    BY <1>2, RecordsAre DEF AskPlugin, Held, Going
  <2> QED
    BY <1>1, <2>1, CurrentFacts
<1>6. \A k \in DOMAIN host.files : /\ host'.files[k].handle = host.files[k].handle
                                   /\ host'.files[k].resolution = host.files[k].resolution
  BY <1>4
<1>7. Offered' = Offered
  BY <1>1 DEF Offered
<1>8. OpenRecord'
  BY <1>1, <1>4, <1>5, <1>7 DEF OpenRecord
<1>9. Claiming /\ stage # "done"
  BY DEF Held, Going
<1> QED
  BY <1>1, <1>4, <1>6, <1>8, <1>9 DEF Claiming, Ids

LEMMA EndOfferClaiming ==
  ASSUME Held, EndOffer, stage' # "failed"
  PROVE  Claiming'
<1> DEFINE f == Offered
           k == Current
<1>1. /\ Offering /\ CloseClaim /\ UNCHANGED <<stage, pass>> /\ stage \in {"names", "claiming"}
      /\ claims' = IF Claimed(k) THEN Append(claims, k) ELSE claims
      /\ host.asking = host.plugins + 1
  BY DEF EndOffer, Fail, Offering
<1>2. /\ Current' = Current /\ DOMAIN host'.files = DOMAIN host.files
      /\ \A j \in DOMAIN host.files : j # k => host'.files[j] = host.files[j]
      /\ host'.active = host.active /\ host'.asking = 0
      /\ host'.files[k].handle = host.files[k].handle
      /\ host'.files[k].resolution = host.files[k].resolution
  BY <1>1, CloseRecords
<1>3. OpenRecord /\ k \in DOMAIN host.files /\ k \in Nat
  <2>1. host.asking # 0
    BY <1>1, RecordsAre DEF Held, Going
  <2> QED
    BY <1>1, <2>1, CurrentFacts
<1>4. host.files[k].handle = f /\ host.active /\ \A i \in DOMAIN claims : claims[i] < k
  BY <1>3 DEF OpenRecord
<1>5. f \in Ids /\ pass = 1
  BY <1>1, OfferedFacts
<1>6. Claiming /\ stage # "done" /\ stage # "symbols"
  BY <1>1 DEF Held, Going
<1>7. IsSequence(claims) /\ Len(claims) \in Nat /\ DOMAIN claims = 1 .. Len(claims)
  BY <1>6, SequenceFacts DEF Claiming
<1>8. \A j \in DOMAIN host'.files : /\ host'.files[j].handle = host.files[j].handle
                                    /\ host'.files[j].resolution = <<>>
  BY <1>1, <1>2, <1>5, <1>6 DEF Claiming
<1>9. /\ \A i \in DOMAIN claims : claims[i] \in DOMAIN host.files
      /\ \A i, j \in DOMAIN claims : i < j => claims[i] < claims[j]
      /\ \A g \in Ids : files[g].ir # 0 => files[g].ir \in DOMAIN claims
                                           /\ host.files[claims[files[g].ir]].handle = g
  BY <1>6 DEF Claiming
<1>10. DOMAIN files' = DOMAIN files /\ \A g \in Ids : g # f => files'[g] = files[g]
  BY EndOfferKeeps
<1>11. files'[f].ir = IF Claimed(k) /\ stage = "claiming" THEN Len(claims) + 1 ELSE files[f].ir
  <2>1. DOMAIN files[f] = FileFields
    BY <1>5 DEF Held, Going, Listed, FileOK
  <2>2. \E x : /\ files' = [files EXCEPT ![f] = x]
               /\ IF Claimed(k) /\ stage = "claiming"
                    THEN x = [files[f] EXCEPT !.ir = ClaimNumber(f), !.object = FALSE]
                    ELSE x = files[f] \/ \E n : x = [files[f] EXCEPT !.lazy = n]
    BY <1>1 DEF EndOffer, Fail
  <2>3. PICK x : /\ files' = [files EXCEPT ![f] = x]
                 /\ IF Claimed(k) /\ stage = "claiming"
                      THEN x = [files[f] EXCEPT !.ir = ClaimNumber(f), !.object = FALSE]
                      ELSE x = files[f] \/ \E n : x = [files[f] EXCEPT !.lazy = n]
    BY <2>2
  <2>4. files'[f] = x
    BY <2>3, <1>5 DEF Ids
  <2>5. x.ir = IF Claimed(k) /\ stage = "claiming" THEN Len(claims) + 1 ELSE files[f].ir
    BY <2>1, <2>3 DEF FileFields, ClaimNumber
  <2> QED
    BY <2>4, <2>5
<1> HIDE DEF f, k
<1>12. /\ IsSequence(claims')
       /\ \A i \in DOMAIN claims' : claims'[i] \in DOMAIN host.files
       /\ \A i, j \in DOMAIN claims' : i < j => claims'[i] < claims'[j]
       /\ \A g \in Ids : files'[g].ir # 0 => files'[g].ir \in DOMAIN claims'
                                             /\ host.files[claims'[files'[g].ir]].handle = g
  <2>1. CASE ~Claimed(k)
    BY <1>1, <1>7, <1>9, <1>10, <1>11, <2>1
  <2>2. CASE Claimed(k)
    <3> DEFINE c == Append(claims, k)
               n == Len(claims)
    <3>1. /\ IsSequence(c) /\ DOMAIN c = 1 .. n + 1 /\ c[n + 1] = k
          /\ \A i \in 1 .. n : c[i] = claims[i]
      BY <1>7, SequenceAppend
    <3> HIDE DEF c, n
    <3>2. claims' = c /\ n \in Nat /\ DOMAIN claims = 1 .. n /\ n = Len(claims)
      BY <1>1, <1>7, <2>2 DEF c, n
    <3>3. \A i \in DOMAIN c : i \in DOMAIN claims \/ i = n + 1
      BY <3>1, <3>2
    <3>4. \A i \in DOMAIN c : c[i] \in DOMAIN host.files
      BY <1>3, <1>9, <3>1, <3>2, <3>3
    <3>5. ASSUME NEW i \in DOMAIN c, NEW j \in DOMAIN c, i < j PROVE c[i] < c[j]
      <4>1. i \in DOMAIN claims
        BY <3>1, <3>2, <3>5
      <4>2. CASE j = n + 1
        BY <1>4, <3>1, <3>2, <4>1, <4>2
      <4>3. CASE j # n + 1
        <5>1. j \in DOMAIN claims
          BY <3>3, <4>3
        <5> QED
          BY <1>9, <3>1, <3>2, <3>5, <4>1, <5>1
      <4> QED
        BY <4>2, <4>3
    <3>6. ASSUME NEW g \in Ids, files'[g].ir # 0
          PROVE  files'[g].ir \in DOMAIN c /\ host.files[c[files'[g].ir]].handle = g
      <4>1. CASE g = f /\ stage = "claiming"
        BY <1>4, <1>11, <2>2, <3>1, <3>2, <4>1
      <4>2. CASE ~(g = f /\ stage = "claiming")
        <5>1. files'[g].ir = files[g].ir
          BY <1>10, <1>11, <4>2
        <5>2. files[g].ir \in DOMAIN claims /\ host.files[claims[files[g].ir]].handle = g
          BY <1>9, <3>6, <5>1
        <5>3. files[g].ir \in DOMAIN c /\ c[files[g].ir] = claims[files[g].ir]
          BY <3>1, <3>2, <5>2
        <5> QED
          BY <5>1, <5>2, <5>3
      <4> QED
        BY <4>1, <4>2
    <3> QED
      BY <3>1, <3>2, <3>4, <3>5, <3>6
  <2> QED
    BY <2>1, <2>2
<1>13. \A g \in Ids : files'[g].ir # 0 => host'.files[claims'[files'[g].ir]].handle = g
  BY <1>2, <1>8, <1>12
<1> QED
  BY <1>1, <1>2, <1>4, <1>6, <1>8, <1>10, <1>12, <1>13 DEF Claiming, Ids

-----------------------------------------------------------------------------
(***************************************************************************)
(* What the plugins are told                                               *)
(***************************************************************************)
(* What the cell of a symbol may hold. *)
CellOK(d, s) ==
  \/ d \in Competing(s)
  \/ d = UndefinedDefinition
  \/ d.kind = "Shared" /\ d.file \in SharedFiles

LEMMA BindCells ==
  ASSUME Going, NEW cl, \A s \in Names : CellOK(cl[s], s)
  PROVE  \A s \in Names : CellOK(BindUnextracted(cl)[s], s)
<1> SUFFICES ASSUME NEW s \in Names PROVE CellOK(BindUnextracted(cl)[s], s)
  OBVIOUS
<1> DEFINE defs == SharedDefinitions(SharedFiles \cap live, s)
<1>1. BindUnextracted(cl)[s] = IF cl[s].kind = "Lazy" /\ defs # {} THEN FirstOf(defs) ELSE cl[s]
  BY DEF BindUnextracted
<1>2. SharedFiles \cap live \subseteq Ids
  BY DEF SharedFiles
<1>3. defs # {} => FirstOf(defs).kind = "Shared" /\ FirstOf(defs).file \in SharedFiles
  BY <1>2, FirstOfShared
<1> QED
  BY <1>1, <1>3 DEF CellOK

LEMMA RebindCells ==
  ASSUME Going, NEW nd \in SUBSET SharedFiles, NEW cl, \A s \in Names : CellOK(cl[s], s)
  PROVE  \A s \in Names : /\ CellOK(RebindUnneeded(cl, nd)[s], s)
                          /\ RebindUnneeded(cl, nd)[s].kind = "Shared" => RebindUnneeded(cl, nd)[s].file \in nd
                          /\ Owner(cl, s) \subseteq nd => RebindUnneeded(cl, nd)[s] = cl[s]
<1> SUFFICES ASSUME NEW s \in Names
             PROVE  /\ CellOK(RebindUnneeded(cl, nd)[s], s)
                    /\ RebindUnneeded(cl, nd)[s].kind = "Shared" => RebindUnneeded(cl, nd)[s].file \in nd
                    /\ Owner(cl, s) \subseteq nd => RebindUnneeded(cl, nd)[s] = cl[s]
  OBVIOUS
<1> DEFINE defs == SharedDefinitions(nd, s)
<1>1. RebindUnneeded(cl, nd)[s] = IF Owner(cl, s) \subseteq nd THEN cl[s]
                                  ELSE IF defs = {} THEN UndefinedDefinition ELSE FirstOf(defs)
  BY DEF RebindUnneeded
<1>2. nd \subseteq Ids
  BY DEF SharedFiles
<1>3. defs # {} => FirstOf(defs).kind = "Shared" /\ FirstOf(defs).file \in nd
  BY <1>2, FirstOfShared
<1>4. UndefinedDefinition.kind # "Shared"
  BY DEF UndefinedDefinition
<1>5. cl[s].kind = "Shared" /\ Owner(cl, s) \subseteq nd => cl[s].file \in nd
  BY DEF Owner
<1> QED
  BY <1>1, <1>3, <1>4, <1>5 DEF CellOK

(* The table the plugins are told of. *)
LEMMA ToldTable ==
  ASSUME Held, TellPlugins
  PROVE  /\ stage = "resolved" /\ stage' = "symbols" /\ pass = 1 /\ host.active
         /\ UNCHANGED <<files, live, claims, pass, table, job>>
         /\ \A s \in Names : CellOK(cell'[s], s)
         /\ first'.ir = {s \in Names : Winner(cell'[s]) = "ir"}
         /\ PublishResolutions(
              [k \in {claims[i] : i \in DOMAIN claims} |->
                 LET i == CHOOSE j \in DOMAIN claims : claims[j] = k IN
                 IF Included(i)
                   THEN [state |-> "included", values |-> FileResolution(host.files[k].handle, cell')]
                   ELSE [state |-> "not included", values |-> <<>>]])
<1>1. /\ stage = "resolved" /\ stage' = "symbols" /\ pass = 1 /\ host.active
      /\ UNCHANGED <<files, live, claims, pass, table, job>>
  BY DEF TellPlugins, SetStage
<1> DEFINE bound == IF job.relocatable THEN cell ELSE BindUnextracted(cell)
           nd == IF job.relocatable THEN SharedFiles ELSE PlanNeeded(bound, NeededByIr(bound))
           cl == IF job.relocatable THEN bound ELSE RebindUnneeded(bound, nd)
           res(c) == [k \in {claims[i] : i \in DOMAIN claims} |->
                        LET i == CHOOSE j \in DOMAIN claims : claims[j] = k IN
                        IF Included(i)
                          THEN [state |-> "included", values |-> FileResolution(host.files[k].handle, c)]
                          ELSE [state |-> "not included", values |-> <<>>]]
<1>2. /\ cell' = cl /\ PublishResolutions(res(cl))
      /\ first' = [bound |-> {s \in Names : Winner(cl[s]) # "undefined"},
                   ir |-> {s \in Names : Winner(cl[s]) = "ir"},
                   native |-> {files[f].position : f \in NativeFiles},
                   hidden |-> LtoHidden \cup
                      {e.sym : e \in {d \in UNION {Range(Syms(f)) : f \in IrFiles} : d.hidden}}]
  BY DEF TellPlugins
<1>3. first'.ir = {s \in Names : Winner(cell'[s]) = "ir"} /\ PublishResolutions(res(cell'))
  <2> HIDE DEF cl, res
  <2> QED
    BY <1>2
<1>4. Going /\ \A s \in Names : CellOK(cell[s], s)
  <2>1. Going /\ cell = [s \in Names |-> Best(s)]
    BY <1>1 DEF Held, Resolved
  <2> QED
    BY <2>1, BestCompetes DEF CellOK
<1>5. \A s \in Names : CellOK(bound[s], s)
  BY <1>4, BindCells
<1>6. nd \in SUBSET SharedFiles
  BY DEF PlanNeeded
<1> HIDE DEF bound, nd
<1>7. \A s \in Names : CellOK(cl[s], s)
  BY <1>4, <1>5, <1>6, RebindCells
<1> QED
  BY <1>1, <1>2, <1>3, <1>7

(* What a record is told of each of its symbols. *)
LEMMA ToldRecords ==
  ASSUME Held, TellPlugins
  PROVE  /\ DOMAIN host'.files = DOMAIN host.files /\ host'.active = host.active
         /\ \A k \in DOMAIN host.files :
              /\ host'.files[k].handle = host.files[k].handle
              /\ host'.files[k].symbols = host.files[k].symbols
              /\ host'.files[k].resolution = <<>> \/
                   \E i \in DOMAIN claims :
                     /\ k = claims[i] /\ Included(i) /\ host.files[k].symbols # <<>>
                     /\ Syms(host.files[k].handle) = host.files[k].symbols[1].syms
                     /\ host'.files[k].resolution = FileResolution(host.files[k].handle, cell')
         /\ \A i \in DOMAIN claims : Included(i) =>
              host'.files[claims[i]].resolution = FileResolution(host.files[claims[i]].handle, cell')
<1> DEFINE pick(k) == CHOOSE j \in DOMAIN claims : claims[j] = k
           said(k) == IF Included(pick(k))
                        THEN [state |-> "included", values |-> FileResolution(host.files[k].handle, cell')]
                        ELSE [state |-> "not included", values |-> <<>>]
           res == [k \in {claims[i] : i \in DOMAIN claims} |-> said(k)]
<1>1. /\ stage = "resolved" /\ pass = 1 /\ PublishResolutions(res)
  BY ToldTable
<1>2. /\ IsSequence(claims) /\ (\A i \in DOMAIN claims : claims[i] \in DOMAIN host.files)
      /\ (\A i, j \in DOMAIN claims : i < j => claims[i] < claims[j])
      /\ \A k \in DOMAIN host.files : host.files[k].resolution = <<>>
  BY <1>1 DEF Held, Going, Claiming
<1>3. \A i, j \in DOMAIN claims : claims[i] = claims[j] => i = j
  <2>1. DOMAIN claims \subseteq Nat /\ DOMAIN host.files \subseteq Nat
    BY <1>2, RecordsAre, SequenceFacts DEF Held, Going
  <2> SUFFICES ASSUME NEW i \in DOMAIN claims, NEW j \in DOMAIN claims, claims[i] = claims[j], i # j PROVE FALSE
    OBVIOUS
  <2>2. i \in Nat /\ j \in Nat /\ claims[i] \in Nat /\ claims[j] \in Nat
    BY <1>2, <2>1
  <2>3. i < j \/ j < i
    BY <2>2
  <2> QED
    BY <1>2, <2>2, <2>3
<1>4. \A i \in DOMAIN claims : pick(claims[i]) = i
  BY <1>3
<1>5. Records
  BY DEF Held, Going
<1>6. DOMAIN res = {claims[i] : i \in DOMAIN claims} /\ \A k \in DOMAIN res : res[k] = said(k)
  OBVIOUS
<1> HIDE DEF res
<1>7. /\ DOMAIN host'.files = DOMAIN host.files /\ host'.active = host.active
      /\ \A k \in DOMAIN host.files :
           /\ host'.files[k].handle = host.files[k].handle
           /\ host'.files[k].symbols = host.files[k].symbols
           /\ host'.files[k].resolution = IF k \in DOMAIN res THEN res[k].values ELSE host.files[k].resolution
  BY <1>1, <1>5, PublishRecords
<1>8. ASSUME NEW i \in DOMAIN claims
      PROVE  host'.files[claims[i]].resolution =
               IF Included(i) THEN FileResolution(host.files[claims[i]].handle, cell') ELSE <<>>
  <2>1. claims[i] \in DOMAIN res /\ res[claims[i]] = said(claims[i]) /\ claims[i] \in DOMAIN host.files
    BY <1>2, <1>6
  <2>2. pick(claims[i]) = i
    BY <1>4
  <2>3. said(claims[i]).values = IF Included(i) THEN FileResolution(host.files[claims[i]].handle, cell') ELSE <<>>
    BY <2>2
  <2> HIDE DEF said
  <2> QED
    BY <1>7, <2>1, <2>3
<1>9. ASSUME NEW k \in DOMAIN host.files, host'.files[k].resolution # <<>>
      PROVE  \E i \in DOMAIN claims :
                     /\ k = claims[i] /\ Included(i) /\ host.files[k].symbols # <<>>
                     /\ Syms(host.files[k].handle) = host.files[k].symbols[1].syms
                     /\ host'.files[k].resolution = FileResolution(host.files[k].handle, cell')
  <2>1. k \in DOMAIN res
    BY <1>2, <1>7, <1>9
  <2>2. PICK i \in DOMAIN claims : k = claims[i]
    <3>1. k \in {claims[i] : i \in DOMAIN claims}
      <4> HIDE DEF said
      <4> QED
        BY <1>6, <2>1
    <3> QED
      BY <3>1
  <2>3. Included(i) /\ host'.files[k].resolution = FileResolution(host.files[k].handle, cell')
    BY <1>8, <1>9, <2>2
  <2> DEFINE f == host.files[k].handle
  <2>4. files[f].ir = i /\ i # 0
    <3>1. DOMAIN claims \subseteq Nat \ {0}
      BY <1>2, SequenceFacts
    <3> QED
      BY <2>2, <2>3, <3>1 DEF Included
  <2>5. Syms(f) = SymbolsOf(k)
    BY <2>2, <2>4 DEF Syms
  <2>6. AddedOK(host.files[k].symbols)
    BY <1>5 DEF Records
  <2>7. host.files[k].symbols # <<>>
    <3>1. ASSUME host.files[k].symbols = <<>> PROVE FALSE
      <4>1. Syms(f) = <<>>
        BY <2>5, <3>1 DEF SymbolsOf
      <4>2. host'.files[k].resolution = <<>>
        BY <2>3, <4>1 DEF FileResolution
      <4> QED
        BY <1>9, <4>2
    <3> QED
      BY <3>1
  <2>8. SymbolsOf(k) = host.files[k].symbols[1].syms
    <3>1. Head(host.files[k].symbols) = host.files[k].symbols[1]
      BY <2>6, <2>7, SequenceTail DEF AddedOK
    <3> QED
      BY <2>7, <3>1 DEF SymbolsOf
  <2> QED
    BY <2>2, <2>3, <2>5, <2>7, <2>8
<1> QED
  BY <1>7, <1>8, <1>9

LEMMA TellPluginsClaiming ==
  ASSUME Held, TellPlugins
  PROVE  Claiming'
<1>1. /\ stage = "resolved" /\ stage' = "symbols" /\ pass = 1 /\ host.active /\ UNCHANGED <<files, claims, pass>>
  BY ToldTable
<1>2. /\ DOMAIN host'.files = DOMAIN host.files /\ host'.active = host.active
      /\ \A k \in DOMAIN host.files : host'.files[k].handle = host.files[k].handle
  BY ToldRecords
<1>3. ASSUME NEW k \in DOMAIN host.files
      PROVE  LET r == host'.files[k] IN
             /\ IsSequence(r.resolution)
             /\ r.resolution # <<>> => r.symbols # <<>> /\ DOMAIN r.resolution = DOMAIN r.symbols[1].syms
  <2> DEFINE r == host'.files[k]
  <2>1. r.symbols = host.files[k].symbols
    BY ToldRecords
  <2>2. CASE r.resolution = <<>>
    BY <2>2, SequenceEmpty
  <2>3. CASE r.resolution # <<>>
    <3>1. /\ host.files[k].symbols # <<>>
          /\ Syms(host.files[k].handle) = host.files[k].symbols[1].syms
          /\ r.resolution = FileResolution(host.files[k].handle, cell')
      BY <2>3, ToldRecords
    <3>2. AddedOK(host.files[k].symbols)
      BY DEF Held, Going, Records
    <3>3. host.files[k].symbols[1].syms \in Seq(ObjectSymbol)
      BY <3>1, <3>2, SequenceTail DEF AddedOK
    <3>4. DOMAIN r.resolution = DOMAIN host.files[k].symbols[1].syms
          /\ r.resolution = [i \in DOMAIN r.resolution |-> r.resolution[i]]
      BY <3>1 DEF FileResolution
    <3> HIDE DEF r
    <3>5. IsSequence(r.resolution)
      BY <3>3, <3>4, SequenceOf, SequenceMapped
    <3> QED
      BY <2>1, <3>1, <3>4, <3>5 DEF r
  <2> QED
    BY <2>2, <2>3
<1>4. Claiming /\ stage # "done"
  BY DEF Held, Going
<1> QED
  BY <1>1, <1>2, <1>3, <1>4 DEF Claiming, Ids

LEMMA ClaimingStep ==
  ASSUME Held, Next, stage' # "failed", Listed'
  PROVE  Claiming'
<1>0. /\ Claiming /\ Records /\ stage # "done" /\ stage # "failed" /\ pass \in {1, 2}
      /\ (stage = "new input" => pass = 2)
  BY DEF Held, Going, Alive
<1>1. CASE StartSession
  BY <1>1, StartSessionClaiming
<1>2. CASE StartPlugin
  BY <1>2, StartPluginClaiming
<1>3. CASE OfferFile
  BY <1>3, OfferFileClaiming
<1>4. CASE OfferToPlugin
  BY <1>4, OfferToPluginClaiming
<1>5. CASE EndOffer
  BY <1>5, EndOfferClaiming
<1>6. CASE TellPlugins
  BY <1>6, TellPluginsClaiming
<1>7. CASE CompileIr
  <2>1. /\ stage \in {"symbols", "new input"} /\ UNCHANGED <<files, claims, pass, stage>>
    BY <1>7 DEF CompileIr, inputVars, Unchanged2, ltoVars
  <2>2. host'.files = host.files /\ host'.active = host.active
    BY <1>0, <1>7, HandlerRecords DEF CompileIr
  <2>3. \A f \in DOMAIN files' : files'[f].ir # 0 => f \in Ids /\ files[f].ir = files'[f].ir
    BY <2>1 DEF Ids
  <2>4. (pass' = 2 /\ stage' # "symbols") \/ (stage' = "symbols" /\ stage = "symbols")
    BY <1>0, <2>1
  <2>5. Claiming /\ stage # "done" /\ UNCHANGED claims
    BY <1>0, <2>1
  <2> QED
    BY <2>2, <2>3, <2>4, <2>5, ClaimingKept
<1>8. CASE ReplaceIr
  <2>1. Replaced /\ UNCHANGED claims /\ pass' = 2 /\ stage' = "new input"
    BY <1>8 DEF Replaced, ReplaceIr, Fail
  <2>2. host'.files = host.files /\ host'.active = host.active
    BY <1>0, <1>8, EndHandlersRecords DEF ReplaceIr
  <2>3. \A f \in DOMAIN files' : files'[f].ir # 0 => f \in Ids /\ files[f].ir = files'[f].ir
    BY <2>1 DEF Listed, Ids
  <2>4. (pass' = 2 /\ stage' # "symbols") \/ (stage' = "symbols" /\ stage = "symbols")
    BY <2>1
  <2>5. Claiming /\ stage # "done" /\ UNCHANGED claims
    BY <1>0, <2>1
  <2> QED
    BY <2>2, <2>3, <2>4, <2>5, ClaimingKept
<1>9. CASE OfferObject \/ ObjectOffered
  <2>1. /\ stage = "new input" /\ UNCHANGED <<files, claims, pass, stage>>
    BY <1>9 DEF OfferObject, ObjectOffered, Fail, inputVars, Unchanged2, ltoVars
  <2>2. host'.files = host.files /\ host'.active = host.active
    <3>1. CASE OfferObject
      <4>1. host' = [host EXCEPT !.asking = 1] /\ DOMAIN host = HostFields
        BY <1>0, <3>1, RecordsAre DEF OfferObject
      <4> QED
        BY <4>1 DEF HostFields
    <3>2. CASE ObjectOffered
      BY <1>0, <3>2, EndHandlersRecords DEF ObjectOffered
    <3> QED
      BY <1>9, <3>1, <3>2
  <2>3. \A f \in DOMAIN files' : files'[f].ir # 0 => f \in Ids /\ files[f].ir = files'[f].ir
    BY <2>1 DEF Ids
  <2>4. (pass' = 2 /\ stage' # "symbols") \/ (stage' = "symbols" /\ stage = "symbols")
    BY <1>0, <2>1
  <2>5. Claiming /\ stage # "done" /\ UNCHANGED claims
    BY <1>0, <2>1
  <2> QED
    BY <2>2, <2>3, <2>4, <2>5, ClaimingKept
<1>10. CASE FinishLink
  BY <1>0, <1>10 DEF FinishLink, Fail, SetStage, Unchanged2, ltoVars, Claiming
<1>12. CASE BeginCleanUp \/ CleanUpPlugin
  <2>1. /\ stage = "planned" /\ UNCHANGED <<files, claims, pass, stage>>
    BY <1>0, <1>12 DEF BeginCleanUp, CleanUpPlugin, inputVars, Unchanged2, ltoVars
  <2>2. host'.files = host.files /\ host'.active = host.active /\ host'.asking = host.asking
    BY <1>0, <1>12, EndBegins, CleanUpRecords DEF BeginCleanUp, CleanUpPlugin
  <2>3. \A f \in DOMAIN files' : files'[f].ir # 0 => f \in Ids /\ files[f].ir = files'[f].ir
    BY <2>1 DEF Ids
  <2>4. ~(pass = 1 /\ host.asking # 0)
    BY <1>0, <2>1 DEF Claiming, OpenRecord
  <2> QED
    BY <1>0, <2>1, <2>2, <2>3, <2>4, ClaimingSame
<1>11. CASE ~(StartSession \/ StartPlugin \/ OfferFile \/ OfferToPlugin \/ EndOffer \/ TellPlugins
              \/ CompileIr \/ ReplaceIr \/ OfferObject \/ ObjectOffered \/ FinishLink
              \/ BeginCleanUp \/ CleanUpPlugin)
  <2>1. UNCHANGED <<host, claims, pass>>
    BY <1>0, <1>11 DEF Next, Collect, LtoStep, Environment, Stutter, vars, hostVars, StartClaims, NamesDone, LoadRound,
      ClaimsDone, PluginLoadFailed, RefusePlugin, ObjectsOffered, AddLtoLibrary, PlanLibraries,
      LaterStageFails, DropSession, Unchanged2, ltoVars
  <2>2. \A f \in DOMAIN files' : files'[f].ir # 0 => f \in Ids /\ files[f].ir = files'[f].ir
    <3>1. CASE PushInputs
      <4>1. files' = <<InternalInput>> /\ InternalInput.ir = 0
        BY <3>1 DEF PushInputs, InternalInput, Input
      <4> QED
        BY <4>1, SequenceOne
    <3>2. CASE ~PushInputs /\ stage # "claiming"
      BY <1>11, <3>2, FilesStep DEF FilesOK
    <3>3. CASE stage = "claiming"
      <4>1. UNCHANGED files
        BY <1>11, <3>3 DEF Next, Collect, CollectStep, ResolveSpecs, OpenInput, PushInputs, LoadNext, NotLoaded,
          SkipIncompatible, AddObject, AddShared, AddArchive, AddScript, EndScript, AddOther, WalkDone, ReadIndex,
          FinishInputs, Stop, Ready, Adding, AddOne, LtoStep, StartClaims, NamesDone, LoadRound, ClaimsDone,
          PluginLoadFailed, RefusePlugin, ObjectsOffered, AddLtoLibrary, PlanLibraries,
      LaterStageFails, DropSession, SetStage, Fail, inputVars,
          Environment, Rewrite, CancelLink, Stutter, vars
      <4> QED
        BY <4>1 DEF Ids
    <3> QED
      BY <3>1, <3>2, <3>3
  <2>3. (stage' = "symbols" => stage = "symbols") /\ (stage = "symbols" => stage' \in {"symbols", "done"})
    BY <1>0, <1>11 DEF Next, Collect, CollectStep, ResolveSpecs, OpenInput, PushInputs, LoadNext, NotLoaded,
      SkipIncompatible, AddObject, AddShared, AddArchive, AddScript, EndScript, AddOther, WalkDone, ReadIndex,
      FinishInputs, Stop, Ready, Adding, AddOne, LtoStep, StartClaims, NamesDone, LoadRound, ClaimsDone,
      PluginLoadFailed, RefusePlugin, ObjectsOffered, AddLtoLibrary, PlanLibraries,
      LaterStageFails, DropSession, SetStage, Fail, inputVars,
      Environment, Rewrite, CancelLink, Stutter, vars
  <2>4. ASSUME pass = 1, host.asking # 0, stage # "symbols"
        PROVE  stage' \in {"names", "claiming"} /\ UNCHANGED todo
    <3>1. stage \in {"names", "claiming"} /\ todo # {}
      BY <1>0, <2>4 DEF Claiming, OpenRecord
    <3> QED
      BY <1>0, <1>11, <3>1 DEF Next, Collect, CollectStep, ResolveSpecs, OpenInput, PushInputs, LoadNext, NotLoaded,
        SkipIncompatible, AddObject, AddShared, AddArchive, AddScript, EndScript, AddOther, WalkDone, ReadIndex,
        FinishInputs, Stop, Ready, Adding, AddOne, LtoStep, StartClaims, NamesDone, LoadRound, ClaimsDone,
        PluginLoadFailed, RefusePlugin, ObjectsOffered, AddLtoLibrary, PlanLibraries,
      LaterStageFails, DropSession, SetStage, Fail, inputVars,
        Environment, Rewrite, CancelLink, Stutter, vars, Unchanged2, ltoVars
  <2> QED
    BY <1>0, <2>1, <2>2, <2>3, <2>4, ClaimingSame
<1> QED
  BY <1>1, <1>2, <1>3, <1>4, <1>5, <1>6, <1>7, <1>8, <1>9, <1>10, <1>11, <1>12

(***************************************************************************)
(* The resolution, once it settled                                         *)
(***************************************************************************)
LEMMA SymsSame ==
  ASSUME UNCHANGED <<files, claims, job, table>>, host'.files = host.files, NEW f
  PROVE  Syms(f)' = Syms(f)
BY DEF Syms, SymbolsOf, ContentOf, Content

LEMMA CompetingSame ==
  ASSUME UNCHANGED <<files, claims, job, table, live>>, host'.files = host.files, NEW s
  PROVE  Competing(s)' = Competing(s)
<1>1. \A f : Syms(f)' = Syms(f)
  BY SymsSame
<1>2. \A kind, f, i : Candidate(kind, f, i)' = Candidate(kind, f, i)
  BY DEF Candidate, PositionOf
<1>3. Ids' = Ids
  BY DEF Ids
<1> DEFINE Lz(f) == {Candidate("Lazy", f, i) : i \in {j \in DOMAIN files[f].lazy : files[f].lazy[j] = s}}
<1> DEFINE Df(f) == {Candidate(Syms(f)[i].use, f, i) :
                       i \in {j \in DOMAIN Syms(f) : Syms(f)[j].sym = s /\ IsDefinitionUse(Syms(f)[j].use)}}
<1>4. \A f : Lz(f)' = Lz(f)
  BY <1>2
<1>5. \A f : Df(f)' = Df(f)
  BY <1>1, <1>2 DEF IsDefinitionUse
<1>6. Competing(s) = (UNION {Lz(f) : f \in {g \in Ids : ~files[g].start}}) \cup (UNION {Df(f) : f \in live})
  BY DEF Competing
<1>7. Competing(s)' = (UNION {Lz(f)' : f \in {g \in Ids' : ~files'[g].start}}) \cup (UNION {Df(f)' : f \in live'})
  BY DEF Competing
<1> HIDE DEF Lz, Df
<1> QED
  BY <1>3, <1>4, <1>5, <1>6, <1>7

LEMMA BestSame ==
  ASSUME UNCHANGED <<files, claims, job, table, live>>, host'.files = host.files, NEW s
  PROVE  Best(s)' = Best(s)
<1>1. Competing(s)' = Competing(s)
  BY CompetingSame
<1> QED
  BY <1>1 DEF Best

LEMMA ResolvedStep ==
  ASSUME Held, Next, stage' # "failed"
  PROVE  Resolved'
<1> SUFFICES ASSUME stage' = "resolved"
             PROVE  /\ cell' = [s \in Names |-> Best(s)']
                    /\ \A f \in Ids' : files'[f].start => f \in live'
  BY DEF Resolved
<1>1. CASE stage = "round" /\ LoadRound
  <2>1. /\ NextRound = {} /\ cell' = [s \in Names |-> Best(s)]
        /\ UNCHANGED <<files, claims, job, table, live, host>>
    BY <1>1 DEF LoadRound, SetStage, Fail, hostVars
  <2>2. \A s : Best(s)' = Best(s)
    BY <2>1, BestSame
  <2>3. \A f \in Ids : files[f].start => f \in live
    <3>1. CASE live = {}
      BY <2>1, <3>1 DEF NextRound
    <3>2. CASE live # {}
      BY <3>2 DEF Held, Going, Alive
    <3> QED
      BY <3>1, <3>2
  <2> QED
    BY <2>1, <2>2, <2>3 DEF Ids
<1>2. CASE ~(stage = "round" /\ LoadRound)
  <2>1. UNCHANGED <<files, claims, job, table, live, host, cell, stage>>
    <3>1. CASE Collect
      BY <1>2, <3>1 DEF Collect, CollectStep, ResolveSpecs, OpenInput, PushInputs, LoadNext, NotLoaded,
        SkipIncompatible, AddObject, AddShared, AddArchive, AddScript, EndScript, AddOther, WalkDone, ReadIndex,
        FinishInputs, Stop, Ready, Adding, AddOne
    <3>2. CASE LtoStep
      BY <1>2, <3>2 DEF Held, LtoStep, StartClaims, NamesDone, LoadRound, ClaimsDone, StartSession, StartPlugin, Offering,
        PluginLoadFailed, OfferFile, OfferToPlugin, EndOffer, TellPlugins, CompileIr, ReplaceIr, OfferObject,
        ObjectOffered, ObjectsOffered, AddLtoLibrary, PlanLibraries,
        LaterStageFails, BeginCleanUp, CleanUpPlugin, FinishLink, DropSession, SetStage, Fail, inputVars
    <3>3. CASE Environment \/ Stutter
      BY <1>2, <3>3 DEF Environment, Stutter, vars, inputVars, hostVars, ltoVars, Unchanged2, Rewrite, CancelLink
    <3> QED
      BY <3>1, <3>2, <3>3 DEF Next
  <2>2. \A s : Best(s)' = Best(s)
    BY <2>1, BestSame
  <2>3. Resolved /\ stage = "resolved"
    BY <2>1 DEF Held
  <2> QED
    BY <2>1, <2>2, <2>3 DEF Resolved, Ids
<1> QED
  BY <1>1, <1>2

LEMMA SoundSame ==
  ASSUME Sound, UNCHANGED vars
  PROVE  Sound'
<1>1. UNCHANGED <<job, disk, opened, table, work, files, walk, indexed, err, stage, cancel, host, live, todo, claims,
                  pass, cell>>
  BY DEF vars, inputVars, hostVars, ltoVars
<1>2. \A s : Best(s)' = Best(s)
  BY <1>1, BestSame
<1>3. Resolved => Resolved'
  BY <1>1, <1>2 DEF Resolved, Ids
<1>4. Stored => Stored'
  BY <1>1 DEF Stored, IsJob, IsContent
<1>5. (Working => Working') /\ (Deferring => Deferring')
  BY <1>1 DEF Working, Deferring, ItemsOK, ItemOK, Content
<1>6. (Listed => Listed') /\ (Alive => Alive')
  BY <1>1 DEF Listed, Alive, FileOK, Ids
<1>7. (Claiming => Claiming') /\ (Records => Records')
  BY <1>1 DEF Claiming, OpenRecord, Current, Offered, Records, SymbolsOfClaimer, Ids
<1> QED
  BY <1>1, <1>3, <1>4, <1>5, <1>6, <1>7 DEF Sound

(***************************************************************************)
(* The invariant holds                                                     *)
(***************************************************************************)
LEMMA InitSound == Init => Sound
<1> SUFFICES ASSUME Init PROVE Sound
  OBVIOUS
<1>1. /\ job \in Jobs /\ disk = job.disk /\ opened = [i \in DOMAIN job.specs |-> "unopened"]
      /\ table = <<>> /\ work = <<>> /\ files = <<>> /\ stage = "resolve"
      /\ walk = [dirs |-> job.dirs, lto |-> job.lto, ordinal |-> 0, target |-> job.target,
                 depth |-> 0, sonames |-> {}, deferred |-> <<>>]
      /\ host = NoHost /\ live = {} /\ todo = {} /\ claims = <<>> /\ pass = 1
  BY DEF Init, InitInputs
<1>2. IsSequence(<<>>) /\ DOMAIN <<>> = {}
  BY SequenceEmpty
<1>3. Stored
  BY <1>1, <1>2, JobsAssumption DEF Stored, IsJob, OpenFailed
<1>4. Working /\ Deferring
  BY <1>1, <1>2 DEF Working, Deferring, WalkFields
<1>5. Listed /\ Alive
  BY <1>1, <1>2 DEF Listed, Alive, Ids
<1>6. Records /\ Claiming
  BY <1>1, <1>2 DEF Records, Claiming, HostFields, NoHost, SymbolsOfClaimer, Ids
<1>7. Resolved
  BY <1>1 DEF Resolved
<1> QED
  BY <1>3, <1>4, <1>5, <1>6, <1>7 DEF Sound

LEMMA NextSound ==
  ASSUME Sound, Opens, Next
  PROVE  Sound'
<1>1. CASE stage \notin {"failed", "done"}
  <2>1. Held
    BY <1>1 DEF Held, Going, Sound
  <2>2. Records'
    BY <2>1, RecordsStep
  <2>3. ASSUME stage' # "failed"
        PROVE  Stored' /\ Working' /\ Deferring' /\ Listed' /\ Alive' /\ Claiming' /\ Resolved'
    <3>1. Listed'
      BY <2>1, <2>3, ListedStep
    <3> QED
      BY <2>1, <2>3, <3>1, StoredStep, WorkingStep, DeferringStep, AliveStep, ClaimingStep, ResolvedStep
  <2> QED
    BY <2>2, <2>3 DEF Sound
<1>2. CASE stage = "failed"
  <2>1. stage' = "failed" /\ (BeginEnd \/ (\E b : CleanUp(b)) \/ EndSession \/ UNCHANGED host)
    BY <1>2 DEF Next, Collect, CollectStep, ResolveSpecs, OpenInput, PushInputs, LoadNext, NotLoaded,
      SkipIncompatible, AddObject, AddShared, AddArchive, AddScript, EndScript, AddOther, WalkDone, ReadIndex,
      FinishInputs, Ready, Adding, LtoStep, StartClaims, NamesDone, LoadRound, ClaimsDone, StartSession, StartPlugin,
      Offering, PluginLoadFailed, OfferFile, OfferToPlugin, EndOffer, TellPlugins, CompileIr, ReplaceIr, OfferObject,
      ObjectOffered, ObjectsOffered, AddLtoLibrary, PlanLibraries,
      LaterStageFails, BeginCleanUp, CleanUpPlugin, FinishLink, DropSession, inputVars,
      Environment, Rewrite, CancelLink, Stutter, vars, hostVars
  <2>2. Records'
    <3>1. CASE EndSession
      BY <3>1, EndRecords DEF Sound
    <3>2. CASE UNCHANGED host
      BY <3>2 DEF Sound, Records, SymbolsOfClaimer
    <3>3. CASE BeginEnd \/ \E b : CleanUp(b)
      BY <3>3, EndBegins, CleanUpRecords DEF Sound
    <3> QED
      BY <2>1, <3>1, <3>2, <3>3
  <2> QED
    BY <2>1, <2>2 DEF Sound
<1>3. CASE stage = "done"
  <2>1. UNCHANGED vars
    BY <1>3 DEF Next, Collect, CollectStep, ResolveSpecs, OpenInput, PushInputs, LoadNext, NotLoaded,
      SkipIncompatible, AddObject, AddShared, AddArchive, AddScript, EndScript, AddOther, WalkDone, ReadIndex,
      FinishInputs, Ready, Adding, LtoStep, StartClaims, NamesDone, LoadRound, ClaimsDone, StartSession, StartPlugin,
      Offering, PluginLoadFailed, OfferFile, OfferToPlugin, EndOffer, TellPlugins, CompileIr, ReplaceIr, OfferObject,
      ObjectOffered, ObjectsOffered, AddLtoLibrary, PlanLibraries,
      LaterStageFails, BeginCleanUp, CleanUpPlugin, FinishLink, DropSession,
      Environment, Rewrite, CancelLink, Stutter
  <2> QED
    BY <2>1, SoundSame
<1> QED
  BY <1>1, <1>2, <1>3

LEMMA SoundAlways == Spec => []Sound
<1>1. Init => Sound
  BY InitSound
<1>2. ASSUME Sound, Opens, [Next]_vars PROVE Sound'
  <2>1. CASE Next
    BY <1>2, <2>1, NextSound
  <2>2. CASE UNCHANGED vars
    BY <1>2, <2>2, SoundSame
  <2> QED
    BY <1>2, <2>1, <2>2
<1> QED
  BY <1>1, <1>2, OpensAlways, PTL DEF Spec

-----------------------------------------------------------------------------
(***************************************************************************)
(* The error that is returned                                              *)
(***************************************************************************)
LEMMA FirstBadLeast ==
  ASSUME Deferring, BadIndexes # {}
  PROVE  FirstBad \in BadIndexes /\ \A j \in BadIndexes : FirstBad <= j
<1>1. BadIndexes \subseteq Nat
  BY SequenceFacts DEF Deferring, BadIndexes
<1>2. \E k \in BadIndexes : \A j \in BadIndexes : k <= j
  BY <1>1, LeastNat
<1> QED
  BY <1>2 DEF FirstBad

LEMMA FinishReports ==
  ASSUME Deferring, NEW next, FinishInputs(next), stage' = "failed"
  PROVE  FirstErrorReported'
<1>1. UNCHANGED <<walk, job>> /\ err' = Finished
  BY DEF FinishInputs
<1>2. CASE BadIndexes = {}
  BY <1>1, <1>2 DEF FirstErrorReported, BadIndexes, BadIndex, MemberAt, Content
<1>3. CASE BadIndexes # {}
  <2>1. FirstBad \in BadIndexes /\ \A j \in BadIndexes : FirstBad <= j
    BY <1>3, FirstBadLeast
  <2>2. err'.at = walk.deferred[FirstBad].at
    BY <1>1, <1>3 DEF Finished
  <2>3. \A j \in BadIndexes : err'.at <= walk.deferred[j].at
    BY <2>1, <2>2 DEF Deferring, BadIndexes
  <2>4. \A c : BadIndex(c)' = BadIndex(c)
    BY <1>1 DEF BadIndex, MemberAt, Content
  <2> QED
    BY <1>1, <2>3, <2>4 DEF FirstErrorReported, BadIndexes
<1> QED
  BY <1>2, <1>3

(* FirstErrorReported: the walk and the parallel reading of the deferred   *)
(* indexes return the error the command line meets first, whichever they   *)
(* find first.                                                             *)
THEOREM FirstErrorReportedAlways == Spec => []FirstErrorReported
<1>1. Init => FirstErrorReported
  BY DEF Init, InitInputs, FirstErrorReported
<1>2. ASSUME FirstErrorReported, Sound, [Next]_vars PROVE FirstErrorReported'
  <2> SUFFICES ASSUME stage' = "failed" PROVE FirstErrorReported'
    BY DEF FirstErrorReported
  <2>1. CASE UNCHANGED <<walk, job, err, stage>>
    <3>1. \A c : BadIndex(c)' = BadIndex(c)
      BY <2>1 DEF BadIndex, MemberAt, Content
    <3> QED
      BY <1>2, <2>1, <3>1 DEF FirstErrorReported
  <2>2. CASE ResolveSpecs
    <3>1. UNCHANGED walk /\ Deferring /\ stage = "resolve"
      BY <1>2, <2>2 DEF ResolveSpecs, Sound
    <3> QED
      BY <3>1, SequenceEmpty DEF Deferring, FirstErrorReported
  <2>3. CASE FinishInputs(IF pass = 1 THEN "claim" ELSE "round")
    <3>1. Deferring
      BY <1>2, <2>3 DEF FinishInputs, Sound
    <3> QED
      BY <2>3, <3>1, FinishReports
  <2>4. CASE \E what : Fail(what)
    BY <2>4 DEF Fail, FirstErrorReported
  <2>5. CASE Collect
    BY <2>1, <2>2, <2>3, <2>5 DEF Collect, CollectStep, OpenInput, PushInputs, LoadNext, NotLoaded,
      SkipIncompatible, AddObject, AddShared, AddArchive, AddScript, EndScript, AddOther, WalkDone, ReadIndex,
      Stop, Ready, Adding, AddOne
  <2>6. CASE LtoStep
    BY <2>1, <2>4, <2>6 DEF LtoStep, StartClaims, NamesDone, LoadRound, ClaimsDone, StartSession, StartPlugin, Offering,
      PluginLoadFailed, OfferFile, OfferToPlugin, EndOffer, TellPlugins, CompileIr, ReplaceIr, OfferObject,
      ObjectOffered, ObjectsOffered, AddLtoLibrary, PlanLibraries,
      LaterStageFails, BeginCleanUp, CleanUpPlugin, FinishLink, DropSession, SetStage, inputVars
  <2>7. CASE Environment \/ Stutter \/ UNCHANGED vars
    BY <2>1, <2>7 DEF Environment, Stutter, vars, inputVars, Rewrite, CancelLink
  <2> QED
    BY <1>2, <2>5, <2>6, <2>7 DEF Next
<1> QED
  BY <1>1, <1>2, SoundAlways, PTL DEF Spec

-----------------------------------------------------------------------------
(***************************************************************************)
(* The libraries that stay                                                 *)
(***************************************************************************)
LEMMA CellsBound ==
  ASSUME Going, Resolved, stage = "resolved"
  PROVE  \A s \in Names :
           /\ CellOK(BindUnextracted(cell)[s], s)
           /\ SharedDefinitions(SharedFiles, s) # {} => BindUnextracted(cell)[s].kind # "Undefined"
<1>1. cell = [s \in Names |-> Best(s)] /\ SharedFiles \subseteq live
  <2>1. \A f \in SharedFiles : f \in Ids /\ files[f].start
    BY FileFacts DEF SharedFiles, FileOK
  <2> QED
    BY <2>1 DEF Resolved
<1>2. \A s \in Names : CellOK(cell[s], s)
  BY <1>1, BestCompetes DEF CellOK
<1>3. \A s \in Names : CellOK(BindUnextracted(cell)[s], s)
  BY <1>2, BindCells
<1>4. ASSUME NEW s \in Names, SharedDefinitions(SharedFiles, s) # {}
      PROVE  BindUnextracted(cell)[s].kind # "Undefined"
  <2>1. PICK d \in SharedDefinitions(SharedFiles, s) : TRUE
    BY <1>4
  <2>2. PICK f \in SharedFiles : \E i \in DOMAIN Syms(f) : Syms(f)[i].sym = s /\ Syms(f)[i].use = "Shared"
    BY <2>1 DEF SharedDefinitions
  <2>3. PICK i \in DOMAIN Syms(f) : Syms(f)[i].sym = s /\ Syms(f)[i].use = "Shared"
    BY <2>2
  <2>4. f \in live /\ IsDefinitionUse(Syms(f)[i].use)
    BY <1>1, <2>3 DEF IsDefinitionUse
  <2>5. Candidate(Syms(f)[i].use, f, i) \in Competing(s)
    BY <2>3, <2>4 DEF Competing
  <2>6. Best(s) \in Competing(s)
    BY <2>5, BestCompetes
  <2>7. cell[s].kind # "Undefined"
    BY <1>1, <2>6, CompetingFacts
  <2>8. SharedFiles \cap live \subseteq Ids
    BY DEF SharedFiles
  <2>9. SharedDefinitions(SharedFiles \cap live, s) # {} =>
          FirstOf(SharedDefinitions(SharedFiles \cap live, s)).kind = "Shared"
    BY <2>8, FirstOfShared
  <2> QED
    BY <2>7, <2>9 DEF BindUnextracted
<1> QED
  BY <1>3, <1>4

LEMMA PlannedBound ==
  ASSUME Going, Resolved, stage = "resolved",
         NEW nd, nd = PlanNeeded(BindUnextracted(cell), {}),
         NEW cl, cl = RebindUnneeded(BindUnextracted(cell), nd)
  PROVE  \A s \in Names :
           /\ cl[s].kind = "Shared" => cl[s].file \in nd
           /\ s \in StrongRefs(NativeFiles) /\ SharedDefinitions(SharedFiles, s) # {} => cl[s].kind # "Undefined"
<1> DEFINE bound == BindUnextracted(cell)
<1>1. \A s \in Names : CellOK(bound[s], s)
  BY CellsBound
<1>2. nd \in SUBSET SharedFiles
  BY DEF PlanNeeded
<1> HIDE DEF bound
<1>3. \A s \in Names : /\ RebindUnneeded(bound, nd)[s].kind = "Shared" => RebindUnneeded(bound, nd)[s].file \in nd
                       /\ Owner(bound, s) \subseteq nd => RebindUnneeded(bound, nd)[s] = bound[s]
  BY <1>1, <1>2, RebindCells
<1>4. ASSUME NEW s \in Names, s \in StrongRefs(NativeFiles), SharedDefinitions(SharedFiles, s) # {}
      PROVE  cl[s].kind # "Undefined"
  <2>1. Owner(bound, s) \subseteq Wanted(bound, {})
    BY <1>4 DEF Wanted
  <2>2. Owner(bound, s) \subseteq SharedFiles
    <3>1. bound[s].kind = "Shared" => bound[s].file \in SharedFiles
      <4>1. CASE bound[s] \in Competing(s)
        BY <4>1, CompetingFacts DEF SharedFiles
      <4>2. CASE bound[s] = UndefinedDefinition
        BY <4>2 DEF UndefinedDefinition
      <4> QED
        BY <1>1, <1>4, <4>1, <4>2 DEF CellOK
    <3> QED
      BY <3>1 DEF Owner
  <2>3. Owner(bound, s) \subseteq nd
    <3>1. nd = PlanNeeded(bound, {})
      BY DEF bound
    <3> QED
      BY <2>1, <2>2, <3>1 DEF PlanNeeded
  <2>4. cl[s] = bound[s]
    BY <1>3, <2>3 DEF bound
  <2>5. bound[s].kind # "Undefined"
    BY <1>4, CellsBound DEF bound
  <2> QED
    BY <2>4, <2>5
<1>5. \A s \in Names : cl[s].kind = "Shared" => cl[s].file \in nd
  BY <1>3 DEF bound
<1> QED
  BY <1>4, <1>5

(* What the libraries and the native files refer to and define. *)
LEMMA NativeSame ==
  ASSUME UNCHANGED <<files, live, job, table>>,
         \A f \in Ids : files[f].ir = 0 => Syms(f)' = Syms(f),
         \A f \in Ids : files[f].role = "shared" => files[f].ir = 0
  PROVE  /\ \A s : SharedDefinitions(SharedFiles, s)' = SharedDefinitions(SharedFiles, s)
         /\ live \subseteq Ids => StrongRefs(NativeFiles)' = StrongRefs(NativeFiles)
<1>1. SharedFiles' = SharedFiles /\ NativeFiles' = NativeFiles
  BY DEF SharedFiles, NativeFiles, Ids
<1>2. \A f \in SharedFiles : Syms(f)' = Syms(f)
  BY DEF SharedFiles
<1>3. \A kind, f, i : Candidate(kind, f, i)' = Candidate(kind, f, i)
  BY DEF Candidate, PositionOf
<1>4. ASSUME NEW s PROVE SharedDefinitions(SharedFiles, s)' = SharedDefinitions(SharedFiles, s)
  <2> DEFINE Df(f) == {Candidate("Shared", f, i) :
                         i \in {j \in DOMAIN Syms(f) : Syms(f)[j].sym = s /\ Syms(f)[j].use = "Shared"}}
  <2>1. \A f \in SharedFiles : Df(f)' = Df(f)
    BY <1>2, <1>3
  <2>2. /\ SharedDefinitions(SharedFiles, s) = UNION {Df(f) : f \in SharedFiles}
        /\ SharedDefinitions(SharedFiles, s)' = UNION {Df(f)' : f \in SharedFiles'}
    BY DEF SharedDefinitions
  <2> HIDE DEF Df
  <2> QED
    BY <1>1, <2>1, <2>2
<1>5. ASSUME live \subseteq Ids PROVE StrongRefs(NativeFiles)' = StrongRefs(NativeFiles)
  <2>1. \A f \in NativeFiles : Syms(f)' = Syms(f)
    BY <1>5 DEF NativeFiles
  <2>2. \A f \in NativeFiles : References(f, "Reference")' = References(f, "Reference")
    BY <2>1 DEF References
  <2>3. /\ StrongRefs(NativeFiles) = UNION {References(f, "Reference") : f \in NativeFiles}
        /\ StrongRefs(NativeFiles)' = UNION {References(f, "Reference")' : f \in NativeFiles'}
    BY DEF StrongRefs
  <2> QED
    BY <1>1, <2>2, <2>3
<1> QED
  BY <1>4, <1>5

(* NeededLibrariesBound: rebind_unneeded leaves nothing with a library the *)
(* output does not load, and plan_needed_with keeps the library of every   *)
(* strong reference, before and after LTO.                                 *)
THEOREM NeededLibrariesBoundAlways == Spec => []NeededLibrariesBound
<1>1. Init => NeededLibrariesBound
  BY DEF Init, InitInputs, NeededLibrariesBound
<1>2. ASSUME NeededLibrariesBound, Sound, [Next]_vars PROVE NeededLibrariesBound'
  <2> SUFFICES ASSUME stage' \in {"planned", "done"} PROVE NeededLibrariesBound'
    BY DEF NeededLibrariesBound
  <2>1. \/ PlanLibraries
        \/ FinishLink \/ BeginCleanUp \/ CleanUpPlugin
        \/ UNCHANGED vars
    <3>1. CASE Collect
      BY <3>1 DEF Collect, CollectStep, ResolveSpecs, OpenInput, PushInputs, LoadNext, NotLoaded,
        SkipIncompatible, AddObject, AddShared, AddArchive, AddScript, EndScript, AddOther, WalkDone, ReadIndex,
        FinishInputs, Stop, Ready, Adding, AddOne
    <3>2. CASE LtoStep
      BY <3>2 DEF LtoStep, StartClaims, NamesDone, LoadRound, ClaimsDone, StartSession, StartPlugin, Offering,
        PluginLoadFailed, OfferFile, OfferToPlugin, EndOffer, TellPlugins, CompileIr, ReplaceIr, OfferObject,
        ObjectOffered, ObjectsOffered, AddLtoLibrary, LaterStageFails, DropSession, SetStage, Fail, inputVars
    <3>3. CASE Environment
      BY <3>3 DEF Environment, Rewrite, CancelLink
    <3>4. CASE Stutter
      BY <3>4 DEF Stutter
    <3> QED
      BY <1>2, <3>1, <3>2, <3>3, <3>4 DEF Next
  <2>2. CASE PlanLibraries
    <3>1. /\ stage = "resolved" /\ stage' = "planned"
          /\ needed' = PlanNeeded(BindUnextracted(cell), {})
          /\ cell' = RebindUnneeded(BindUnextracted(cell), needed')
          /\ UNCHANGED <<files, live, job, table, host, claims>>
      BY <2>2 DEF PlanLibraries, SetStage, hostVars
    <3>2. Going /\ Resolved
      BY <1>2, <3>1 DEF Sound, Going
    <3>3. \A s \in Names :
            /\ cell'[s].kind = "Shared" => cell'[s].file \in needed'
            /\ s \in StrongRefs(NativeFiles) /\ SharedDefinitions(SharedFiles, s) # {} => cell'[s].kind # "Undefined"
      BY <3>1, <3>2, PlannedBound
    <3>4. \A f \in Ids : /\ Syms(f)' = Syms(f)
                         /\ files[f].role = "shared" => files[f].ir = 0
      BY <3>1, <3>2, SymsSame, FileFacts DEF FileOK
    <3>5. live \subseteq Ids
      BY <3>2 DEF Going, Alive
    <3>6. /\ \A s : SharedDefinitions(SharedFiles, s)' = SharedDefinitions(SharedFiles, s)
          /\ StrongRefs(NativeFiles)' = StrongRefs(NativeFiles)
      BY <3>1, <3>4, <3>5, NativeSame
    <3> QED
      BY <3>3, <3>6 DEF NeededLibrariesBound
  <2>3. CASE FinishLink \/ BeginCleanUp \/ CleanUpPlugin \/ UNCHANGED vars
    <3>1. /\ stage \in {"planned", "done"} /\ UNCHANGED <<files, live, job, table, cell, needed>>
      BY <2>3 DEF FinishLink, BeginCleanUp, CleanUpPlugin, Fail, SetStage, Unchanged2, ltoVars, vars, inputVars
    <3>2. Listed /\ live \subseteq Ids
      BY <1>2, <3>1 DEF Sound, Alive
    <3>3. \A f \in Ids : files[f].role = "shared" => files[f].ir = 0
      BY <3>2 DEF Listed, FileOK
    <3>4. \A f \in Ids : files[f].ir = 0 => Syms(f)' = Syms(f)
      BY <3>1 DEF Syms, ContentOf, Content
    <3>5. /\ \A s : SharedDefinitions(SharedFiles, s)' = SharedDefinitions(SharedFiles, s)
          /\ StrongRefs(NativeFiles)' = StrongRefs(NativeFiles)
      BY <3>1, <3>2, <3>3, <3>4, NativeSame
    <3> QED
      BY <1>2, <3>1, <3>5 DEF NeededLibrariesBound
  <2> QED
    BY <2>1, <2>2, <2>3
<1> QED
  BY <1>1, <1>2, SoundAlways, PTL DEF Spec

-----------------------------------------------------------------------------
(***************************************************************************)
(* What prevails                                                           *)
(***************************************************************************)
LEMMA WonByIr ==
  ASSUME Going, NEW s \in Names, NEW d, CellOK(d, s)
  PROVE  /\ Winner(d) \in {"undefined", "shared", "ir", "regular"}
         /\ Winner(d) = "ir" =>
              /\ d.file \in live /\ d.file \in Ids /\ files[d.file].ir # 0
              /\ d.index \in DOMAIN Syms(d.file) /\ Syms(d.file)[d.index].sym = s
              /\ IsDefinitionUse(Syms(d.file)[d.index].use)
<1>1. CASE d \in Competing(s)
  BY <1>1, CompetingFacts DEF Winner, IsDefinitionUse
<1>2. CASE d = UndefinedDefinition
  BY <1>2 DEF UndefinedDefinition, Winner
<1>3. CASE d.kind = "Shared"
  BY <1>3 DEF Winner
<1> QED
  BY <1>1, <1>2, <1>3 DEF CellOK

LEMMA ResolutionPrevails ==
  ASSUME Going, NEW cl, \A s \in Names : CellOK(cl[s], s), NEW f \in Ids, NEW i \in DOMAIN Syms(f)
  PROVE  LET d == cl[Syms(f)[i].sym] IN
         FileResolution(f, cl)[i] \in Prevailing <=>
           IsDefinitionUse(Syms(f)[i].use) /\ Winner(d) = "ir" /\ d.file = f /\ d.index = i
<1> DEFINE e == Syms(f)[i]
           d == cl[e.sym]
           fact == [undefined |-> ~IsDefinitionUse(e.use), winner |-> Winner(d),
                    prevailing |-> ~ ~IsDefinitionUse(e.use) /\ Winner(d) = "ir" /\ d.file = f /\ d.index = i,
                    regular |-> e.sym \in LtoRegular, dynamic |-> e.sym \in LtoDynamic,
                    hidden |-> e.hidden \/ e.sym \in LtoHidden, listed |-> e.sym \in job.listed,
                    scriptLocal |-> e.sym \in job.scriptLocal, wrapped |-> e.sym \in job.wrapped]
<1>1. FileResolution(f, cl)[i] = SymbolResolution(fact)
  BY DEF FileResolution
<1>2. e.sym \in Names
  BY SymbolFacts
<1>3. Winner(d) \in {"undefined", "shared", "ir", "regular"}
  BY <1>2, WonByIr
<1>4. /\ fact.undefined = ~IsDefinitionUse(e.use) /\ fact.winner = Winner(d)
      /\ fact.prevailing <=> IsDefinitionUse(e.use) /\ Winner(d) = "ir" /\ d.file = f /\ d.index = i
  OBVIOUS
<1> HIDE DEF fact, d, e
<1>5. CASE fact.undefined
  <2>1. SymbolResolution(fact) \in {"undefined", "resolved ir", "resolved exec", "resolved dyn"}
    BY <1>3, <1>4, <1>5 DEF SymbolResolution
  <2> QED
    BY <1>1, <1>4, <1>5, <2>1 DEF Prevailing, d, e
<1>6. CASE ~fact.undefined /\ ~fact.prevailing
  <2>1. SymbolResolution(fact) \in {"preempted ir", "preempted"}
    BY <1>6 DEF SymbolResolution
  <2> QED
    BY <1>1, <1>4, <1>6, <2>1 DEF Prevailing, d, e
<1>7. CASE ~fact.undefined /\ fact.prevailing
  <2>1. SymbolResolution(fact) \in Prevailing
    BY <1>7 DEF SymbolResolution, Prevailing
  <2> QED
    BY <1>1, <1>4, <1>7, <2>1 DEF d, e
<1> QED
  BY <1>5, <1>6, <1>7

LEMMA TellPluginsPrevailing ==
  ASSUME Held, TellPlugins
  PROVE  OnePrevailing'
<1>1. /\ UNCHANGED <<files, live, claims>> /\ \A s \in Names : CellOK(cell'[s], s)
  BY ToldTable
<1>2. first'.ir = {s \in Names : Winner(cell'[s]) = "ir"}
  BY ToldTable
<1>3. DOMAIN host'.files = DOMAIN host.files
      /\ \A k \in DOMAIN host.files : host'.files[k].symbols = host.files[k].symbols
  BY ToldRecords
<1>4. \A k \in DOMAIN host.files : host'.files[k].resolution # <<>> =>
        \E i \in DOMAIN claims :
           /\ k = claims[i] /\ Included(i)
           /\ Syms(host.files[k].handle) = host.files[k].symbols[1].syms
           /\ host'.files[k].resolution = FileResolution(host.files[k].handle, cell')
  BY ToldRecords
<1>5. \A i \in DOMAIN claims : Included(i) =>
        host'.files[claims[i]].resolution = FileResolution(host.files[claims[i]].handle, cell')
  BY ToldRecords
<1>6. /\ Going /\ live \subseteq Ids /\ stage # "done"
      /\ \A f \in Ids : files[f].ir # 0 =>
            /\ files[f].ir \in DOMAIN claims /\ claims[files[f].ir] \in DOMAIN host.files
            /\ host.files[claims[files[f].ir]].handle = f
  BY DEF Held, Going, Alive, Claiming
<1>7. ASSUME NEW s \in Names
      PROVE  Cardinality(PrevailingAs(s)') = IF s \in first'.ir THEN 1 ELSE 0
  <2> DEFINE d == cell'[s]
             k0 == claims[files[d.file].ir]
             P == PrevailingAs(s)'
  <2>1. ASSUME NEW x \in P
        PROVE  Winner(d) = "ir" /\ x = <<k0, d.index>>
    <3>1. PICK k \in DOMAIN host.files : \E i \in DOMAIN host'.files[k].resolution :
             /\ x = <<k, i>> /\ host'.files[k].resolution[i] \in Prevailing
             /\ host.files[k].symbols[1].syms[i].sym = s
      BY <1>3, <2>1 DEF PrevailingAs
    <3>2. PICK i \in DOMAIN host'.files[k].resolution :
             /\ x = <<k, i>> /\ host'.files[k].resolution[i] \in Prevailing
             /\ host.files[k].symbols[1].syms[i].sym = s
      BY <3>1
    <3>3. host'.files[k].resolution # <<>>
      BY <3>2, SequenceEmpty
    <3>4. PICK c \in DOMAIN claims :
             /\ k = claims[c] /\ Included(c)
             /\ Syms(host.files[k].handle) = host.files[k].symbols[1].syms
             /\ host'.files[k].resolution = FileResolution(host.files[k].handle, cell')
      BY <1>4, <3>3
    <3> DEFINE f == host.files[k].handle
    <3>5. files[f].ir = c /\ f \in live /\ f \in Ids
      BY <1>6, <3>4 DEF Included
    <3>6. i \in DOMAIN Syms(f) /\ Syms(f)[i].sym = s /\ FileResolution(f, cell')[i] \in Prevailing
      BY <3>2, <3>4 DEF FileResolution
    <3> HIDE DEF f
    <3>7. Winner(d) = "ir" /\ d.file = f /\ d.index = i
      BY <1>1, <1>6, <3>5, <3>6, ResolutionPrevails
    <3> QED
      BY <3>2, <3>4, <3>5, <3>7
  <2>2. ASSUME Winner(d) = "ir"
        PROVE  <<k0, d.index>> \in P
    <3> DEFINE f == d.file
               i == d.index
    <3>1. /\ f \in live /\ f \in Ids /\ files[f].ir # 0
          /\ i \in DOMAIN Syms(f) /\ Syms(f)[i].sym = s /\ IsDefinitionUse(Syms(f)[i].use)
      BY <1>1, <1>6, <2>2, WonByIr
    <3>2. files[f].ir \in DOMAIN claims /\ k0 \in DOMAIN host.files /\ host.files[k0].handle = f
      BY <1>6, <3>1
    <3>3. Included(files[f].ir)
      BY <3>1, <3>2 DEF Included
    <3>4. host'.files[k0].resolution = FileResolution(f, cell')
      BY <1>5, <3>2, <3>3
    <3>5. FileResolution(f, cell')[i] \in Prevailing
      BY <1>1, <1>6, <2>2, <3>1, ResolutionPrevails
    <3>6. i \in DOMAIN host'.files[k0].resolution
      BY <3>1, <3>4 DEF FileResolution
    <3>7. host'.files[k0].resolution # <<>>
      BY <3>6, SequenceEmpty
    <3>8. Syms(f) = host.files[k0].symbols[1].syms
      BY <1>4, <3>2, <3>7
    <3>9. /\ k0 \in DOMAIN host'.files /\ i \in DOMAIN host'.files[k0].resolution
          /\ host'.files[k0].resolution[i] \in Prevailing
          /\ host'.files[k0].symbols[1].syms[i].sym = s
      BY <1>3, <3>1, <3>2, <3>4, <3>5, <3>6, <3>8
    <3> HIDE DEF k0, i
    <3>10. <<k0, i>> \in P
      BY <3>9 DEF PrevailingAs
    <3> QED
      BY <3>10 DEF i
  <2>3. CASE Winner(d) = "ir"
    <3>1. P = {<<k0, d.index>>}
      <4> HIDE DEF P, k0, d
      <4> QED
        BY <2>1, <2>2, <2>3
    <3>2. s \in first'.ir
      BY <1>2, <2>3
    <3>3. Cardinality(P) = 1
      <4> HIDE DEF P, k0, d
      <4> QED
        BY <3>1, FS_Singleton
    <3> QED
      BY <3>2, <3>3
  <2>4. CASE Winner(d) # "ir"
    <3>1. P = {}
      <4> HIDE DEF P, k0, d
      <4> QED
        BY <2>1, <2>4
    <3>2. s \notin first'.ir
      BY <1>2, <2>4
    <3>3. Cardinality(P) = 0
      <4> HIDE DEF P
      <4> QED
        BY <3>1, FS_EmptySet
    <3> QED
      BY <3>2, <3>3
  <2> QED
    BY <2>3, <2>4
<1> QED
  BY <1>7 DEF OnePrevailing

(* ClaimsSound: whatever plugins described before they declined a file,    *)
(* and however often a file was claimed, a record holds the symbols of its *)
(* claimer, and the plugins are told of exactly one prevailing definition  *)
(* for each symbol the IR won.                                             *)
THEOREM ClaimsSoundAlways == Spec => []ClaimsSound
<1>1. Init => OnePrevailing
  BY DEF Init, InitInputs, OnePrevailing
<1>2. ASSUME OnePrevailing, Sound, Opens, [Next]_vars PROVE OnePrevailing'
  <2> SUFFICES ASSUME stage' = "symbols" PROVE OnePrevailing'
    BY DEF OnePrevailing
  <2>1. CASE TellPlugins
    <3>1. Held
      BY <1>2, <2>1 DEF Held, Going, Sound, TellPlugins
    <3> QED
      BY <2>1, <3>1, TellPluginsPrevailing
  <2>2. CASE ~TellPlugins
    <3>1. stage = "symbols" /\ UNCHANGED first /\ (CompileIr \/ UNCHANGED host)
      <4>1. CASE Collect
        BY <4>1 DEF Collect, CollectStep, ResolveSpecs, OpenInput, PushInputs, LoadNext, NotLoaded,
          SkipIncompatible, AddObject, AddShared, AddArchive, AddScript, EndScript, AddOther, WalkDone, ReadIndex,
          FinishInputs, Stop, Ready, Adding, AddOne
      <4>2. CASE LtoStep
        BY <2>2, <4>2 DEF LtoStep, StartClaims, NamesDone, LoadRound, ClaimsDone, StartSession, StartPlugin, Offering,
          PluginLoadFailed, OfferFile, OfferToPlugin, EndOffer, CompileIr, ReplaceIr, OfferObject, PlanLibraries,
          LaterStageFails, BeginCleanUp, CleanUpPlugin, FinishLink,
          ObjectOffered, ObjectsOffered, AddLtoLibrary, DropSession, SetStage, Fail, inputVars, Unchanged2, ltoVars
      <4>3. CASE Environment \/ Stutter \/ UNCHANGED vars
        BY <4>3 DEF Environment, Rewrite, CancelLink, Stutter, vars, inputVars, hostVars, ltoVars, Unchanged2
      <4> QED
        BY <1>2, <4>1, <4>2, <4>3 DEF Next
    <3>2. host'.files = host.files
      <4>1. CASE CompileIr
        BY <1>2, <4>1, HandlerRecords DEF CompileIr, Sound
      <4> QED
        BY <3>1, <4>1
    <3>3. \A s : PrevailingAs(s)' = PrevailingAs(s)
      BY <3>2 DEF PrevailingAs, Prevailing
    <3> QED
      BY <1>2, <3>1, <3>3 DEF OnePrevailing
  <2> QED
    BY <2>1, <2>2
<1>3. OnePrevailing /\ Sound => ClaimsSound
  BY DEF Sound, Records, ClaimsSound
<1> QED
  BY <1>1, <1>2, <1>3, OpensAlways, SoundAlways, PTL DEF Spec
=============================================================================
