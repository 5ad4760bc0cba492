------------------------- MODULE SighupReloadProofs -------------------------
(***************************************************************************)
(* Safety of the SIGHUP handler for every set of files, flags, tokens and   *)
(* requests.  IInv adds to the properties what the goroutine knows at each  *)
(* of its program points, and that a request waiting for the provider       *)
(* carries a validated configuration that names an issuer.                  *)
(***************************************************************************)
EXTENDS SighupReload, TLAPS

\* newConfig is a file that passed validation once it was applied, the MCP
\* server already has it, then cfgState, and a provider is only built when
\* its settings changed.
Locals ==
    /\ pc \in {"wait", "read", "apply", "log", "publish", "compare", "oidc",
              "hung", "done"}
    /\ disk \in File \cup {Unreadable}
    /\ pc \in {"apply", "log", "publish", "compare", "oidc", "hung"} =>
          newConfig \in File
    /\ pc \in {"log", "publish", "compare", "oidc", "hung"} =>
          Valid(newConfig) /\ configuration = newConfig
    /\ pc \in {"compare", "oidc", "hung"} => cfgState = newConfig
    /\ pc \in {"oidc", "hung"} => HasProviderConfigChanged(oauthState,
                          SnapshotFromConfig(newConfig, oauthState.provider))

Published == cfgState \in Config /\ Valid(cfgState)

Stopping ==
    /\ main \in {"serving", "stopping", "drained", "exited"}
    /\ main \in {"drained", "exited"} => pc = "done"
    /\ sinkClosed => main = "exited" /\ sink = Stderr

Requests ==
    /\ request = [q \in Request |-> request[q]]
    /\ \A q \in Request : request[q].at = "verify" =>
          request[q].config["authorizationURL"] # Unset

IInv == /\ Locals /\ Published /\ Stopping /\ Requests
        /\ SnapshotIsWhole /\ ReloadedTogether /\ NeverMisconfigured

\* Two configurations with the same settings of the provider share a provider,
\* given the same require_tls.
LEMMA SameProvider ==
    ASSUME NEW c, NEW d, NEW r,
           c["authorizationURL"] = d["authorizationURL"],
           c["certificateAuthority"] = d["certificateAuthority"]
    PROVE  Provider(c, r) = Provider(d, r)
BY DEF Provider

\* A snapshot whose provider has just been created belongs to its configuration.
LEMMA JustBuilt ==
    ASSUME NEW c \in Config
    PROVE  BuiltFor(SnapshotFromConfig(c, NewProvider(c)), c)
BY DEF BuiltFor, NewProvider, RequireTLS

\* A request that has to ask the provider loaded a configuration with an
\* issuer, because the published configuration is valid.
LEMMA VerifyHasIssuer ==
    ASSUME NEW c, NEW t, Valid(c), Offline(c, t) = Nil
    PROVE  c["authorizationURL"] # Unset
<1> SUFFICES ASSUME c["authorizationURL"] = Unset
             PROVE  FALSE
  OBVIOUS
<1>1. CASE ~c["requireOAuth"]
  BY <1>1, NilAssumption DEF Offline
<1>2. CASE c["requireOAuth"] /\ t.kind = "none"
  BY <1>2, NilAssumption DEF Offline
<1>3. CASE c["requireOAuth"] /\ t.kind # "none"
  BY <1>3, NilAssumption DEF Offline, Valid
<1> QED
  BY <1>1, <1>2, <1>3

\* IInv holds at the start.
LEMMA InitIInv == Init => IInv
<1> SUFFICES ASSUME Init
             PROVE  IInv
  OBVIOUS
<1> PICK g \in Flags, f \in File, h \in BOOLEAN :
        /\ disk = f /\ main = "serving" /\ pc = "wait"
        /\ Valid(Complete(g, f, h))
        /\ configuration = Complete(g, f, h)
        /\ sinkClosed = FALSE
        /\ cfgState = Complete(g, f, h)
        /\ oauthState = SnapshotFromConfig(Complete(g, f, h),
                                           NewProvider(Complete(g, f, h)))
        /\ request = [q \in Request |-> NoRequest]
  BY DEF Init
<1>1. Complete(g, f, h) \in Config
  BY DEF Config
<1>2. Locals /\ Published /\ Stopping
  BY <1>1 DEF Locals, Published, Stopping
<1>3. Requests /\ NeverMisconfigured
  BY NilAssumption DEF Requests, NeverMisconfigured, NoRequest
<1>4. SnapshotIsWhole /\ ReloadedTogether
  BY <1>1, JustBuilt DEF SnapshotIsWhole, ReloadedTogether
<1> QED
  BY <1>2, <1>3, <1>4 DEF IInv

\* IInv is kept by every step.
LEMMA NextIInv == IInv /\ [Next]_vars => IInv'
<1> SUFFICES ASSUME IInv, [Next]_vars
             PROVE  IInv'
  OBVIOUS
<1> USE DEF IInv, processVars, liveVars
\* Steps that touch neither the goroutine nor what it and the requests share.
<1>1. CASE EditFile \/ IssuersChange \/ Signal
  BY <1>1 DEF EditFile, IssuersChange, Signal, Locals, Published, Stopping,
              Requests, SnapshotIsWhole, ReloadedTogether, NeverMisconfigured
<1>2. CASE Receive \/ HandlerExits
  BY <1>2 DEF Receive, HandlerExits, Locals, Published, Stopping, Requests,
              SnapshotIsWhole, ReloadedTogether, NeverMisconfigured
<1>3. CASE ReadConfig
  BY <1>3 DEF ReadConfig, Continue, Locals, Published, Stopping, Requests,
              SnapshotIsWhole, ReloadedTogether, NeverMisconfigured
<1>4. CASE ApplyConfiguration
  BY <1>4 DEF ApplyConfiguration, Continue, Locals, Published, Stopping, Requests,
              SnapshotIsWhole, ReloadedTogether, NeverMisconfigured
<1>5. CASE ReloadLog
  BY <1>5 DEF ReloadLog, Locals, Published, Stopping, Requests,
              SnapshotIsWhole, ReloadedTogether, NeverMisconfigured
<1>6. CASE PublishConfig
  <2>1. newConfig \in Config
    BY <1>6 DEF PublishConfig, Locals, Config
  <2> QED
    BY <1>6, <2>1 DEF PublishConfig, Locals, Published, Stopping, Requests,
              SnapshotIsWhole, ReloadedTogether, NeverMisconfigured
<1>7. CASE CompareSnapshots
  <2> DEFINE new == SnapshotFromConfig(newConfig, oauthState.provider)
  <2> USE <1>7
  <2>1. /\ newConfig \in Config
        /\ cfgState = newConfig
        /\ configuration = newConfig
        /\ UNCHANGED <<main, disk, configuration, sink, sinkClosed, cfgState,
                       request>>
    BY DEF CompareSnapshots, Locals, Config
  <2>2. CASE HasProviderConfigChanged(oauthState, new)
    <3>1. pc' = "oidc" /\ UNCHANGED <<newConfig, oauthState>>
      BY <2>2 DEF CompareSnapshots
    <3> QED
      BY <2>1, <2>2, <3>1 DEF CompareSnapshots, Locals, Published, Stopping,
              Requests, SnapshotIsWhole, ReloadedTogether, NeverMisconfigured
  <2>3. CASE ~HasProviderConfigChanged(oauthState, new)
    <3>1. /\ pc' = "wait"
          /\ oauthState' = IF HasWellKnownConfigChanged(oauthState, new)
                           THEN new ELSE oauthState
      BY <2>3 DEF CompareSnapshots, Continue
    <3>2. PICK c \in Config, r \in RequireTLS :
             oauthState = SnapshotFromConfig(c, Provider(c, r))
      BY DEF SnapshotIsWhole, BuiltFor
    <3>3. /\ c["authorizationURL"] = newConfig["authorizationURL"]
          /\ c["certificateAuthority"] = newConfig["certificateAuthority"]
      BY <2>3, <3>2 DEF HasProviderConfigChanged, SnapshotFromConfig
    <3>4. oauthState.provider = Provider(newConfig, r)
      BY <3>2, <3>3, SameProvider DEF SnapshotFromConfig
    <3>5. BuiltFor(oauthState', newConfig)
      <4>1. oauthState' = SnapshotFromConfig(newConfig, Provider(newConfig, r))
        BY <2>3, <3>1, <3>2, <3>3, <3>4
           DEF HasWellKnownConfigChanged, SnapshotFromConfig
      <4> QED
        BY <4>1 DEF BuiltFor
    <3>6. SnapshotIsWhole' /\ ReloadedTogether'
      BY <2>1, <3>5 DEF SnapshotIsWhole, ReloadedTogether
    <3> QED
      BY <2>1, <3>1, <3>6 DEF Locals, Published, Stopping, Requests,
              NeverMisconfigured, CompareSnapshots
  <2> QED
    BY <2>2, <2>3
<1>8. CASE CreateOIDCProviderAndClient /\ pc' = "hung"
  <2>1. UNCHANGED <<newConfig, oauthState>>
    BY <1>8 DEF CreateOIDCProviderAndClient, Continue
  <2> QED
    BY <1>8, <2>1 DEF CreateOIDCProviderAndClient, Locals, Published, Stopping,
              Requests, SnapshotIsWhole, ReloadedTogether, NeverMisconfigured
<1>8a. CASE \/ CreateOIDCProviderAndClient /\ pc' # "hung"
            \/ DiscoveryEnds
  <2> USE <1>8a
  <2>1. /\ newConfig \in Config
        /\ cfgState = newConfig
        /\ configuration = newConfig
        /\ pc' = "wait"
        /\ UNCHANGED <<main, disk, configuration, sink, sinkClosed, cfgState,
                       request>>
    BY DEF CreateOIDCProviderAndClient, DiscoveryEnds, Continue, Locals, Config
  <2>2. oauthState' = Discovered \/ oauthState' = oauthState
    BY DEF CreateOIDCProviderAndClient, DiscoveryEnds
  <2>3. oauthState' = Discovered => BuiltFor(oauthState', newConfig)
    BY <2>1, JustBuilt DEF Discovered
  <2>4. SnapshotIsWhole'
    BY <2>1, <2>2, <2>3 DEF SnapshotIsWhole
  <2>5. HasProviderConfigChanged(oauthState,
            SnapshotFromConfig(newConfig, oauthState.provider))
    BY DEF CreateOIDCProviderAndClient, DiscoveryEnds, Locals
  <2>6. ReloadedTogether'
    BY <2>1, <2>2, <2>3, <2>5 DEF ReloadedTogether
  <2> QED
    BY <2>1, <2>4, <2>6 DEF Locals, Published, Stopping, Requests,
              NeverMisconfigured, CreateOIDCProviderAndClient, DiscoveryEnds
<1>9. CASE StopBegins \/ StopEnds \/ CloseSink
  BY <1>9 DEF StopBegins, StopEnds, CloseSink, Locals, Published, Stopping,
              Requests, SnapshotIsWhole, ReloadedTogether, NeverMisconfigured
<1>10. ASSUME NEW q \in Request, Authorize(q)
       PROVE  IInv'
  <2> USE <1>10
  <2>1. PICK t \in Token :
           request' = [request EXCEPT ![q] =
               IF Offline(cfgState, t) = Nil
               THEN [NoRequest EXCEPT !.at = "verify", !.token = t,
                                      !.config = cfgState]
               ELSE [NoRequest EXCEPT !.at = "answered",
                                      !.answer = Offline(cfgState, t)]]
    BY DEF Authorize
  <2>2. Offline(cfgState, t) = Nil => cfgState["authorizationURL"] # Unset
    BY VerifyHasIssuer DEF Published
  <2>3. Offline(cfgState, t) # "misconfigured"
    BY NilAssumption DEF Offline
  <2>4. Requests'
    BY <2>1, <2>2 DEF Requests, NoRequest
  <2>5. NeverMisconfigured'
    BY <2>1, <2>3, NilAssumption DEF Requests, NeverMisconfigured, NoRequest
  <2> QED
    BY <2>4, <2>5 DEF Authorize, Locals, Published, Stopping, SnapshotIsWhole,
              ReloadedTogether
<1>11. ASSUME NEW q \in Request, Verify(q)
       PROVE  IInv'
  <2> USE <1>11
  <2> DEFINE answer == Online(request[q].config, oauthState.provider,
                              request[q].token)
  <2>1. answer # "misconfigured"
    BY DEF Verify, Requests, Online
  <2>2. request' = [request EXCEPT ![q] =
               [NoRequest EXCEPT !.at = "answered",
                                 !.answer = answer,
                                 !.agrees = oauthState.provider
                                              = NewProvider(request[q].config)]]
    BY DEF Verify
  <2>3. Requests' /\ NeverMisconfigured'
    BY <2>1, <2>2 DEF Requests, NeverMisconfigured, NoRequest
  <2> QED
    BY <2>3 DEF Verify, Locals, Published, Stopping, SnapshotIsWhole,
              ReloadedTogether
<1>12. ASSUME NEW q \in Request, Answer(q)
       PROVE  IInv'
  <2>1. Requests' /\ NeverMisconfigured'
    BY <1>12, NilAssumption DEF Answer, Requests, NeverMisconfigured, NoRequest
  <2> QED
    BY <1>12, <2>1 DEF Answer, Locals, Published, Stopping, SnapshotIsWhole,
              ReloadedTogether
<1>13. CASE UNCHANGED vars
  BY <1>13 DEF vars, Locals, Published, Stopping, Requests, SnapshotIsWhole,
              ReloadedTogether, NeverMisconfigured
<1> QED
  BY <1>1, <1>2, <1>3, <1>4, <1>5, <1>6, <1>7, <1>8, <1>9, <1>10, <1>11, <1>12,
     <1>13, <1>8a DEF Next, Handler, Shutdown, Terminated

\* IInv is an invariant of every behaviour.
LEMMA Invariant == Spec => []IInv
BY InitIInv, NextIInv, PTL DEF Spec

\* A stored OAuth snapshot's provider and client were built from the settings
\* the snapshot holds.
THEOREM WholeSnapshots == Spec => []SnapshotIsWhole
BY Invariant, PTL DEF IInv

\* Between reloads the MCP server and the middleware have one configuration
\* and a stale OAuth snapshot is one the next SIGHUP notices, but for the
\* require_tls of its client.
THEOREM ReloadsTogether == Spec => []ReloadedTogether
BY Invariant, PTL DEF IInv

\* No request gets the 500 for a missing JWT verification set-up.
THEOREM AlwaysConfigured == Spec => []NeverMisconfigured
BY Invariant, PTL DEF IInv

\* No reload touches the log sink after its deferred Close.
THEOREM SinkLast == Spec => []SinkOutlivesHandler
<1>1. IInv => SinkOutlivesHandler
  BY DEF IInv, Stopping, SinkOutlivesHandler
<1> QED
  BY <1>1, Invariant, PTL
=============================================================================
