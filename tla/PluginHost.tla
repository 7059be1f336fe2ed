----------------------------- MODULE PluginHost -----------------------------
(***************************************************************************)
(* The connector catalog (internal/connectorcatalog/catalog.go) and its      *)
(* plugin host (internal/connectors/plugin): the plugins of the              *)
(* configuration are started, asked for their platform and registered one   *)
(* after the other; connectors of several jobs then share the process of a   *)
(* plugin.  Plugin processes may exit at any time.                          *)
(***************************************************************************)
EXTENDS Naturals, Sequences

CONSTANTS Entries,     \* entries of the plugins section of the configuration
          KeyOf,       \* entry -> its platform key, trimmed and in lower case
          Platforms,   \* platform names that keys and plugins use
          BuiltIns,    \* platforms with a built-in connector
          Manifests,   \* plugin.json files: platform, min and max host version
          HostVersion,
          Connectors   \* connectors that jobs build

NoPlatform == "no platform"
NoVersion == <<>>
NoManifest == [platform |-> NoPlatform, min |-> NoVersion, max |-> NoVersion]
BuiltIn == "built-in"
Nobody == "nobody"

\* The keys of a YAML map differ; a nil process, no connector and a built-in factory
\* are none of the named ones.
ASSUME PluginAssumption ==
    /\ Nobody \notin Entries \cup Connectors /\ BuiltIn \notin Entries
    /\ KeyOf \in [Entries -> Platforms] /\ BuiltIns \subseteq Platforms
    /\ \A d, e \in Entries : KeyOf[d] = KeyOf[e] => d = e

VARIABLES
    setup,      \* entry -> spawned or grpc://, platform it reports, manifest
    pending,    \* entries that New has not loaded yet
    current,    \* the entry that New is loading
    phase,      \* of the catalog: loading, open, failed, closed
    proc,       \* entry -> none, running, exited or closed (and killed when spawned)
    plugins,    \* PluginHost.plugins: platform -> entry
    factories,  \* Registry.factories: platform -> built-in or the factory of an entry
    session,    \* plugin side: the connector whose configuration it holds
    user,       \* connector -> its process and how far it is
    displaced   \* history: connectors whose session was replaced or closed by others

pvars == <<setup, pending, current, phase, proc, plugins, factories, session, user, displaced>>
usevars == <<session, user, displaced>>

-----------------------------------------------------------------------------
(* Manifests and versions.                                                  *)

\* compareSemanticVersions(left, right) < 0: the first part that differs decides.
Older(left, right) ==
    \E i \in 1 .. 3 : left[i] < right[i] /\ \A k \in 1 .. i - 1 : left[k] = right[k]

\* A bound that does not parse (or is absent) bounds nothing, and nor does any
\* bound when the version of the host itself does not parse.
manifestSupportsHost(m) ==
    m # NoManifest /\ HostVersion # NoVersion =>
      /\ m.min # NoVersion => ~Older(HostVersion, m.min)
      /\ m.max # NoVersion => ~Older(m.max, HostVersion)

-----------------------------------------------------------------------------
(* Closing processes.                                                       *)

\* closePluginProcess of the processes in S: the plugin is told to close, the
\* connection is dropped and a spawned process is killed and reaped.
Closed(S) == [e \in Entries |-> IF e \in S THEN "closed" ELSE proc[e]]
ClosedSessions(S) == [e \in Entries |-> IF e \in S THEN Nobody ELSE session[e]]
Hosted == {plugins[p] : p \in Platforms} \ {Nobody}

ShutdownAll(S) ==
    /\ proc' = Closed(Hosted \cup S) /\ session' = ClosedSessions(Hosted \cup S)
    /\ plugins' = [p \in Platforms |-> Nobody]

\* New gives up: the processes that were loaded are shut down, and with them
\* the ones in S that never got into the host.
Fail(S) ==
    /\ ShutdownAll(S)
    /\ phase' = "failed" /\ current' = Nobody
    /\ UNCHANGED factories

-----------------------------------------------------------------------------
(* New: loading the plugins, in the order of a Go map.                      *)

\* startPlugin up to the handshake.  A manifest that cannot be read or a command
\* that does not start fails before there is a process.
startPlugin(e) ==
    /\ phase = "loading" /\ current = Nobody /\ e \in pending
    /\ pending' = pending \ {e}
    /\ \/ /\ current' = e /\ proc' = [proc EXCEPT ![e] = "running"]
          /\ UNCHANGED <<phase, plugins, factories, session>>
       \/ Fail({})
    /\ UNCHANGED <<setup, user, displaced>>

\* connectPlugin: the plugin answers, reports the platform of its manifest and
\* supports the version of the host.
Accepted(e) ==
    /\ proc[e] = "running"
    /\ setup[e].manifest # NoManifest => setup[e].manifest.platform = setup[e].reports
    /\ manifestSupportsHost(setup[e].manifest)

\* connectPlugin refuses: the process that was spawned is killed.

connectPluginFails(e) ==
    /\ phase = "loading" /\ current = e
    /\ Fail({e})
    /\ UNCHANGED <<setup, pending, user, displaced>>

\* Mutant: the factory is taken from what is hosted under the key.
LoadPluginSkips(e) ==
    /\ phase = "loading" /\ current = e /\ Accepted(e) /\ setup[e].reports # NoPlatform
    /\ LET p == setup[e].reports
           replaced == {plugins[p]} \ {Nobody}
       IN  /\ plugins' = [plugins EXCEPT ![p] = e]
           /\ proc' = Closed(replaced) /\ session' = ClosedSessions(replaced)
           /\ factories' = IF plugins'[KeyOf[e]] = Nobody THEN factories
                           ELSE [factories EXCEPT ![KeyOf[e]] = plugins'[KeyOf[e]]]
           /\ current' = Nobody /\ UNCHANGED phase
    /\ UNCHANGED <<setup, pending, user, displaced>>

\* LoadPlugin, Factory and Register: the host keeps the process under the platform
\* the plugin reports, closing the one it replaces; the factory is looked up under
\* the platform of the configuration and registered there.
LoadPlugin(e) ==
    /\ phase = "loading" /\ current = e /\ Accepted(e)
    /\ LET p == setup[e].reports
           replaced == {plugins[p]} \ {Nobody}
           hosted == [plugins EXCEPT ![p] = e]
       IN  IF p = NoPlatform THEN Fail({e})
           ELSE IF hosted[KeyOf[e]] = Nobody THEN Fail(replaced \cup {e})
           ELSE /\ plugins' = hosted
                /\ proc' = Closed(replaced) /\ session' = ClosedSessions(replaced)
                /\ factories' = [factories EXCEPT ![KeyOf[e]] = hosted[KeyOf[e]]]
                /\ current' = Nobody /\ UNCHANGED phase
    /\ UNCHANGED <<setup, pending, user, displaced>>

NewReturns ==
    /\ phase = "loading" /\ current = Nobody /\ pending = {}
    /\ phase' = "open"
    /\ UNCHANGED <<setup, pending, current, proc, plugins, factories, usevars>>

\* External: a plugin process exits by itself.
PluginExits(e) ==
    /\ proc[e] = "running"
    /\ proc' = [proc EXCEPT ![e] = "exited"] /\ session' = [session EXCEPT ![e] = Nobody]
    /\ UNCHANGED <<setup, pending, current, phase, plugins, factories, user, displaced>>

\* Catalog.Close.
CatalogClose ==
    /\ phase = "open" /\ phase' = "closed"
    /\ ShutdownAll({})
    /\ UNCHANGED <<setup, pending, current, factories, user, displaced>>

-----------------------------------------------------------------------------
(* Connectors of the jobs.                                                  *)

Use(c, step) == user' = [user EXCEPT ![c].step = step]
Others(c) == {d \in Connectors : d # c /\ user[d].entry = user[c].entry}
UseRest == UNCHANGED <<setup, pending, current, phase, proc, plugins, factories>>

\* Build: the factory binds the connector to the process it was made for.
Build(c) ==
    /\ phase = "open" /\ user[c].step = "idle"
    /\ \E p \in Platforms :
         /\ factories[p] \notin {Nobody, BuiltIn}
         /\ user' = [user EXCEPT ![c] = [step |-> "built", entry |-> factories[p], got |-> Nobody]]
    /\ displaced' = displaced \ {c}
    /\ UNCHANGED session /\ UseRest

\* A call to a process that is not there fails; RunAll then drops the connector.
CallFails(c) ==
    /\ user[c].step \in {"built", "connected"}
    /\ Use(c, IF user[c].step = "built" THEN "idle" ELSE "close")
    /\ UNCHANGED <<session, displaced>> /\ UseRest

\* PluginConnector.Connect: the plugin holds one configuration, the last one.

Connect(c) ==
    /\ user[c].step = "built" /\ proc[user[c].entry] = "running"
    /\ session' = [session EXCEPT ![user[c].entry] = c]
    /\ Use(c, "connected") /\ displaced' = (displaced \ {c}) \cup Others(c)
    /\ UseRest

\* PluginConnector.Discover carries no configuration: it answers for the one held.
Discover(c) ==
    /\ user[c].step = "connected" /\ proc[user[c].entry] = "running"
    /\ session[user[c].entry] # Nobody
    /\ user' = [user EXCEPT ![c].step = "close", ![c].got = session[user[c].entry]]
    /\ UNCHANGED <<session, displaced>> /\ UseRest

\* PluginConnector.Close closes the session, whoever opened it.
Close(c) ==
    /\ user[c].step = "close"
    /\ session' = [session EXCEPT ![user[c].entry] = Nobody]
    /\ Use(c, "idle") /\ displaced' = displaced \cup Others(c)
    /\ UseRest

-----------------------------------------------------------------------------
PInit ==
    /\ setup \in [Entries -> [spawned : BOOLEAN, reports : Platforms \cup {NoPlatform},
                              manifest : Manifests \cup {NoManifest}]]
    \* A grpc:// entry has no manifest (manifestPathForPlugin).
    /\ \A e \in Entries : ~setup[e].spawned => setup[e].manifest = NoManifest
    /\ pending = Entries /\ current = Nobody /\ phase = "loading"
    /\ proc = [e \in Entries |-> "none"] /\ session = [e \in Entries |-> Nobody]
    /\ plugins = [p \in Platforms |-> Nobody]
    /\ factories = [p \in Platforms |-> IF p \in BuiltIns THEN BuiltIn ELSE Nobody]
    /\ user = [c \in Connectors |-> [step |-> "idle", entry |-> Nobody, got |-> Nobody]]
    /\ displaced = {}

PNext ==
    \/ \E e \in Entries : startPlugin(e) \/ connectPluginFails(e) \/ LoadPlugin(e) \/ PluginExits(e)
    \/ NewReturns \/ CatalogClose
    \/ \E c \in Connectors : Build(c) \/ CallFails(c) \/ Connect(c) \/ Discover(c) \/ Close(c)

PSpec == PInit /\ [][PNext]_pvars

-----------------------------------------------------------------------------
(* Properties.                                                              *)

\* Processes, host table and factories have their types, and a catalog is open only
\* when New has dealt with every configured entry.
PTypeOK ==
    /\ pending \subseteq Entries /\ current \in Entries \cup {Nobody}
    /\ phase \in {"loading", "open", "failed", "closed"}
    /\ proc \in [Entries -> {"none", "running", "exited", "closed"}]
    /\ plugins \in [Platforms -> Entries \cup {Nobody}]
    /\ factories \in [Platforms -> Entries \cup {Nobody, BuiltIn}]
    /\ session \in [Entries -> Connectors \cup {Nobody}]
    /\ displaced \subseteq Connectors
    /\ phase \in {"open", "closed"} => pending = {} /\ current = Nobody

\* In an open catalog every plugin factory stands for the process that the host
\* keeps under that platform: a plugin that reports the platform of another one
\* replaces (and kills) it only in a catalog that New then refuses to return.
RegisteredIsHosted ==
    phase = "open" => \A p \in Platforms :
       factories[p] \in Entries => /\ plugins[p] = factories[p]
                                   /\ proc[factories[p]] # "closed"

\* A catalog that failed to open or was closed leaves no spawned process behind.
NoLeakedProcess ==
    phase \in {"failed", "closed"} =>
       \A e \in Entries : setup[e].spawned => proc[e] # "running"

\* A connector gets the inventory of another connector's endpoint only when the
\* other one connected or closed through the same process in between.
ForeignInventoryIsRaced ==
    \A c \in Connectors : user[c].got \notin {Nobody, c} => c \in displaced

\* Host, registry and processes agree: factories stand for hosted processes, a
\* failed or closed catalog leaves none running, and connectors that share a
\* process get foreign data only when another one used it in between.
PluginsAreHosted ==
  /\ PTypeOK
  /\ RegisteredIsHosted
  /\ NoLeakedProcess
  /\ ForeignInventoryIsRaced
=============================================================================
