--------------------------- MODULE RegistryConfig ---------------------------
(* How a session gets at its registry and the token for it.  It loads cargo's
   configuration with the files this includes (binstalk-manifests,
   cargo_config.rs), takes the registry from it (entry.rs), and finds the
   credential provider and the token (registry_auth.rs).  All this happens in one
   thread before any other task is started. *)
EXTENDS Naturals, Sequences, FiniteSets, SequencesExt

CONSTANTS
  Files,      \* configuration files, each as reached through one directory
  Root,       \* config.toml
  Registries, \* names of registries
  CratesIo,   \* the one that needs no configuration
  Aliases,    \* names of credential providers
  Nothing,    \* what is not set
  Includes,   \* bound: the lists of included files
  Settings    \* bound: what a file sets

ASSUME FilesAssumption == IsFiniteSet(Files) /\ Root \in Files
ASSUME NamesAssumption ==
  /\ IsFiniteSet(Registries) /\ IsFiniteSet(Aliases)
  /\ Nothing \notin Registries \cup Aliases \cup {"token", "stdout", "other"}
  /\ Aliases \cap {"token", "stdout", "other"} = {}

VARIABLES
  disk,     \* what is in the files
  phase,
  stack,    \* files to load, the next one last
  visited,  \* files loaded by way of an include
  config,   \* what has been put together so far
  name,     \* the registry asked for
  provider, \* the credential provider it has
  override, \* history: the provider the environment has for it
  named,    \* history: --registry was given
  auth      \* whether there is a token for it

loading == <<disk, phase, stack, visited, config, name, provider, override, named, auth>>
registry == <<name, provider, override, named, auth>>

Option(S) == S \cup {Nothing}

(* cargo:token and cargo:token-from-stdout with a command; whatever cargo has
   beside them, or any command, is of no use. *)
Usable == {"token", "stdout"}
Provider == Usable \cup {"other"} \cup Aliases

RegistryEntry == [index : Option({"url", "bad"}), replace : Option(Registries), provider : Option(Provider)]

(* What a file sets: a default registry, global providers, registries, aliases. *)
Setting == [default : Option(Registries), global : Seq(Provider),
            registries : [Registries -> RegistryEntry], alias : [Aliases -> Option(Provider)]]

NoEntry == [index |-> Nothing, replace |-> Nothing, provider |-> Nothing]
Empty == [default |-> Nothing, global |-> <<>>, registries |-> [r \in Registries |-> NoEntry],
          alias |-> [a \in Aliases |-> Nothing]]

(* A file is absent, is not to be parsed, or includes others and sets something. *)
File == [text : {"absent", "broken"}]
          \cup [text : {"config"}, include : Includes, sets : Settings]

ASSUME IncludesAssumption == Includes \subseteq Seq(Files)
ASSUME SettingsAssumption == Settings \subseteq Setting

ConfigInit ==
  /\ disk \in [Files -> File]
  /\ phase = "start"
  /\ stack = <<>> /\ visited = {} /\ config = Empty
  /\ name = Nothing /\ provider = Nothing /\ override = Nothing
  /\ named = FALSE /\ auth = FALSE

Enters(from, to) == phase = from /\ phase' = to

-----------------------------------------------------------------------------
(* Config::load_from_path *)

OrElse(left, right) == IF left = Nothing THEN right ELSE left

(* Mutant: the providers of what is merged go behind those already there. *)
MergeBehind(left, right) == left \o right

(* merge_global_credential_providers *)
MergeProviders(left, right) == right \o left

(* What left has set stays; the list grows at the front. *)
Merge(left, right) ==
  [default |-> OrElse(left.default, right.default),
   global |-> MergeProviders(left.global, right.global),
   registries |-> [r \in Registries |->
                     [f \in DOMAIN NoEntry |-> OrElse(left.registries[r][f], right.registries[r][f])]],
   alias |-> [a \in Aliases |-> OrElse(left.alias[a], right.alias[a])]]

Sets(f) == disk[f].sets
Included(f) == disk[f].include
Loadable(f) == disk[f].text = "config"

LoadRoot ==
  /\ Enters("start", CASE disk[Root].text = "absent" -> "loaded"
                   [] disk[Root].text = "broken" -> "failed"
                   [] OTHER -> "including")
  /\ IF Loadable(Root)
     THEN config' = Sets(Root) /\ stack' = Included(Root)
     ELSE UNCHANGED <<config, stack>>
  /\ UNCHANGED <<disk, visited, registry>>

(* A file met again is taken for a loop, also where two files include it.  The
   file the command starts with is not counted. *)
DeadLoop(f) == f \in visited

(* iterate_reverse_preorder: the last one on the stack; what it includes goes on
   top.  A file that is not there is an error, though its include may be marked
   optional: its path is made canonical first. *)
LoadInclude ==
  /\ stack # <<>>
  /\ LET f == Last(stack) IN
       /\ Loadable(f) /\ ~DeadLoop(f)
       /\ visited' = visited \cup {f}
       /\ config' = Merge(config, Sets(f))
       /\ stack' = Front(stack) \o Included(f)
  /\ Enters("including", "including")
  /\ UNCHANGED <<disk, registry>>

IncludeFails ==
  /\ stack # <<>>
  /\ ~Loadable(Last(stack)) \/ DeadLoop(Last(stack))
  /\ Enters("including", "failed")
  /\ UNCHANGED <<disk, stack, visited, config, registry>>

AllIncluded ==
  /\ stack = <<>>
  /\ Enters("including", "loaded")
  /\ UNCHANGED <<disk, stack, visited, config, registry>>

-----------------------------------------------------------------------------
(* install_crates: the registry *)

(* What comes of x after n steps. *)
Iterated(step, x, n) ==
  LET after[k \in Nat] == IF k = 0 THEN x ELSE step[after[k - 1]]
  IN  after[n]

(* The registry that stands in for q, or q itself. *)
Replaced == [q \in Registries |-> OrElse(config.registries[q].replace, q)]

(* get_registry.  It calls itself for ever, to the end of the stack or without end
   as it has been compiled, if registries replace each other in a circle. *)
GetRegistry(r) == config.registries[Iterated(Replaced, r, Cardinality(Registries))]
Endless(r) == GetRegistry(r).replace # Nothing

(* --index is taken as it is, without a token. *)
UseIndex ==
  /\ Enters("loaded", "resolved")
  /\ UNCHANGED <<disk, stack, visited, config, registry>>

(* --registry, or else registry.default: to look there, the table is taken out of
   the configuration with all it holds. *)
UseName ==
  /\ Enters("loaded", "named")
  /\ named' \in BOOLEAN
  /\ IF named' THEN name' \in Registries /\ UNCHANGED config
     ELSE name' = config.default /\ config' = [config EXCEPT !.default = Nothing, !.global = <<>>]
  /\ UNCHANGED <<disk, stack, visited, provider, override, auth>>

(* The environment may have an index of this name; what is found must be a URL.
   Only crates.io does without, and a session that has asked for no registry. *)
FindIndex ==
  /\ \E env \in IF name = Nothing THEN {Nothing} ELSE Option({"url", "bad"}) :
       IF name = Nothing THEN Enters("named", "indexed")
       ELSE IF env = Nothing /\ Endless(name) THEN Enters("named", "endless")
       ELSE LET url == OrElse(env, GetRegistry(name).index) IN
            Enters("named", IF url = "url" \/ (url = Nothing /\ name = CratesIo)
                        THEN "indexed" ELSE "failed")
  /\ UNCHANGED <<disk, stack, visited, config, registry>>

-----------------------------------------------------------------------------
(* resolve_registry_auth *)

(* resolve_supported_provider: from alias to alias, but not to one that has been
   seen on the way; those are kept with what has been reached. *)
Link ==
  [l \in [to : Option(Provider), seen : SUBSET Aliases] |->
     IF l.to \in Aliases \ l.seen
     THEN [to |-> config.alias[l.to], seen |-> l.seen \cup {l.to}]
     ELSE l]

Supported(p) ==
  LET end == Iterated(Link, [to |-> p, seen |-> {}], Cardinality(Aliases)).to
  IN  IF end \in Usable THEN end ELSE Nothing

(* resolve_global_supported_provider: the last one that is of use. *)
Global ==
  LET usable == {i \in DOMAIN config.global : Supported(config.global[i]) # Nothing}
  IN  IF usable = {} THEN Nothing ELSE Supported(config.global[Max(usable)])

(* The environment comes before the registry, that before the global providers; a
   provider that is of no use is not replaced by one that comes later. *)
FindProvider ==
  /\ override' \in IF name = Nothing THEN {Nothing} ELSE Option(Provider)
  /\ IF override' # Nothing THEN Enters("indexed", "provided") /\ provider' = Supported(override')
     ELSE IF name # Nothing /\ Endless(name) THEN Enters("indexed", "endless") /\ UNCHANGED provider
     ELSE /\ Enters("indexed", "provided")
          /\ provider' = IF name # Nothing /\ GetRegistry(name).provider # Nothing
                         THEN Supported(GetRegistry(name).provider)
                         ELSE OrElse(Global, "token")
  /\ UNCHANGED <<disk, stack, visited, config, name, named, auth>>

(* cargo:token looks in the environment and in the credentials, for a registry
   that has a name and if these can be read; a command may fail.  An empty token is
   none.  Configuration and files are done with. *)
FindToken ==
  /\ Enters("provided", "resolved")
  /\ auth' \in {FALSE, provider = "stdout" \/ (provider = "token" /\ name # Nothing)}
  /\ UNCHANGED <<disk, stack, visited, config, name, provider, override, named>>

(* The configuration is dropped when the registry has been resolved; nobody asks
   again what is in the files. *)
Drop ==
  /\ Enters("resolved", "dropped")
  /\ disk' = [f \in Files |-> [text |-> "absent"]]
  /\ stack' = <<>> /\ visited' = {} /\ config' = Empty
  /\ name' = Nothing /\ provider' = Nothing /\ override' = Nothing /\ named' = FALSE
  /\ UNCHANGED auth

(* The token, or that there is none, goes with the registry. *)
HandOver ==
  /\ Enters("dropped", "over")
  /\ auth' = FALSE
  /\ UNCHANGED <<disk, stack, visited, config, name, provider, override, named>>

Load == LoadRoot \/ LoadInclude \/ IncludeFails \/ AllIncluded
Resolve == UseIndex \/ UseName \/ FindIndex \/ FindProvider \/ FindToken \/ Drop

-----------------------------------------------------------------------------
(* Properties *)

(* Several sequences as one, the last one first. *)
LastFirst(s) ==
  LET joined[n \in 0..Len(s)] == IF n = 0 THEN <<>> ELSE s[n] \o joined[n - 1]
  IN  joined[Len(s)]

(* The files loaded with file f when includes go n deep, from the one that counts
   most to the one that counts least: a file before what it includes, what is
   included last before the rest. *)
Layers(d, n) ==
  LET layers[k \in Nat] ==
        [f \in Files |->
           IF k = 0 \/ d[f].text # "config" THEN <<>>
           ELSE <<f>> \o LastFirst([i \in DOMAIN d[f].include |-> layers[k - 1][d[f].include[i]]])]
  IN  layers[n]

FirstSet(values) ==
  LET set == {i \in DOMAIN values : values[i] # Nothing}
  IN  IF set = {} THEN Nothing ELSE values[Min(set)]

(* With --registry the credential provider is the one all the files and the
   environment together ask for, each setting taken from the file that counts most,
   however they include each other; and it is found if and only if aliases lead to it.
   Without --registry the same goes for the default registry and its own provider, but
   the global providers are not asked, whatever files set them: the table they are in
   has been taken out to read the default (crates/bin/src/entry.rs:143-148), and the
   token of the registry is looked for, as if none were set.  A session is only caught in
   get_registry where the files together close a circle of replacements. *)
ProviderAsRead ==
  LET layers == Layers(disk, Cardinality(Files))[Root]
      read == [i \in DOMAIN layers |-> Sets(layers[i])]
      alias == [p \in Option(Provider) |->
                  IF p \in Aliases THEN FirstSet([i \in DOMAIN read |-> read[i].alias[p]]) ELSE p]
      Found(p) == {u \in Usable : \E n \in 0..Cardinality(Aliases) : Iterated(alias, p, n) = u}
      Of(r, field) == FirstSet([i \in DOMAIN read |-> read[i].registries[r][field]])
      standIn == Iterated([r \in Registries |-> OrElse(Of(r, "replace"), r)], name,
                          Cardinality(Registries))
      own == Of(standIn, "provider")
      circle == Of(standIn, "replace") # Nothing
      global == LastFirst([i \in DOMAIN read |-> read[i].global])
      usable == {i \in DOMAIN global : Found(global[i]) # {}}
  IN  /\ phase = "endless" => circle
      /\ phase = "provided" =>
        /\ ~named => name = FirstSet([i \in DOMAIN read |-> read[i].default])
        /\ name # Nothing /\ override = Nothing => ~circle
        /\ {provider} \ {Nothing} =
             IF override # Nothing THEN Found(override)
             ELSE IF name # Nothing /\ own # Nothing THEN Found(own)
             ELSE IF named /\ usable # {} THEN Found(global[Max(usable)])
             ELSE {"token"}
=============================================================================
