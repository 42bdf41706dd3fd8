---------------------------- MODULE DetectTargets ----------------------------
(***************************************************************************)
(* detect_targets: the targets this machine can run, in the order of       *)
(* preference, asked of the system once and kept in a SetOnce.  rustc (or a *)
(* guess) names the host; the rest depends on its system: on Linux a dozen *)
(* loaders are run at once to find a glibc, on macOS `arch` is run for the *)
(* architectures it may emulate, on Windows the kernel is asked.           *)
(* A target is <<architecture, abi>>.                                      *)
(***************************************************************************)
EXTENDS Naturals, Sequences, SequencesExt

CONSTANTS
  Loaders, \* the paths glibc's loader or library may have, absolute, 12 to 14 of them
  Unset    \* a SetOnce that is not set

ASSUME LoadersAssumption == Loaders \in Seq(STRING)

VARIABLES
  detecting,      \* where detection is
  host,    \* the host target, once known
  probe,   \* the questions asked of the system and their answers
  targets, \* DesiredTargets
  hangs    \* the processes that will never end

detection == <<detecting, host, probe, targets, hangs>>

Systems ==
  [linux   |-> {"x86_64"} \X {"gnu", "musl", "android", "ohos"},
   macos   |-> {"aarch64", "x86_64", "x86_64h", "arm64e"} \X {"darwin"},
   windows |-> {"i686", "aarch64"} \X {"msvc", "gnu"}]

System(h) == CHOOSE s \in DOMAIN Systems : h \in Systems[s]

Universal == <<<<"universal", "darwin">>, <<"universal2", "darwin">>>>
Emulated == {"x86_64h", "x86_64"}

(* The architectures Windows may emulate, and the targets they stand for. *)
Machines == {"x86_64", "x86", "thumbv7a", "aarch64"}
TripleArchs(machine) == IF machine = "x86" THEN {"i586", "i686"} ELSE {machine}

(* These have their libc asked for. *)
AsksLibc(h) == h[2] \in {"gnu", "musl"}

(* What is asked about host h. *)
Questions(h) ==
  CASE System(h) = "linux" -> IF AsksLibc(h) THEN ToSet(Loaders) ELSE {}
    [] System(h) = "macos" -> IF h[1] = "aarch64" THEN Emulated
                              ELSE IF h[1] = "x86_64" THEN {"x86_64h"} ELSE {}
    [] System(h) = "windows" -> Machines \ {h[1]}

-----------------------------------------------------------------------------
(* The lists *)

ThenSome(answer, list) == IF answer THEN list ELSE <<>>

(* The postfix of an unknown libc is taken for a variant of the abi. *)
Musl(abi) == IF abi = "ohos" THEN "muslohos" ELSE "musl"

(* detect/linux.rs: the host itself only where its libc is not asked for. *)
LinuxTargets(h, yes) ==
  IF AsksLibc(h)
  THEN ThenSome(yes # {}, <<<<h[1], "gnu">>>>) \o <<<<h[1], "musl">>>>
  ELSE <<h, <<h[1], Musl(h[2])>>>>

(* detect/macos.rs *)
MacTargets(h, yes) ==
  LET Supported(arch) == ThenSome(arch \in yes, <<<<arch, "darwin">>>>) IN
  CASE h[1] = "aarch64" -> (<<h>> \o Universal) \o (Supported("x86_64h") \o Supported("x86_64"))
    [] h[1] = "x86_64"  -> (<<h>> \o Supported("x86_64h")) \o Universal
    [] h[1] = "x86_64h" -> <<h, <<"x86_64", "darwin">>>> \o Universal
    [] OTHER            -> <<h>>

(* Every abi, msvc first; x86 stands for two architectures. *)
Abis(arch) == <<<<arch, "msvc">>, <<arch, "gnu">>, <<arch, "gnullvm">>>>
Fallbacks(machine) == IF machine = "x86" THEN Abis("i586") \o Abis("i686") ELSE Abis(machine)

(* detect/windows.rs *)
WindowsTargets(h, yes) ==
  LET Supported(machine) == ThenSome(machine \in yes, Fallbacks(machine)) IN
  (<<h>> \o IF h[2] = "msvc" THEN <<<<h[1], "gnu">>, <<h[1], "gnullvm">>>> ELSE <<<<h[1], "msvc">>>>)
    \o ((Supported("x86_64") \o Supported("x86")) \o (Supported("thumbv7a") \o Supported("aarch64")))

ListOf(h, yes) ==
  CASE System(h) = "linux"   -> LinuxTargets(h, yes)
    [] System(h) = "macos"   -> MacTargets(h, yes)
    [] System(h) = "windows" -> WindowsTargets(h, yes)

-----------------------------------------------------------------------------
(* The task that asks *)

Yes == {q \in DOMAIN probe : probe[q] = "yes"}

(* get_desired_targets: a list of the user's, or detection in a task of its own. *)
DetectInit ==
  /\ \/ detecting = "given" /\ targets = <<<<"x86_64", "musl">>>>
     \/ detecting = "rustc" /\ targets = Unset
  /\ host = Unset /\ probe = <<>>

(* rustc names the host, or it cannot be run or fails and the host is guessed.
   The kernel of Windows answers at once. *)
HostFound ==
  /\ detecting = "rustc" /\ "rustc" \notin hangs
  /\ detecting' = "asking"
  /\ \E s \in DOMAIN Systems : \E h \in Systems[s] :
       /\ host' = h
       /\ probe' \in [Questions(h) -> IF s = "windows" THEN {"yes", "no"} ELSE {"asked"}]
  /\ UNCHANGED <<targets, hangs>>

(* is_gnu_ld, is_arch_supported: a command ends, or cannot be run. *)
ProbeEnds(q) ==
  /\ detecting = "asking" /\ probe[q] = "asked" /\ q \notin hangs
  /\ \E answer \in {"yes", "no"} : probe' = [probe EXCEPT ![q] = answer]
  /\ UNCHANGED <<detecting, host, targets, hangs>>

(* Mutant: every answer is waited for. *)
SettledByAll == \A q \in DOMAIN probe : probe[q] # "asked"

(* Mutant: whatever ends first decides. *)
SettledByAny == DOMAIN probe = {} \/ \E q \in DOMAIN probe : probe[q] # "asked"

(* The loaders are joined in order until one is of a glibc, `arch` is joined for
   every architecture. *)
Settled ==
  \/ \A q \in DOMAIN probe : probe[q] # "asked"
  \/ /\ System(host) = "linux"
     /\ \E i \in DOMAIN Loaders :
          Loaders[i] \in Yes /\ \A j \in 1..(i - 1) : probe[Loaders[j]] # "asked"

(* The list is set, handles of probes still running are dropped. *)
Conclude ==
  /\ detecting = "asking" /\ Settled
  /\ detecting' = "set" /\ targets' = ListOf(host, Yes)
  /\ probe' = [q \in DOMAIN probe |-> IF probe[q] = "asked" THEN "aborted" ELSE probe[q]]
  /\ hangs' = hangs \ DOMAIN probe
  /\ UNCHANGED host

(* A process it waits for will never end. *)
ProbeHangs ==
  /\ \/ detecting = "rustc" /\ hangs' = hangs \cup {"rustc"}
     \/ \E q \in DOMAIN probe :
          detecting = "asking" /\ probe[q] = "asked" /\ hangs' = hangs \cup {q}
  /\ UNCHANGED <<detecting, host, probe, targets>>

(* TargetTriple::from_str, by target_lexicon. *)
IsTriple(t) == t[2] # "muslohos"

DetectStep == HostFound \/ Conclude \/ \E q \in DOMAIN probe : ProbeEnds(q)

-----------------------------------------------------------------------------
(* Properties *)

(* Can the machine run programs for t, as far as it has been asked? *)
Runs(t) ==
  CASE System(host) = "linux" ->
         \/ t = host /\ ~AsksLibc(host)
         \/ t[2] = "musl"
         \/ t[2] = "gnu" /\ Yes # {}
    [] System(host) = "macos" ->
         \/ t = host \/ t \in ToSet(Universal) \/ t[1] \in Yes
         \/ host[1] = "x86_64h" /\ t[1] = "x86_64"
    [] System(host) = "windows" ->
         t[1] = host[1] \/ \E m \in Yes : t[1] \in TripleArchs(m)

WindowsAbis == {"msvc", "gnu", "gnullvm"}
OwnAbis(h) == IF h[2] = "msvc" THEN WindowsAbis ELSE {h[2], "msvc"}
Emulable(machines) == (UNION {TripleArchs(m) : m \in machines}) \X WindowsAbis

Before(list, t, u) == \E i, j \in DOMAIN list : i < j /\ list[i] = t /\ list[j] = u

(* The documented order of preference: nothing is tried that the machine cannot
   run, no architecture left out unless the machine has said no, nor any abi of
   those it runs, gnu comes before musl and native programs before emulated
   ones, whatever the order in which the commands have ended.  Exempt are a libc unknown to detection and i686 Windows,
   where some targets come twice, some late. *)
PreferredTargets ==
  detecting = "set" =>
    LET all == ToSet(targets)
        native == {t \in all : t[1] \in {host[1], "universal", "universal2"}}
    IN  /\ targets # <<>>
        /\ \A t \in all : IsTriple(t) => Runs(t)
        /\ host[2] # "ohos" => \A t \in all : IsTriple(t)
        /\ System(host) # "linux" => targets[1] = host
        /\ System(host) = "linux" /\ Yes # {} =>
             Before(targets, <<host[1], "gnu">>, <<host[1], "musl">>)
        /\ host = <<"aarch64", "darwin">> \/ (System(host) = "windows" /\ host[1] # "i686") =>
             \A t \in native, u \in all \ native : Before(targets, t, u)
        /\ System(host) = "windows" =>
             {host[1]} \X OwnAbis(host) \cup Emulable(Yes) \subseteq all
        /\ System(host) = "macos" => Yes \subseteq {t[1] : t \in all}
        /\ (\E q \in DOMAIN probe : probe[q] = "aborted") => <<host[1], "gnu">> \in all
        /\ host[1] # "i686" => IsInjective(targets)
=============================================================================
