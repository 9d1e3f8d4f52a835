------------------------------ MODULE Railctl ------------------------------
(***************************************************************************)
(* The files railctl keeps (cmd/railctl/main.go, go/sqlite bindDomain):    *)
(* config.json with the domains installed and the profiles on them,        *)
(* credentials.json with the keys, and one store per profile, bound to one *)
(* ledger.  Every command is a process of its own: it reads the files one  *)
(* after the other, works on its copies, and may die at any point.  A file *)
(* is replaced by rename, whole or not at all.                             *)
(*                                                                         *)
(* What a command does to the chain once its rail is open is module Rail.  *)
(***************************************************************************)
EXTENDS Domain

CONSTANTS
  Procs,        \* commands running side by side
  Names,        \* profile names
  Configs,      \* domain files, as module Domain has them
  Chains,       \* what each endpoint they name answers
  OtherPaths,   \* store files that are nobody's default
  GivenKeys,    \* keys a person holds: RAILCTL_KEY, -key-file
  MaxKeys,      \* bound: keys generated
  Overlap,      \* whether two inits may run side by side
  None          \* nothing given, nothing there

Keys == GivenKeys \cup 1 .. MaxKeys
Paths == Names \cup OtherPaths     \* the default store of a profile is <name>.db
Ledgers == {Ledger(c) : c \in Configs}
Valid == {c \in Configs : Converts(c) /\ ValidDomain(AsDomain(c))}
DomainNames == {c.name : c \in Configs} \ {None}

ASSUME NoneAssumption ==
  None \notin Names \cup Keys \cup OtherPaths /\ None \notin Configs /\ None \notin Ledgers
\* The keys generated are new ones.
ASSUME GivenAssumption == GivenKeys \cap Nat = {}
ASSUME BoundAssumption == MaxKeys \in Nat /\ Overlap \in BOOLEAN

VARIABLES
  settings,   \* config.json
  creds,      \* credentials.json
  stores,     \* each store file: the ledger it is bound to, those it has records of
  proc,       \* the command each process runs: its pc, and what it holds in memory
  made,       \* keys generated so far
  printed,    \* history: accounts shown for a profile, <<name, key>>
  named       \* history: files some command was pointed at with -store

vars == <<settings, creds, stores, proc, made, printed, named>>

Settings == [current : Names \cup {None}, domains : [DomainNames -> Configs \cup {None}],
             profiles : [Names -> DomainNames \cup {None}]]
Creds == [Names -> Keys \cup {None}]
NoSettings == [current |-> None, domains |-> [d \in DomainNames |-> None],
               profiles |-> [n \in Names |-> None]]
NoCreds == [n \in Names |-> None]

\* A process: who it acts as, on which domain, with which key and store, and
\* an init's copies of the two files.
Steps == {"idle", "checked", "keyed", "half", "reading", "resolved", "claimed", "open"}
Processes == [pc : Steps, name : Names \cup {None}, config : Configs \cup {None},
              key : Keys \cup {None}, path : Paths \cup {None},
              settings : Settings, creds : Creds]
Idle == [pc |-> "idle", name |-> None, config |-> None, key |-> None, path |-> None,
         settings |-> NoSettings, creds |-> NoCreds]

TypeOK ==
  /\ settings \in Settings /\ creds \in Creds
  /\ stores \in [Paths -> [bound : Ledgers \cup {None}, records : SUBSET Ledgers]]
  /\ proc \in [Procs -> Processes]
  /\ made \in 0 .. MaxKeys
  /\ printed \subseteq Names \X Keys
  /\ named \subseteq Paths

Init ==
  /\ settings = NoSettings
  /\ creds = NoCreds
  /\ stores = [f \in Paths |-> [bound |-> None, records |-> {}]]
  /\ proc = [p \in Procs |-> Idle]
  /\ made = 0
  /\ printed = {}
  /\ named = {}

At(p, step) == proc[p].pc = step
Initialising(p) == proc[p].pc \in {"checked", "keyed", "half"}
Becomes(p, state) == proc' = [proc EXCEPT ![p] = state]

----------------------------------------------------------------------------
(* railctl init <name> <domain file>                                       *)

\* What initProfile refuses on the settings it has read.
SlipMayInstall(s, name, c) == s.profiles[name] = None
SlipMayReinstall(s, name, c) == s.domains[c.name] \in {None, c}
MayInstall(s, name, c) ==
  /\ s.profiles[name] = None
  /\ s.domains[c.name] \in {None, c}

\* Load the domain file, validate it, load the settings.
InitCheck(p, name, c) ==
  /\ At(p, "idle")
  /\ Overlap \/ ~\E q \in Procs : Initialising(q)
  /\ c.name # None /\ c \in Valid
  /\ MayInstall(settings, name, c)
  /\ Becomes(p, [Idle EXCEPT !.pc = "checked", !.name = name, !.config = c,
                             !.settings = settings])
  /\ UNCHANGED <<settings, creds, stores, made, printed, named>>

\* Load the credentials, import a key or generate one, check the domain
\* against the chain its endpoint serves.
InitKey(p, given) ==
  LET key == IF given = None THEN made + 1 ELSE given IN
  /\ At(p, "checked")
  /\ key \in Keys
  /\ CheckDomain(AsDomain(proc[p].config), Chains[proc[p].config.rpc])
  /\ made' = IF given = None THEN made + 1 ELSE made
  /\ Becomes(p, [proc[p] EXCEPT !.pc = "keyed", !.key = key, !.creds = creds])
  /\ UNCHANGED <<settings, creds, stores, printed, named>>

\* The settings with the new profile in them.
SlipInstalled(me) ==
  [me.settings EXCEPT !.domains[me.config.name] = me.config, !.profiles[me.name] = me.name]
Installed(me) ==
  [current  |-> IF me.settings.current = None THEN me.name ELSE me.settings.current,
   domains  |-> [me.settings.domains EXCEPT ![me.config.name] = me.config],
   profiles |-> [me.settings.profiles EXCEPT ![me.name] = me.config.name]]
WithKey(me) == [me.creds EXCEPT ![me.name] = me.key]

\* writeJSON: a file written beside, synced, and renamed over the old one.
WriteFile(file, me) ==
  \/ /\ file = "credentials"
     /\ creds' = WithKey(me)
     /\ UNCHANGED settings
  \/ /\ file = "settings"
     /\ settings' = Installed(me)
     /\ UNCHANGED creds

\* Credentials first: a key without its profile is harmless.
SlipFirstFile == "settings"
FirstFile == "credentials"

InitWrite(p) ==
  /\ At(p, "keyed")
  /\ WriteFile(FirstFile, proc[p])
  /\ Becomes(p, [proc[p] EXCEPT !.pc = "half"])
  /\ UNCHANGED <<stores, made, printed, named>>

\* The other file, then the account to fund is shown.
InitDone(p) ==
  /\ At(p, "half")
  /\ \E file \in {"credentials", "settings"} \ {FirstFile} : WriteFile(file, proc[p])
  /\ printed' = printed \cup {<<proc[p].name, proc[p].key>>}
  /\ Becomes(p, Idle)
  /\ UNCHANGED <<stores, made, named>>

----------------------------------------------------------------------------
(* Every other command                                                     *)

\* What -config may change of a profile's domain: anything but its ledger.
SlipMayOverride(c, installed) == TRUE
MayOverride(c, installed) == Ledger(c) = Ledger(installed)

\* resolve, everything given: no profile is read.
ResolveGiven(p, c, path, key) ==
  /\ At(p, "idle")
  /\ Becomes(p, [Idle EXCEPT !.pc = "resolved", !.config = c, !.path = path, !.key = key])
  /\ named' = named \cup {path}
  /\ UNCHANGED <<settings, creds, stores, made, printed>>

\* resolve, something missing: the profile (the one asked for, or the current
\* one) supplies what -config, -store and RAILCTL_KEY (c, path, key) do not.
ResolveProfile(p, asked, c, path, key) ==
  LET name == IF asked = None THEN settings.current ELSE asked
      installed == settings.domains[settings.profiles[name]]
  IN
  /\ At(p, "idle")
  /\ None \in {c, path, key}
  /\ name # None /\ settings.profiles[name] # None /\ installed # None
  /\ c # None => MayOverride(c, installed)
  /\ Becomes(p, [Idle EXCEPT
       !.pc = IF key = None THEN "reading" ELSE "resolved",
       !.name = IF key = None THEN name ELSE None,
       !.config = IF c = None THEN installed ELSE c,
       !.path = IF path = None THEN name ELSE path,
       !.key = key])
  /\ named' = IF path = None THEN named ELSE named \cup {path}
  /\ UNCHANGED <<settings, creds, stores, made, printed>>

\* The key is read from the other file, and must be there.
ResolveKey(p) ==
  /\ At(p, "reading")
  /\ creds[proc[p].name] # None
  /\ Becomes(p, [proc[p] EXCEPT !.pc = "resolved", !.key = creds[proc[p].name]])
  /\ UNCHANGED <<settings, creds, stores, made, printed, named>>

\* sqlite.Open, then bindDomain: INSERT OR IGNORE, then the SELECT that checks it;
\* only then does rail.New validate the domain.
SlipBind(bound, ledger) == ledger
Bind(bound, ledger) == IF bound = None THEN ledger ELSE bound

OpenStore(p) ==
  LET me == proc[p] IN
  /\ At(p, "resolved")
  /\ stores' = [stores EXCEPT ![me.path].bound = Bind(@, Ledger(me.config))]
  /\ Becomes(p, [me EXCEPT !.pc = "claimed"])
  /\ UNCHANGED <<settings, creds, made, printed, named>>

OpenRail(p) ==
  LET me == proc[p] IN
  /\ At(p, "claimed")
  /\ stores[me.path].bound = Ledger(me.config)
  /\ me.config \in Valid
  /\ Becomes(p, [me EXCEPT !.pc = "open"])
  /\ UNCHANGED <<settings, creds, stores, made, printed, named>>

\* transfer, withdraw, retry, deposits, status: they record in the store.
Record(p) ==
  LET me == proc[p] IN
  /\ At(p, "open")
  /\ stores' = [stores EXCEPT ![me.path].records = @ \cup {Ledger(me.config)}]
  /\ UNCHANGED <<settings, creds, proc, made, printed, named>>

\* account: shows the address of the key.  Of interest where the key is the
\* profile's; a given key is its giver's to keep.
Account(p) ==
  /\ At(p, "open")
  /\ proc[p].name # None
  /\ printed' = printed \cup {<<proc[p].name, proc[p].key>>}
  /\ UNCHANGED <<settings, creds, stores, proc, made, named>>

\* A command ends: done, refused, failed or killed, wherever it is.
Stop(p) ==
  /\ ~At(p, "idle")
  /\ Becomes(p, Idle)
  /\ UNCHANGED <<settings, creds, stores, made, printed, named>>

Next ==
  \E p \in Procs :
    \/ \E name \in Names, c \in Configs : InitCheck(p, name, c)
    \/ \E given \in GivenKeys \cup {None} : InitKey(p, given)
    \/ InitWrite(p)
    \/ InitDone(p)
    \/ \E c \in Configs, path \in Paths, key \in GivenKeys : ResolveGiven(p, c, path, key)
    \/ \E asked \in Names \cup {None}, c \in Configs \cup {None},
          path \in Paths \cup {None}, key \in GivenKeys \cup {None} :
         ResolveProfile(p, asked, c, path, key)
    \/ ResolveKey(p)
    \/ OpenStore(p)
    \/ OpenRail(p)
    \/ Record(p)
    \/ Account(p)
    \/ Stop(p)

Spec == Init /\ [][Next]_vars

----------------------------------------------------------------------------
(* Properties *)

HasProfile(name) == settings.profiles[name] # None
DomainOf(name) == settings.domains[settings.profiles[name]]

\* A profile that exists can be acted on, whatever died half-way through its
\* creation and whichever of the two files a command has read so far: its
\* domain is installed, valid and was found usable, and its key is there (main.go:542,
\* "Credentials first: a profile without its key is recoverable by hand, a
\* key without its profile is harmless").
ProfileComplete ==
  /\ \A name \in Names : HasProfile(name) =>
       /\ DomainOf(name) \in Valid
       /\ CheckDomain(AsDomain(DomainOf(name)), Chains[DomainOf(name).rpc])
       /\ creds[name] # None
  /\ \A p \in Procs : At(p, "reading") => creds[proc[p].name] # None

\* An account shown to somebody, who may have sent money to it since, stays
\* the account of its profile (main.go writeJSON: "would otherwise destroy a
\* key, and with it access to money").
PrintedKept ==
  \A shown \in printed : HasProfile(shown[1]) /\ creds[shown[1]] = shown[2]

\* A store holds records of one ledger, the one it is bound to, however many
\* commands open it at once and whatever they were told (sqlite.go Open:
\* "sharing a store between two would alias their intents").
StoreOneLedger ==
  \A f \in Paths : stores[f].records \subseteq {stores[f].bound} \ {None}

\* A profile's own store, unless somebody pointed a command at it by name,
\* is bound to the ledger of the profile's domain (main.go resolve: "a
\* different (chain id, token) would bind records to the wrong ledger").
ProfileStoreOwn ==
  \A name \in Names \ named :
    stores[name].bound # None => HasProfile(name) /\ stores[name].bound = Ledger(DomainOf(name))

\* No profile ever moves to another domain, and no installed domain changes
\* under the profiles on it (main.go initProfile: "silently redefining it
\* would repoint every profile that uses it at another ledger").
DomainsStable ==
  [][/\ \A d \in DomainNames :
          settings.domains[d] # None => settings'.domains[d] = settings.domains[d]
     /\ \A name \in Names :
          HasProfile(name) => settings'.profiles[name] = settings.profiles[name]]_vars
=============================================================================
