--------------------------- MODULE RailctlProofs ---------------------------
(***************************************************************************)
(* What railctl's files keep for any number of commands, profiles, domain  *)
(* files and keys, as long as no two inits run side by side: one           *)
(* inductive invariant and the theorems it carries.                        *)
(***************************************************************************)
EXTENDS Railctl, TLAPS

----------------------------------------------------------------------------
(* The invariant                                                           *)

OneInit == \A p, q \in Procs : Initialising(p) /\ Initialising(q) => p = q

\* What CheckDomain finds of a domain file.
Usable(c) == CheckDomain(AsDomain(c), Chains[c.rpc])

\* An init holds copies of files nobody else has written since it read them,
\* and, between its two writes, its key is the one on file.
Copied(p) ==
  Initialising(p) =>
    /\ proc[p].name \in Names /\ proc[p].config \in Valid /\ proc[p].config.name # None
    /\ proc[p].settings = settings
    /\ MayInstall(settings, proc[p].name, proc[p].config)
    /\ At(p, "keyed") => proc[p].key \in Keys /\ proc[p].creds = creds /\ Usable(proc[p].config)
    /\ At(p, "half") => /\ proc[p].key \in Keys /\ creds[proc[p].name] = proc[p].key
                        /\ Usable(proc[p].config)

\* Commands that have found what they act on.
Acting(p) == proc[p].pc \in {"reading", "resolved", "claimed", "open"}

\* A ledger is what a store has, or may get: by -store, or as its profile's.
Fits(f, ledger) ==
  f \in named \/ (f \in Names /\ HasProfile(f) /\ Ledger(DomainOf(f)) = ledger)

\* What such a command holds agrees with the files, read one after the other.
Agrees(p) ==
  Acting(p) =>
    /\ proc[p].config \in Configs /\ proc[p].path \in Paths
    /\ Fits(proc[p].path, Ledger(proc[p].config))
    /\ At(p, "reading") => proc[p].name # None
    /\ proc[p].name # None => HasProfile(proc[p].name)
    /\ ~At(p, "reading") /\ proc[p].name # None => proc[p].key = creds[proc[p].name]
    /\ At(p, "open") => stores[proc[p].path].bound = Ledger(proc[p].config)

\* Every profile is whole.
Whole ==
  \A name \in Names : HasProfile(name) =>
    /\ settings.profiles[name] \in DomainNames
    /\ DomainOf(name) \in Valid /\ Usable(DomainOf(name))
    /\ creds[name] # None

Bound == \A f \in Paths : stores[f].bound # None => Fits(f, stores[f].bound)

Inv == /\ TypeOK /\ OneInit /\ Whole /\ Bound /\ PrintedKept /\ StoreOneLedger
       /\ \A p \in Procs : Copied(p) /\ Agrees(p)

----------------------------------------------------------------------------
(* Types                                                                   *)

LEMMA IdleTyped == Idle \in Processes
PROOF
<1>1. NoSettings \in Settings /\ NoCreds \in Creds
  BY DEF NoSettings, Settings, NoCreds, Creds
<1>2. QED  BY <1>1 DEF Idle, Processes, Steps

\* A step replaces the state of one process.
LEMMA OneMoves ==
  ASSUME TypeOK, NEW p \in Procs, NEW s \in Processes, Becomes(p, s)
  PROVE  /\ proc' \in [Procs -> Processes] /\ proc'[p] = s
         /\ \A q \in Procs : q # p => proc'[q] = proc[q]
PROOF
  BY DEF Becomes, TypeOK

LEMMA InitInv == Init => Inv
PROOF
<1> SUFFICES ASSUME Init PROVE Inv
  OBVIOUS
<1>1. NoSettings \in Settings /\ NoCreds \in Creds
  BY DEF NoSettings, Settings, NoCreds, Creds
<1>2. TypeOK
  BY <1>1, IdleTyped, BoundAssumption DEF Init, TypeOK
<1>3. \A p \in Procs : proc[p] = Idle /\ proc[p].pc = "idle"
  BY DEF Init, Idle
<1>4. \A name \in Names : ~HasProfile(name)
  BY DEF Init, NoSettings, HasProfile
<1>5. \A f \in Paths : stores[f].bound = None /\ stores[f].records = {}
  BY DEF Init
<1>6. OneInit /\ \A p \in Procs : Copied(p) /\ Agrees(p)
  BY <1>3 DEF OneInit, Copied, Agrees, Initialising, Acting
<1>7. Whole /\ Bound /\ PrintedKept /\ StoreOneLedger
  BY <1>4, <1>5 DEF Init, Whole, Bound, PrintedKept, StoreOneLedger
<1>8. QED  BY <1>2, <1>6, <1>7 DEF Inv

----------------------------------------------------------------------------
(* What no step takes back                                                 *)

\* A profile, its domain and its key stay what they are, and so does the
\* ledger a store is bound to.
Grow ==
  /\ \A n \in Names : HasProfile(n) =>
       settings'.profiles[n] = settings.profiles[n] /\ creds'[n] = creds[n]
  /\ \A d \in DomainNames :
       settings.domains[d] # None => settings'.domains[d] = settings.domains[d]
  /\ named \subseteq named'
  /\ \A f \in Paths : stores[f].bound # None => stores'[f].bound = stores[f].bound

LEMMA ConfigsTyped == /\ Valid \subseteq Configs /\ None \notin Configs /\ None \notin Ledgers
                      /\ None \notin Names /\ None \notin Keys /\ None \notin Paths
                      /\ Names \subseteq Paths
                      /\ \A c \in Configs : Ledger(c) \in Ledgers
                      /\ \A c \in Configs : c.name # None => c.name \in DomainNames
PROOF
  BY NoneAssumption DEF Paths, Ledgers, DomainNames, Valid

FitsAfter(f, ledger) ==
  \/ f \in named'
  \/ /\ f \in Names /\ settings'.profiles[f] # None
     /\ Ledger(settings'.domains[settings'.profiles[f]]) = ledger

LEMMA FitsKept ==
  ASSUME Inv, Grow
  PROVE  \A f \in Paths, l \in Ledgers : Fits(f, l) => FitsAfter(f, l)
PROOF
<1> SUFFICES ASSUME NEW f \in Paths, NEW l \in Ledgers, Fits(f, l) PROVE FitsAfter(f, l)
  OBVIOUS
<1>1. CASE f \in named  BY <1>1 DEF Grow, FitsAfter
<1>2. CASE f \in Names /\ HasProfile(f) /\ Ledger(DomainOf(f)) = l
  <2>1. settings'.profiles[f] = settings.profiles[f]  BY <1>2 DEF Grow
  <2>2. settings.profiles[f] \in DomainNames /\ DomainOf(f) # None
    BY <1>2, ConfigsTyped DEF Inv, Whole
  <2>3. settings'.domains[settings.profiles[f]] = settings.domains[settings.profiles[f]]
    BY <2>2 DEF Grow, DomainOf
  <2>4. QED  BY <1>2, <2>1, <2>3 DEF FitsAfter, HasProfile, DomainOf
<1>3. QED  BY <1>1, <1>2 DEF Fits

\* A command that does not move still agrees with what the others write.
LEMMA AgreesKept ==
  ASSUME Inv, Grow, NEW q \in Procs, proc'[q] = proc[q]
  PROVE  Agrees(q)'
PROOF
<1> SUFFICES ASSUME Acting(q) PROVE Agrees(q)'
  BY DEF Agrees, Acting
<1>1. /\ proc[q].config \in Configs /\ proc[q].path \in Paths
      /\ Fits(proc[q].path, Ledger(proc[q].config))
      /\ At(q, "reading") => proc[q].name # None
      /\ proc[q].name # None => HasProfile(proc[q].name)
      /\ ~At(q, "reading") /\ proc[q].name # None => proc[q].key = creds[proc[q].name]
      /\ At(q, "open") => stores[proc[q].path].bound = Ledger(proc[q].config)
  BY DEF Inv, Agrees
<1>2. FitsAfter(proc[q].path, Ledger(proc[q].config))
  BY <1>1, FitsKept, ConfigsTyped
<1>3. proc[q].name # None =>
        /\ HasProfile(proc[q].name)'
        /\ ~At(q, "reading") => proc'[q].key = creds'[proc'[q].name]
  <2> SUFFICES ASSUME proc[q].name # None
               PROVE  /\ HasProfile(proc[q].name)'
                      /\ ~At(q, "reading") => proc'[q].key = creds'[proc'[q].name]
    OBVIOUS
  <2>1. proc[q].name \in Names  BY DEF Inv, TypeOK, Processes
  <2>2. QED  BY <1>1, <2>1 DEF Grow, HasProfile
<1>4. At(q, "open") => stores'[proc[q].path].bound = Ledger(proc[q].config)
  BY <1>1, ConfigsTyped DEF Grow
<1>5. QED
  BY <1>1, <1>2, <1>3, <1>4 DEF Agrees, At, Fits, FitsAfter, HasProfile, DomainOf

LEMMA CopiedKept ==
  ASSUME Inv, NEW q \in Procs, proc'[q] = proc[q],
         (settings' = settings /\ creds' = creds) \/ ~Initialising(q)
  PROVE  Copied(q)'
PROOF
  BY DEF Inv, Copied, Initialising, At, MayInstall

LEMMA BoundKept ==
  ASSUME Inv, Grow, \A f \in Paths : stores'[f].bound = stores[f].bound
  PROVE  Bound'
PROOF
<1>1. \A f \in Paths : stores[f].bound \in Ledgers \cup {None}
  BY DEF Inv, TypeOK
<1>2. \A f \in Paths : stores[f].bound # None => FitsAfter(f, stores[f].bound)
  BY <1>1, FitsKept DEF Inv, Bound
<1>3. QED  BY <1>2 DEF Bound, Fits, FitsAfter, HasProfile, DomainOf

----------------------------------------------------------------------------
(* Commands: they read the two files and never write them.                 *)

LEMMA CommandInv ==
  ASSUME Inv, NEW p \in Procs, TypeOK', Grow,
         settings' = settings, creds' = creds,
         \A q \in Procs : q # p => proc'[q] = proc[q],
         ~Initialising(p)', Agrees(p)', Bound', StoreOneLedger', PrintedKept'
  PROVE  Inv'
PROOF
<1>1. \A q \in Procs : Initialising(q)' => Initialising(q)
  BY DEF Initialising
<1>2. OneInit'
  BY <1>1 DEF Inv, OneInit
<1>3. Whole'
  BY DEF Inv, Whole, HasProfile, DomainOf
<1>4. ASSUME NEW q \in Procs PROVE Copied(q)' /\ Agrees(q)'
  <2>1. CASE q = p  BY <2>1 DEF Copied
  <2>2. CASE q # p  BY <2>2, CopiedKept, AgreesKept
  <2>3. QED  BY <2>1, <2>2
<1>5. QED  BY <1>2, <1>3, <1>4 DEF Inv

\* Reading changes nothing but what the command holds, and what is named.
LEMMA ReaderInv ==
  ASSUME Inv, NEW p \in Procs, TypeOK', ~Initialising(p)', Agrees(p)',
         UNCHANGED <<settings, creds, stores, printed>>, named \subseteq named',
         \A q \in Procs : q # p => proc'[q] = proc[q]
  PROVE  Inv'
PROOF
<1>1. Grow  BY DEF Grow
<1>2. Bound'  BY <1>1, BoundKept
<1>3. StoreOneLedger' /\ PrintedKept'
  BY DEF Inv, StoreOneLedger, PrintedKept, HasProfile
<1>4. QED  BY <1>1, <1>2, <1>3, CommandInv

LEMMA ResolveGivenInv ==
  ASSUME Inv, NEW p \in Procs, NEW c \in Configs, NEW path \in Paths, NEW key \in GivenKeys,
         ResolveGiven(p, c, path, key)
  PROVE  Inv'
PROOF
<1> DEFINE me == [Idle EXCEPT !.pc = "resolved", !.config = c, !.path = path, !.key = key]
<1>1. me \in Processes /\ me.pc = "resolved" /\ me.config = c /\ me.path = path /\ me.name = None
  <2>1. key \in Keys  BY DEF Keys
  <2>2. QED  BY <2>1, IdleTyped DEF Idle, Processes, Steps
<1>2. Becomes(p, me) /\ named' = named \cup {path}
      /\ UNCHANGED <<settings, creds, stores, made, printed>>
  BY DEF ResolveGiven
<1> HIDE DEF me
<1>3. /\ proc' \in [Procs -> Processes] /\ proc'[p] = me
      /\ \A q \in Procs : q # p => proc'[q] = proc[q]
  BY <1>1, <1>2, OneMoves DEF Inv
<1>4. TypeOK'  BY <1>2, <1>3 DEF Inv, TypeOK
<1>5. ~Initialising(p)' /\ Agrees(p)'
  BY <1>1, <1>2, <1>3 DEF Initialising, Agrees, Fits, At
<1>6. QED  BY <1>2, <1>3, <1>4, <1>5, ReaderInv

LEMMA ResolveProfileInv ==
  ASSUME Inv, NEW p \in Procs, NEW asked \in Names \cup {None}, NEW c \in Configs \cup {None},
         NEW path \in Paths \cup {None}, NEW key \in GivenKeys \cup {None},
         ResolveProfile(p, asked, c, path, key)
  PROVE  Inv'
PROOF
<1> DEFINE name == IF asked = None THEN settings.current ELSE asked
           installed == settings.domains[settings.profiles[name]]
           me == [Idle EXCEPT
                   !.pc = IF key = None THEN "reading" ELSE "resolved",
                   !.name = IF key = None THEN name ELSE None,
                   !.config = IF c = None THEN installed ELSE c,
                   !.path = IF path = None THEN name ELSE path,
                   !.key = key]
<1>1. /\ name # None /\ settings.profiles[name] # None
      /\ c # None => MayOverride(c, installed)
      /\ Becomes(p, me)
      /\ named' = IF path = None THEN named ELSE named \cup {path}
      /\ UNCHANGED <<settings, creds, stores, made, printed>>
  BY DEF ResolveProfile
<1>2. name \in Names
  BY <1>1 DEF Inv, TypeOK, Settings
<1> HIDE DEF name
<1>3. HasProfile(name) /\ installed = DomainOf(name) /\ installed \in Configs
  BY <1>1, <1>2, ConfigsTyped DEF Inv, Whole, HasProfile, DomainOf
<1> HIDE DEF installed
<1>4. /\ me.pc = (IF key = None THEN "reading" ELSE "resolved")
      /\ me.name = (IF key = None THEN name ELSE None)
      /\ me.config = (IF c = None THEN installed ELSE c)
      /\ me.path = (IF path = None THEN name ELSE path)
  BY DEF Idle
<1>5. me \in Processes
  <2>1. key \in Keys \cup {None}  BY DEF Keys
  <2>2. name \in Paths  BY <1>2 DEF Paths
  <2>3. QED  BY <1>2, <1>3, <2>1, <2>2, IdleTyped DEF Idle, Processes, Steps
<1> HIDE DEF me
<1>6. /\ proc' \in [Procs -> Processes] /\ proc'[p] = me
      /\ \A q \in Procs : q # p => proc'[q] = proc[q]
  BY <1>1, <1>5, OneMoves DEF Inv
<1>7. TypeOK'  BY <1>1, <1>6 DEF Inv, TypeOK
<1>8. ~Initialising(p)'  BY <1>4, <1>6 DEF Initialising
<1>9. FitsAfter(me.path, Ledger(me.config))
  <2>1. settings'.profiles[name] # None /\ settings'.domains[settings'.profiles[name]] = installed
    BY <1>1, <1>3 DEF HasProfile, DomainOf
  <2>2. Ledger(me.config) = Ledger(installed)
    BY <1>1, <1>4 DEF MayOverride
  <2>3. me.path \in named' \/ me.path = name
    BY <1>1, <1>4
  <2>4. QED  BY <1>2, <2>1, <2>2, <2>3 DEF FitsAfter
<1>10. Agrees(p)'
  <2>1. me.config \in Configs /\ me.path \in Paths
    BY <1>2, <1>3, <1>4, ConfigsTyped
  <2>2. me.name # None => settings'.profiles[me.name] # None
    BY <1>1, <1>3, <1>4 DEF HasProfile
  <2>3. me.pc = "reading" => me.name # None
    BY <1>1, <1>4
  <2>4. me.pc # "reading" => me.name = None
    BY <1>4
  <2>5. me.pc # "open"  BY <1>4
  <2>6. QED
    BY <1>6, <1>9, <2>1, <2>2, <2>3, <2>4, <2>5
       DEF Agrees, At, Fits, FitsAfter, HasProfile, DomainOf
<1>11. QED  BY <1>1, <1>6, <1>7, <1>8, <1>10, ReaderInv

LEMMA StopInv ==
  ASSUME Inv, NEW p \in Procs, Stop(p)
  PROVE  Inv'
PROOF
<1>1. Becomes(p, Idle) /\ UNCHANGED <<settings, creds, stores, made, printed, named>>
  BY DEF Stop
<1>2. /\ proc' \in [Procs -> Processes] /\ proc'[p] = Idle
      /\ \A q \in Procs : q # p => proc'[q] = proc[q]
  BY <1>1, IdleTyped, OneMoves DEF Inv
<1>3. TypeOK'  BY <1>1, <1>2 DEF Inv, TypeOK
<1>4. ~Initialising(p)' /\ Agrees(p)'
  BY <1>2 DEF Initialising, Agrees, Acting, Idle
<1>5. QED  BY <1>1, <1>2, <1>3, <1>4, ReaderInv

LEMMA ResolveKeyInv ==
  ASSUME Inv, NEW p \in Procs, ResolveKey(p)
  PROVE  Inv'
PROOF
<1> DEFINE me == [proc[p] EXCEPT !.pc = "resolved", !.key = creds[proc[p].name]]
<1>1. /\ proc[p].pc = "reading" /\ creds[proc[p].name] # None
      /\ Becomes(p, me) /\ UNCHANGED <<settings, creds, stores, made, printed, named>>
  BY DEF ResolveKey, At
<1>2. /\ proc[p] \in Processes /\ proc[p].name # None /\ HasProfile(proc[p].name)
      /\ proc[p].config \in Configs /\ proc[p].path \in Paths
      /\ Fits(proc[p].path, Ledger(proc[p].config))
  BY <1>1 DEF Inv, TypeOK, Agrees, Acting, At
<1>3. creds[proc[p].name] \in Keys
  BY <1>1, <1>2 DEF Inv, TypeOK, Creds, Processes
<1>4. /\ me \in Processes /\ me.pc = "resolved" /\ me.key = creds[proc[p].name]
      /\ me.name = proc[p].name /\ me.config = proc[p].config /\ me.path = proc[p].path
  BY <1>2, <1>3 DEF Processes, Steps
<1> HIDE DEF me
<1>5. /\ proc' \in [Procs -> Processes] /\ proc'[p] = me
      /\ \A q \in Procs : q # p => proc'[q] = proc[q]
  BY <1>1, <1>4, OneMoves DEF Inv
<1>6. TypeOK'  BY <1>1, <1>5 DEF Inv, TypeOK
<1>7. ~Initialising(p)' /\ Agrees(p)'
  BY <1>1, <1>2, <1>4, <1>5 DEF Initialising, Agrees, At, Fits, HasProfile, DomainOf
<1>8. QED  BY <1>1, <1>5, <1>6, <1>7, ReaderInv

LEMMA OpenRailInv ==
  ASSUME Inv, NEW p \in Procs, OpenRail(p)
  PROVE  Inv'
PROOF
<1> DEFINE me == [proc[p] EXCEPT !.pc = "open"]
<1>1. /\ proc[p].pc = "claimed" /\ stores[proc[p].path].bound = Ledger(proc[p].config)
      /\ Becomes(p, me) /\ UNCHANGED <<settings, creds, stores, made, printed, named>>
  BY DEF OpenRail, At
<1>2. /\ proc[p] \in Processes
      /\ proc[p].config \in Configs /\ proc[p].path \in Paths
      /\ Fits(proc[p].path, Ledger(proc[p].config))
      /\ proc[p].name # None => HasProfile(proc[p].name) /\ proc[p].key = creds[proc[p].name]
  BY <1>1 DEF Inv, TypeOK, Agrees, Acting, At
<1>3. /\ me \in Processes /\ me.pc = "open" /\ me.key = proc[p].key
      /\ me.name = proc[p].name /\ me.config = proc[p].config /\ me.path = proc[p].path
  BY <1>2 DEF Processes, Steps
<1> HIDE DEF me
<1>4. /\ proc' \in [Procs -> Processes] /\ proc'[p] = me
      /\ \A q \in Procs : q # p => proc'[q] = proc[q]
  BY <1>1, <1>3, OneMoves DEF Inv
<1>5. TypeOK'  BY <1>1, <1>4 DEF Inv, TypeOK
<1>6. ~Initialising(p)' /\ Agrees(p)'
  BY <1>1, <1>2, <1>3, <1>4 DEF Initialising, Agrees, At, Fits, HasProfile, DomainOf
<1>7. QED  BY <1>1, <1>4, <1>5, <1>6, ReaderInv

\* Claiming a store: the first to come decides its ledger for good.
LEMMA OpenStoreInv ==
  ASSUME Inv, NEW p \in Procs, OpenStore(p)
  PROVE  Inv'
PROOF
<1> DEFINE me == [proc[p] EXCEPT !.pc = "claimed"]
           f == proc[p].path
           l == Ledger(proc[p].config)
<1>1. /\ proc[p].pc = "resolved" /\ Becomes(p, me)
      /\ stores' = [stores EXCEPT ![f].bound = Bind(@, l)]
      /\ UNCHANGED <<settings, creds, made, printed, named>>
  BY DEF OpenStore, At
<1>2. /\ proc[p] \in Processes
      /\ proc[p].config \in Configs /\ f \in Paths /\ Fits(f, l)
      /\ proc[p].name # None => HasProfile(proc[p].name) /\ proc[p].key = creds[proc[p].name]
  BY <1>1 DEF Inv, TypeOK, Agrees, Acting, At
<1>3. /\ me \in Processes /\ me.pc = "claimed" /\ me.key = proc[p].key
      /\ me.name = proc[p].name /\ me.config = proc[p].config /\ me.path = f
  BY <1>2 DEF Processes, Steps
<1>4. l \in Ledgers  BY <1>2, ConfigsTyped
<1> HIDE DEF me, f, l
<1>5. /\ proc' \in [Procs -> Processes] /\ proc'[p] = me
      /\ \A q \in Procs : q # p => proc'[q] = proc[q]
  BY <1>1, <1>3, OneMoves DEF Inv
<1>6. /\ stores' \in [Paths -> [bound : Ledgers \cup {None}, records : SUBSET Ledgers]]
      /\ \A g \in Paths : g # f => stores'[g] = stores[g]
      /\ stores'[f].bound = (IF stores[f].bound = None THEN l ELSE stores[f].bound)
      /\ stores'[f].records = stores[f].records
  BY <1>1, <1>2, <1>4 DEF Inv, TypeOK, Bind
<1>7. TypeOK'  BY <1>1, <1>5, <1>6 DEF Inv, TypeOK
<1>8. Grow  BY <1>1, <1>6 DEF Grow
<1>9. ~Initialising(p)' /\ Agrees(p)'
  <2>1. FitsAfter(f, l)  BY <1>2, <1>4, <1>8, FitsKept
  <2>2. /\ me.config \in Configs /\ Ledger(me.config) = l
        /\ me.name # None => settings'.profiles[me.name] # None /\ me.key = creds'[me.name]
    BY <1>1, <1>2, <1>3 DEF l, HasProfile
  <2>3. QED
    BY <1>2, <1>3, <1>5, <2>1, <2>2
       DEF Initialising, Agrees, At, Fits, FitsAfter, HasProfile, DomainOf
<1>10. Bound'
  <2>1. \A g \in Paths : stores[g].bound # None => FitsAfter(g, stores[g].bound)
    <3>1. \A g \in Paths : stores[g].bound \in Ledgers \cup {None}  BY DEF Inv, TypeOK
    <3>2. QED  BY <1>8, <3>1, FitsKept DEF Inv, Bound
  <2>2. FitsAfter(f, l)  BY <1>2, <1>4, <1>8, FitsKept
  <2>3. \A g \in Paths : stores'[g].bound # None => FitsAfter(g, stores'[g].bound)
    BY <1>6, <2>1, <2>2
  <2>4. QED  BY <2>3 DEF Bound, Fits, FitsAfter, HasProfile, DomainOf
<1>11. StoreOneLedger'
  BY <1>2, <1>6 DEF Inv, StoreOneLedger
<1>12. PrintedKept'
  BY <1>1 DEF Inv, PrintedKept, HasProfile
<1>13. QED  BY <1>1, <1>5, <1>7, <1>8, <1>9, <1>10, <1>11, <1>12, CommandInv

LEMMA RecordInv ==
  ASSUME Inv, NEW p \in Procs, Record(p)
  PROVE  Inv'
PROOF
<1> DEFINE f == proc[p].path
           l == Ledger(proc[p].config)
<1>1. /\ proc[p].pc = "open" /\ proc' = proc
      /\ stores' = [stores EXCEPT ![f].records = @ \cup {l}]
      /\ UNCHANGED <<settings, creds, made, printed, named>>
  BY DEF Record, At
<1>2. f \in Paths /\ l \in Ledgers /\ stores[f].bound = l
  BY <1>1, ConfigsTyped DEF Inv, Agrees, Acting, At
<1> HIDE DEF f, l
<1>3. /\ stores' \in [Paths -> [bound : Ledgers \cup {None}, records : SUBSET Ledgers]]
      /\ \A g \in Paths : stores'[g].bound = stores[g].bound
      /\ \A g \in Paths : g # f => stores'[g].records = stores[g].records
      /\ stores'[f].records = stores[f].records \cup {l}
  BY <1>1, <1>2 DEF Inv, TypeOK
<1>4. TypeOK'  BY <1>1, <1>3 DEF Inv, TypeOK
<1>5. Grow  BY <1>1, <1>3 DEF Grow
<1>6. Agrees(p)' /\ ~Initialising(p)'
  BY <1>1, <1>5, AgreesKept DEF Initialising
<1>7. Bound'  BY <1>3, <1>5, BoundKept
<1>8. StoreOneLedger'
  BY <1>2, <1>3, ConfigsTyped DEF Inv, StoreOneLedger
<1>9. PrintedKept'
  BY <1>1 DEF Inv, PrintedKept, HasProfile
<1>10. QED  BY <1>1, <1>4, <1>5, <1>6, <1>7, <1>8, <1>9, CommandInv

LEMMA AccountInv ==
  ASSUME Inv, NEW p \in Procs, Account(p)
  PROVE  Inv'
PROOF
<1>1. /\ proc[p].pc = "open" /\ proc[p].name # None /\ proc' = proc
      /\ printed' = printed \cup {<<proc[p].name, proc[p].key>>}
      /\ UNCHANGED <<settings, creds, stores, made, named>>
  BY DEF Account, At
<1>2. proc[p].name \in Names /\ HasProfile(proc[p].name)
      /\ proc[p].key = creds[proc[p].name]
  BY <1>1 DEF Inv, TypeOK, Processes, Agrees, Acting, At
<1>3. creds[proc[p].name] \in Keys
  BY <1>2 DEF Inv, TypeOK, Creds, Whole
<1>4. TypeOK'  BY <1>1, <1>2, <1>3 DEF Inv, TypeOK
<1>5. Grow  BY <1>1 DEF Grow
<1>6. Agrees(p)' /\ ~Initialising(p)'
  BY <1>1, <1>5, AgreesKept DEF Initialising
<1>7. Bound' /\ StoreOneLedger'
  BY <1>1, <1>5, BoundKept DEF Inv, StoreOneLedger
<1>8. PrintedKept'
  BY <1>1, <1>2 DEF Inv, PrintedKept, HasProfile
<1>9. QED  BY <1>1, <1>4, <1>5, <1>6, <1>7, <1>8, CommandInv

----------------------------------------------------------------------------
(* Init: the only writer of the two files.                                 *)

LEMMA InitCheckInv ==
  ASSUME ~Overlap, Inv, NEW p \in Procs, NEW name \in Names, NEW c \in Configs,
         InitCheck(p, name, c)
  PROVE  Inv'
PROOF
<1> DEFINE me == [Idle EXCEPT !.pc = "checked", !.name = name, !.config = c,
                              !.settings = settings]
<1>1. /\ \A q \in Procs : ~Initialising(q)
      /\ c.name # None /\ c \in Valid /\ MayInstall(settings, name, c)
      /\ Becomes(p, me) /\ UNCHANGED <<settings, creds, stores, made, printed, named>>
  BY DEF InitCheck
<1>2. /\ me \in Processes /\ me.pc = "checked" /\ me.name = name /\ me.config = c
      /\ me.settings = settings
  BY IdleTyped DEF Idle, Processes, Steps, Inv, TypeOK
<1> HIDE DEF me
<1>3. /\ proc' \in [Procs -> Processes] /\ proc'[p] = me
      /\ \A q \in Procs : q # p => proc'[q] = proc[q]
  BY <1>1, <1>2, OneMoves DEF Inv
<1>4. TypeOK'  BY <1>1, <1>3 DEF Inv, TypeOK
<1>5. Grow  BY <1>1 DEF Grow
<1>6. OneInit'
  BY <1>1, <1>3 DEF OneInit, Initialising
<1>7. Copied(p)' /\ Agrees(p)'
  BY <1>1, <1>2, <1>3 DEF Copied, Agrees, Acting, At, MayInstall
<1>8. ASSUME NEW q \in Procs PROVE Copied(q)' /\ Agrees(q)'
  BY <1>1, <1>3, <1>5, <1>7, CopiedKept, AgreesKept
<1>9. Whole' /\ Bound' /\ PrintedKept' /\ StoreOneLedger'
  BY <1>1, <1>5, BoundKept
     DEF Inv, Whole, PrintedKept, StoreOneLedger, HasProfile, DomainOf
<1>10. QED  BY <1>4, <1>6, <1>8, <1>9 DEF Inv

\* The steps of an init that has begun: what is left to show of each.
LEMMA InitStepInv ==
  ASSUME Inv, NEW p \in Procs, Initialising(p), TypeOK', Grow,
         \A q \in Procs : q # p => proc'[q] = proc[q],
         stores' = stores, Copied(p)', Agrees(p)', Whole', PrintedKept'
  PROVE  Inv'
PROOF
<1>1. \A q \in Procs : q # p => ~Initialising(q)
  BY DEF Inv, OneInit
<1>2. OneInit'
  BY <1>1 DEF OneInit, Initialising
<1>3. ASSUME NEW q \in Procs PROVE Copied(q)' /\ Agrees(q)'
  BY <1>1, CopiedKept, AgreesKept
<1>4. Bound' /\ StoreOneLedger'
  BY BoundKept DEF Inv, StoreOneLedger
<1>5. QED  BY <1>2, <1>3, <1>4 DEF Inv

\* What an init under way holds.
LEMMA InitHolds ==
  ASSUME Inv, NEW p \in Procs, Initialising(p)
  PROVE  /\ proc[p] \in Processes
         /\ proc[p].name \in Names /\ proc[p].config \in Valid
         /\ proc[p].config.name \in DomainNames
         /\ proc[p].settings = settings
         /\ ~HasProfile(proc[p].name)
         /\ settings.domains[proc[p].config.name] \in {None, proc[p].config}
         /\ At(p, "keyed") => proc[p].key \in Keys /\ proc[p].creds = creds
         /\ At(p, "half") => /\ proc[p].key \in Keys /\ creds[proc[p].name] = proc[p].key
                             /\ Usable(proc[p].config)
PROOF
  BY ConfigsTyped DEF Inv, TypeOK, Copied, MayInstall, HasProfile

LEMMA InitKeyInv ==
  ASSUME Inv, NEW p \in Procs, NEW given \in GivenKeys \cup {None}, InitKey(p, given)
  PROVE  Inv'
PROOF
<1> DEFINE key == IF given = None THEN made + 1 ELSE given
           me == [proc[p] EXCEPT !.pc = "keyed", !.key = key, !.creds = creds]
<1>1. /\ proc[p].pc = "checked" /\ Initialising(p) /\ key \in Keys
      /\ made' = (IF given = None THEN made + 1 ELSE made)
      /\ Usable(proc[p].config)
      /\ Becomes(p, me) /\ UNCHANGED <<settings, creds, stores, printed, named>>
  BY DEF InitKey, At, Initialising, Usable
<1>2. made' \in 0 .. MaxKeys
  <2>1. CASE given = None
    <3>1. made + 1 \in Keys /\ made \in 0 .. MaxKeys /\ made' = made + 1
      BY <1>1, <2>1 DEF Inv, TypeOK
    <3>2. made + 1 \in 1 .. MaxKeys \/ made + 1 \in GivenKeys
      BY <3>1 DEF Keys
    <3>3. QED  BY <3>1, <3>2, BoundAssumption, GivenAssumption
  <2>2. CASE given # None  BY <1>1, <2>2 DEF Inv, TypeOK
  <2>3. QED  BY <2>1, <2>2
<1> HIDE DEF key
<1>3. proc[p] \in Processes /\ creds \in Creds  BY DEF Inv, TypeOK
<1>4. /\ me \in Processes /\ me.pc = "keyed" /\ me.key = key /\ me.creds = creds
      /\ me.name = proc[p].name /\ me.config = proc[p].config
      /\ me.settings = proc[p].settings
  BY <1>1, <1>3 DEF Processes, Steps
<1> HIDE DEF me
<1>5. /\ proc' \in [Procs -> Processes] /\ proc'[p] = me
      /\ \A q \in Procs : q # p => proc'[q] = proc[q]
  BY <1>1, <1>4, OneMoves DEF Inv
<1>6. TypeOK'  BY <1>1, <1>2, <1>5 DEF Inv, TypeOK
<1>7. Grow  BY <1>1 DEF Grow
<1>8. Copied(p)' /\ Agrees(p)'
  BY <1>1, <1>4, <1>5 DEF Inv, Copied, Agrees, Acting, Initialising, At, MayInstall
<1>9. Whole' /\ PrintedKept'
  BY <1>1 DEF Inv, Whole, PrintedKept, HasProfile, DomainOf
<1>10. QED  BY <1>1, <1>5, <1>6, <1>7, <1>8, <1>9, InitStepInv

LEMMA InitWriteInv ==
  ASSUME Inv, NEW p \in Procs, InitWrite(p)
  PROVE  Inv'
PROOF
<1> DEFINE me == [proc[p] EXCEPT !.pc = "half"]
           name == proc[p].name
           key == proc[p].key
<1>1. /\ proc[p].pc = "keyed" /\ Initialising(p)
      /\ creds' = [proc[p].creds EXCEPT ![name] = key]
      /\ Becomes(p, me) /\ UNCHANGED <<settings, stores, made, printed, named>>
  BY DEF InitWrite, At, Initialising, WriteFile, WithKey, FirstFile
<1>2. /\ proc[p] \in Processes /\ name \in Names /\ key \in Keys /\ proc[p].creds = creds
      /\ ~HasProfile(name)
  BY <1>1, InitHolds DEF At
<1>3. /\ me \in Processes /\ me.pc = "half" /\ me.key = key
      /\ me.name = name /\ me.config = proc[p].config /\ me.settings = proc[p].settings
  BY <1>2 DEF Processes, Steps
<1> HIDE DEF me, name, key
<1>4. /\ proc' \in [Procs -> Processes] /\ proc'[p] = me
      /\ \A q \in Procs : q # p => proc'[q] = proc[q]
  BY <1>1, <1>3, OneMoves DEF Inv
<1>5. /\ creds' \in Creds /\ creds'[name] = key
      /\ \A n \in Names : n # name => creds'[n] = creds[n]
  BY <1>1, <1>2 DEF Inv, TypeOK, Creds
<1>6. TypeOK'  BY <1>1, <1>4, <1>5 DEF Inv, TypeOK
<1>7. \A n \in Names : HasProfile(n) => creds'[n] = creds[n]
  BY <1>2, <1>5
<1>8. Grow  BY <1>1, <1>7 DEF Grow
<1>9. Copied(p)' /\ Agrees(p)'
  BY <1>1, <1>2, <1>3, <1>4, <1>5
     DEF Inv, Copied, Agrees, Acting, Initialising, At, MayInstall, name
<1>10. Whole'
  BY <1>1, <1>7 DEF Inv, Whole, HasProfile, DomainOf
<1>11. PrintedKept'
  <2>1. \A shown \in printed : shown[1] \in Names  BY DEF Inv, TypeOK
  <2>2. QED  BY <1>1, <1>7, <2>1 DEF Inv, PrintedKept, HasProfile
<1>12. QED  BY <1>1, <1>4, <1>6, <1>8, <1>9, <1>10, <1>11, InitStepInv

LEMMA InitDoneInv ==
  ASSUME Inv, NEW p \in Procs, InitDone(p)
  PROVE  Inv'
PROOF
<1> DEFINE name == proc[p].name
           key == proc[p].key
           c == proc[p].config
<1>1. /\ proc[p].pc = "half" /\ Initialising(p)
      /\ settings' = Installed(proc[p])
      /\ printed' = printed \cup {<<name, key>>}
      /\ Becomes(p, Idle) /\ UNCHANGED <<creds, stores, made, named>>
  BY DEF InitDone, At, Initialising, WriteFile, WithKey, FirstFile
<1>2. /\ name \in Names /\ c \in Valid /\ c.name \in DomainNames
      /\ proc[p].settings = settings /\ ~HasProfile(name)
      /\ settings.domains[c.name] \in {None, c}
      /\ key \in Keys /\ creds[name] = key /\ Usable(c)
  BY <1>1, InitHolds DEF At
<1>3. settings' = [current  |-> IF settings.current = None THEN name ELSE settings.current,
                   domains  |-> [settings.domains EXCEPT ![c.name] = c],
                   profiles |-> [settings.profiles EXCEPT ![name] = c.name]]
  BY <1>1, <1>2 DEF Installed
<1> HIDE DEF name, key, c
<1>4. /\ proc' \in [Procs -> Processes] /\ proc'[p] = Idle
      /\ \A q \in Procs : q # p => proc'[q] = proc[q]
  BY <1>1, IdleTyped, OneMoves DEF Inv
<1>5. /\ settings' \in Settings
      /\ settings'.profiles[name] = c.name /\ settings'.domains[c.name] = c
      /\ \A n \in Names : n # name => settings'.profiles[n] = settings.profiles[n]
      /\ \A d \in DomainNames : d # c.name => settings'.domains[d] = settings.domains[d]
  BY <1>2, <1>3, ConfigsTyped DEF Inv, TypeOK, Settings
<1>6. TypeOK'  BY <1>1, <1>2, <1>4, <1>5 DEF Inv, TypeOK
<1>7. Grow  BY <1>1, <1>2, <1>5 DEF Grow
<1>8. Copied(p)' /\ Agrees(p)'
  BY <1>4 DEF Copied, Agrees, Acting, Initialising, Idle
<1>9. c.name # None /\ key # None
  BY <1>2, ConfigsTyped DEF DomainNames
<1>10. Whole'
  <2> SUFFICES ASSUME NEW n \in Names, HasProfile(n)'
               PROVE  /\ settings'.profiles[n] \in DomainNames
                      /\ settings'.domains[settings'.profiles[n]] \in Valid
                      /\ Usable(settings'.domains[settings'.profiles[n]])
                      /\ creds'[n] # None
    BY DEF Whole, DomainOf, Usable
  <2>1. CASE n = name  BY <1>1, <1>2, <1>5, <1>9, <2>1
  <2>2. CASE n # name
    <3>1. /\ settings'.profiles[n] = settings.profiles[n] /\ HasProfile(n)
          /\ settings.profiles[n] \in DomainNames /\ DomainOf(n) \in Valid
          /\ Usable(DomainOf(n)) /\ creds[n] # None
      BY <1>5, <2>2 DEF Inv, Whole, HasProfile
    <3>2. settings.domains[settings.profiles[n]] # None
      BY <3>1, ConfigsTyped DEF DomainOf
    <3>3. settings'.domains[settings.profiles[n]] = DomainOf(n)
      BY <3>1, <3>2, <1>7 DEF Grow, DomainOf
    <3>4. QED  BY <1>1, <3>1, <3>3
  <2>3. QED  BY <2>1, <2>2
<1>11. PrintedKept'
  <2>1. \A shown \in printed : shown[1] \in Names /\ HasProfile(shown[1]) /\ creds[shown[1]] = shown[2]
    BY DEF Inv, TypeOK, PrintedKept
  <2>2. \A shown \in printed : HasProfile(shown[1])' /\ creds'[shown[1]] = shown[2]
    BY <2>1, <1>1, <1>7 DEF Grow, HasProfile
  <2>3. settings'.profiles[name] # None /\ creds'[name] = key
    BY <1>1, <1>2, <1>5, <1>9
  <2>4. QED  BY <1>1, <2>2, <2>3 DEF PrintedKept, HasProfile
<1>12. QED  BY <1>1, <1>4, <1>6, <1>7, <1>8, <1>10, <1>11, InitStepInv

----------------------------------------------------------------------------
(* Theorems                                                                *)

\* One case per disjunct of Next, for the process that moves.
LEMMA NextInv == ~Overlap /\ Inv /\ [Next]_vars => Inv'
PROOF
<1> SUFFICES ASSUME ~Overlap, Inv, [Next]_vars PROVE Inv'
  OBVIOUS
<1>1. CASE UNCHANGED vars
  <2>1. Grow  BY <1>1 DEF vars, Grow
  <2>2. \A q \in Procs : Copied(q)' /\ Agrees(q)'
    BY <1>1, <2>1, CopiedKept, AgreesKept DEF vars
  <2>3. Bound'  BY <1>1, <2>1, BoundKept DEF vars
  <2>4. TypeOK' /\ OneInit' /\ Whole' /\ PrintedKept' /\ StoreOneLedger'
    BY <1>1 DEF vars, Inv, TypeOK, OneInit, Initialising, Whole, PrintedKept, StoreOneLedger,
                HasProfile, DomainOf
  <2>5. QED  BY <2>2, <2>3, <2>4 DEF Inv
<1>2. ASSUME NEW p \in Procs, NEW name \in Names, NEW c \in Configs, InitCheck(p, name, c)
      PROVE  Inv'
  BY <1>2, InitCheckInv
<1>3. ASSUME NEW p \in Procs, NEW given \in GivenKeys \cup {None}, InitKey(p, given)
      PROVE  Inv'
  BY <1>3, InitKeyInv
<1>4. ASSUME NEW p \in Procs, InitWrite(p) \/ InitDone(p) PROVE Inv'
  BY <1>4, InitWriteInv, InitDoneInv
<1>5. ASSUME NEW p \in Procs, NEW c \in Configs, NEW path \in Paths, NEW key \in GivenKeys,
             ResolveGiven(p, c, path, key)
      PROVE  Inv'
  BY <1>5, ResolveGivenInv
<1>6. ASSUME NEW p \in Procs, NEW asked \in Names \cup {None}, NEW c \in Configs \cup {None},
             NEW path \in Paths \cup {None}, NEW key \in GivenKeys \cup {None},
             ResolveProfile(p, asked, c, path, key)
      PROVE  Inv'
  BY <1>6, ResolveProfileInv
<1>7. ASSUME NEW p \in Procs,
             ResolveKey(p) \/ OpenStore(p) \/ OpenRail(p) \/ Record(p) \/ Account(p) \/ Stop(p)
      PROVE  Inv'
  BY <1>7, ResolveKeyInv, OpenStoreInv, OpenRailInv, RecordInv, AccountInv, StopInv
<1>8. QED
  BY <1>1, <1>2, <1>3, <1>4, <1>5, <1>6, <1>7 DEF Next

LEMMA OverlapConstant == ~Overlap => []~Overlap
PROOF
<1>1. ~Overlap => (~Overlap)'  OBVIOUS
<1>2. QED  BY <1>1, PTL

LEMMA Invariance == ~Overlap /\ Spec => []Inv
PROOF
  BY InitInv, NextInv, OverlapConstant, PTL DEF Spec

\* The files, the stores and the commands have their types.
THEOREM FilesTyped == ~Overlap /\ Spec => []TypeOK
PROOF
<1>1. Inv => TypeOK  BY DEF Inv
<1>2. QED  BY <1>1, Invariance, PTL

\* A profile can be acted on from the moment it exists, wherever its init or a
\* command on it dies (main.go:542, "Credentials first").
THEOREM ProfilesComplete == ~Overlap /\ Spec => []ProfileComplete
PROOF
<1>1. Inv => ProfileComplete
  <2> SUFFICES ASSUME Inv PROVE ProfileComplete
    OBVIOUS
  <2>1. \A name \in Names : HasProfile(name) =>
          /\ DomainOf(name) \in Valid /\ creds[name] # None
          /\ CheckDomain(AsDomain(DomainOf(name)), Chains[DomainOf(name).rpc])
    BY DEF Inv, Whole, Usable
  <2>2. ASSUME NEW p \in Procs, At(p, "reading") PROVE creds[proc[p].name] # None
    <3>1. proc[p].name # None /\ HasProfile(proc[p].name)
      BY <2>2 DEF Inv, Agrees, Acting, At
    <3>2. proc[p].name \in Names  BY <3>1 DEF Inv, TypeOK, Processes
    <3>3. QED  BY <2>1, <3>1, <3>2
  <2>3. QED  BY <2>1, <2>2 DEF ProfileComplete
<1>2. QED  BY <1>1, Invariance, PTL

\* An account somebody was shown stays its profile's, for any number of inits
\* one after the other, crashes included (main.go writeJSON).
THEOREM PrintedAccountsKept == ~Overlap /\ Spec => []PrintedKept
PROOF
<1>1. Inv => PrintedKept  BY DEF Inv
<1>2. QED  BY <1>1, Invariance, PTL

\* No store ever holds records of two ledgers (sqlite.go Open).
THEOREM StoresOneLedger == ~Overlap /\ Spec => []StoreOneLedger
PROOF
<1>1. Inv => StoreOneLedger  BY DEF Inv
<1>2. QED  BY <1>1, Invariance, PTL

\* A profile's own store is its domain's (main.go resolve).
THEOREM ProfileStoresOwn == ~Overlap /\ Spec => []ProfileStoreOwn
PROOF
<1>1. Inv => ProfileStoreOwn
  <2>1. Names \subseteq Paths  BY DEF Paths
  <2>2. QED  BY <2>1 DEF Inv, Bound, Fits, ProfileStoreOwn
<1>2. QED  BY <1>1, Invariance, PTL

\* What DomainsStable says of a step.
Stable ==
  /\ \A d \in DomainNames :
       settings.domains[d] # None => settings'.domains[d] = settings.domains[d]
  /\ \A name \in Names :
       HasProfile(name) => settings'.profiles[name] = settings.profiles[name]

LEMMA InitDoneStable ==
  ASSUME Inv, NEW p \in Procs, InitDone(p)
  PROVE  Stable
PROOF
<1> DEFINE name == proc[p].name
           c == proc[p].config
<1>1. Initialising(p) /\ settings' = Installed(proc[p])
  BY DEF InitDone, At, Initialising, WriteFile, WithKey, FirstFile
<1>2. /\ proc[p].settings = settings /\ ~HasProfile(name)
      /\ settings.domains[c.name] \in {None, c}
  BY <1>1, InitHolds
<1>3. /\ settings'.domains = [settings.domains EXCEPT ![c.name] = c]
      /\ settings'.profiles = [settings.profiles EXCEPT ![name] = c.name]
  BY <1>1, <1>2 DEF Installed
<1> HIDE DEF name, c
<1>4. settings.domains \in [DomainNames -> Configs \cup {None}]
      /\ settings.profiles \in [Names -> DomainNames \cup {None}]
  BY DEF Inv, TypeOK, Settings
<1>5. QED  BY <1>2, <1>3, <1>4 DEF Stable, HasProfile

\* No installed domain and no profile's domain ever changes (main.go
\* initProfile: "silently redefining it would repoint every profile").
THEOREM DomainsStay == ~Overlap /\ Spec => DomainsStable
PROOF
<1>1. ASSUME Inv, Next PROVE Stable
  <2>1. CASE settings' = settings  BY <2>1 DEF Stable
  <2>2. ASSUME NEW p \in Procs, InitDone(p) PROVE Stable  BY <1>1, <2>2, InitDoneStable
  <2>3. settings' = settings \/ \E p \in Procs : InitDone(p)
    <3>1. PICK p \in Procs :
            \/ \E name \in Names, c \in Configs : InitCheck(p, name, c)
            \/ \E given \in GivenKeys \cup {None} : InitKey(p, given)
            \/ InitWrite(p) \/ InitDone(p)
            \/ \E c \in Configs, path \in Paths, key \in GivenKeys :
                 ResolveGiven(p, c, path, key)
            \/ \E asked \in Names \cup {None}, c \in Configs \cup {None},
                  path \in Paths \cup {None}, key \in GivenKeys \cup {None} :
                 ResolveProfile(p, asked, c, path, key)
            \/ ResolveKey(p) \/ OpenStore(p) \/ OpenRail(p) \/ Record(p) \/ Account(p)
            \/ Stop(p)
      BY <1>1 DEF Next
    <3>2. \A name \in Names, c \in Configs : InitCheck(p, name, c) => settings' = settings
      BY DEF InitCheck
    <3>3. \A given \in GivenKeys \cup {None} : InitKey(p, given) => settings' = settings
      BY DEF InitKey
    <3>4. InitWrite(p) => settings' = settings
      BY DEF InitWrite, WriteFile, WithKey, FirstFile
    <3>5. \A c \in Configs, path \in Paths, key \in GivenKeys :
            ResolveGiven(p, c, path, key) => settings' = settings
      BY DEF ResolveGiven
    <3>6. \A asked \in Names \cup {None}, c \in Configs \cup {None},
             path \in Paths \cup {None}, key \in GivenKeys \cup {None} :
            ResolveProfile(p, asked, c, path, key) => settings' = settings
      BY DEF ResolveProfile
    <3>7. ResolveKey(p) \/ OpenStore(p) \/ OpenRail(p) \/ Record(p) \/ Account(p) \/ Stop(p)
            => settings' = settings
      BY DEF ResolveKey, OpenStore, OpenRail, Record, Account, Stop
    <3>8. QED  BY <3>1, <3>2, <3>3, <3>4, <3>5, <3>6, <3>7
  <2>4. QED  BY <2>1, <2>2, <2>3
<1>2. Inv /\ [Next]_vars => [Stable]_vars  BY <1>1
<1>3. QED  BY <1>2, Invariance, PTL DEF Spec, DomainsStable, Stable
=============================================================================
