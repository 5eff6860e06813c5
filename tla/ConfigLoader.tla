---------------------------- MODULE ConfigLoader ----------------------------
(***************************************************************************)
(* ConfigLoader::loadFromDirectory reads the configuration directory file  *)
(* by file, with nothing to keep others from editing it meanwhile.  Each   *)
(* member of Loads is one call of it.  Reading one entry (open, read,      *)
(* parse, dispatch) is one step: the text read is what the file holds at   *)
(* that moment, which may be half-written.                                 *)
(***************************************************************************)
EXTENDS ConfigModels

CONSTANTS
  Loads,     \* calls of loadFromDirectory
  Files,     \* names ending in .json
  Texts,     \* what a file may hold: JSON values and Unparsable
  NoFile,    \* there is no regular file of that name, or it cannot be opened
  MaxEdits   \* bound on the edits of the directory

(* The documents of a kind that convert.                                   *)
OfKind(kind) == {t \in Texts : ~ Throws(t) /\ Kind(t) = kind}

(* The numbers in an object are integers.                                  *)
Numeric(d) == \A key \in DOMAIN d.val : d.val[key].type = "int" => d.val[key].val \in Int

(* NoFile and Absent are told apart from what they are not, and a list of  *)
(* strings is a sequence.                                                  *)
ASSUME LoaderAssumption ==
  /\ MaxEdits \in Nat
  /\ NoFile \notin Texts
  /\ \A t \in OfKind("Gateway") :
       /\ GatewayConfig(t) # Absent
       /\ Has(t.val["spec"], "server") => Numeric(t.val["spec"].val["server"])
  /\ \A t \in OfKind("Router") : RouterConfig(t).policies \in Seq(STRING)
  /\ \A t \in OfKind("Listener") : Numeric(t.val["spec"])

VARIABLES
  dirState,  \* the directory is "there", "missing", or "unreadable"
  dir,       \* what each file holds
  edits,     \* edits so far
  pc,        \* of each load: "idle", "reading", "returned", "threw", "patched"
  entries,   \* the entries its directory_iterator has still to deliver
  store,     \* its local ConfigStore, and what it returned
  held       \* history: every content the directory had while it was reading

loaderVars == <<dirState, dir, edits, pc, entries, store, held>>

Present(d) == {f \in Files : d[f] # NoFile}

(* What opening a file may find: nothing in a directory that has gone; in  *)
(* one that cannot be listed the files may or may not be accessible.       *)
Gone == [f \in Files |-> NoFile]

Visible(s, d) ==
  CASE s = "there" -> {d} [] s = "missing" -> {Gone} [] OTHER -> {d, Gone}

(* Every piece of state has a value of its type; ports are uint16_t.       *)
LoaderTypeOK ==
  /\ dirState \in {"there", "missing", "unreadable"}
  /\ dir \in [Files -> Texts \cup {NoFile}]
  /\ edits \in 0 .. MaxEdits
  /\ pc \in [Loads -> {"idle", "reading", "returned", "threw", "patched"}]
  /\ entries \in [Loads -> SUBSET Files]
  /\ \A l \in Loads :
       /\ held[l] \subseteq [Files -> Texts \cup {NoFile}]
       /\ \A i \in DOMAIN store[l].listeners : store[l].listeners[i].port \in Uint16

LoaderInit ==
  /\ dirState \in {"there", "missing", "unreadable"}
  /\ dir \in [Files -> Texts \cup {NoFile}]
  /\ edits = 0
  /\ pc = [l \in Loads |-> "idle"]
  /\ entries = [l \in Loads |-> {}]
  /\ store = [l \in Loads |-> EmptyStore]
  /\ held = [l \in Loads |-> {}]

-----------------------------------------------------------------------------
(* The directory, edited by whoever deploys a configuration.  A file that  *)
(* appears while a load is reading may or may not be delivered by its      *)
(* iterator, even if a file of that name has been delivered before; one    *)
(* that disappears may still be delivered and is then skipped.             *)

Edit(f, t) ==
  /\ edits < MaxEdits
  /\ dirState = "there"
  /\ dir[f] # t
  /\ edits' = edits + 1
  /\ dir' = [dir EXCEPT ![f] = t]
  /\ held' = [l \in Loads |-> IF pc[l] = "reading" THEN held[l] \cup {dir'} ELSE held[l]]
  /\ \E late \in SUBSET {l \in Loads : pc[l] = "reading" /\ dir[f] = NoFile} :
       entries' = [l \in Loads |-> IF l \in late THEN entries[l] \cup {f} ELSE entries[l]]
  /\ UNCHANGED <<dirState, pc, store>>

(* The directory is mounted, unmounted, or its permissions change.         *)
Mount(s) ==
  /\ edits < MaxEdits
  /\ dirState # s
  /\ edits' = edits + 1
  /\ dirState' = s
  /\ held' = [l \in Loads |-> IF pc[l] = "reading" THEN held[l] \cup Visible(s, dir)
                                                  ELSE held[l]]
  /\ UNCHANGED <<dir, pc, entries, store>>

-----------------------------------------------------------------------------
(* loadFromDirectory                                                       *)

(* A directory that does not exist is an empty configuration.              *)
Begin(l) ==
  /\ pc[l] = "idle"
  /\ dirState # "unreadable"
  /\ pc' = [pc EXCEPT ![l] = IF dirState = "missing" THEN "returned" ELSE "reading"]
  /\ entries' = [entries EXCEPT ![l] = IF dirState = "missing" THEN {} ELSE Present(dir)]
  /\ held' = [held EXCEPT ![l] = IF dirState = "missing" THEN {} ELSE Visible(dirState, dir)]
  /\ UNCHANGED <<dirState, dir, edits, store>>

(* The constructor of directory_iterator throws when the directory cannot  *)
(* be opened, its increment when reading on fails.                         *)
Throw(l) ==
  /\ \/ pc[l] = "idle" /\ dirState = "unreadable"
     \/ pc[l] = "reading"
  /\ pc' = [pc EXCEPT ![l] = "threw"]
  /\ UNCHANGED <<dirState, dir, edits, entries, store, held>>

(* What the store is after a text has been read.  An exception is logged   *)
(* and the loop goes on.                                                   *)
Read(text, s) == IF text = NoFile \/ Throws(text) THEN s ELSE Dispatch(text, s)

ReadFile_CatchOutside(l) ==
  /\ pc[l] = "reading"
  /\ \E f \in entries[l], d \in Visible(dirState, dir) :
       /\ entries' = [entries EXCEPT ![l] =
                        IF d[f] # NoFile /\ Throws(d[f]) THEN {} ELSE @ \ {f}]
       /\ store' = [store EXCEPT ![l] = Read(d[f], @)]
  /\ UNCHANGED <<dirState, dir, edits, pc, held>>

ReadFile_Twice(l) ==
  /\ pc[l] = "reading"
  /\ \E f \in entries[l], d \in Visible(dirState, dir) :
       /\ \E again \in SUBSET {f} : entries' = [entries EXCEPT ![l] = (@ \ {f}) \cup again]
       /\ Len(store[l].policies) < 3
       /\ store' = [store EXCEPT ![l] = Read(d[f], @)]
  /\ UNCHANGED <<dirState, dir, edits, pc, held>>

ReadFile_NoAdvance(l) ==
  /\ pc[l] = "reading"
  /\ \E f \in entries[l], d \in Visible(dirState, dir) :
       /\ entries' = [entries EXCEPT ![l] = IF d[f] = NoFile THEN @ ELSE @ \ {f}]
       /\ store' = [store EXCEPT ![l] = Read(d[f], @)]
  /\ UNCHANGED <<dirState, dir, edits, pc, held>>

ReadFile(l) ==
  /\ pc[l] = "reading"
  /\ \E f \in entries[l], d \in Visible(dirState, dir) :
       /\ entries' = [entries EXCEPT ![l] = @ \ {f}]
       /\ store' = [store EXCEPT ![l] = Read(d[f], @)]
  /\ UNCHANGED <<dirState, dir, edits, pc, held>>

Return(l) ==
  /\ pc[l] = "reading"
  /\ entries[l] = {}
  /\ pc' = [pc EXCEPT ![l] = "returned"]
  /\ UNCHANGED <<dirState, dir, edits, entries, store, held>>

(* applyJsonDocument, which has no caller yet, on a store that was loaded. *)
(* It does not catch: an exception leaves the store as it was.             *)
ApplyJsonDocument(l, text) ==
  /\ pc[l] = "returned"
  /\ ~ Throws(text)
  /\ pc' = [pc EXCEPT ![l] = "patched"]
  /\ store' = [store EXCEPT ![l] = Dispatch(text, @)]
  /\ UNCHANGED <<dirState, dir, edits, entries, held>>

Proceed(l) == Begin(l) \/ ReadFile(l) \/ Return(l)

LoadStep(l) == Proceed(l) \/ Throw(l)

LoaderNext ==
  \/ \E f \in Files, t \in Texts \cup {NoFile} : Edit(f, t)
  \/ \E s \in {"there", "missing", "unreadable"} : Mount(s)
  \/ \E l \in Loads : LoadStep(l) \/ \E t \in Texts : ApplyJsonDocument(l, t)

LoaderSpec == LoaderInit /\ [][LoaderNext]_loaderVars

(* A call goes on: nothing in it waits.  That it may throw is no help.     *)
LoaderFairSpec == LoaderSpec /\ \A l \in Loads : WF_loaderVars(Proceed(l))

-----------------------------------------------------------------------------
(* Properties                                                              *)

(* The resource that document d stands for is in store s.  Of several      *)
(* Gateways one stays, so any will do.                                     *)
Loaded(d, s) ==
  CASE Kind(d) = "Listener" -> \E i \in DOMAIN s.listeners : s.listeners[i] = ListenerConfig(d)
    [] Kind(d) = "Router"   -> \E i \in DOMAIN s.routers : s.routers[i] = RouterConfig(d)
    [] Kind(d) = "Service"  -> \E i \in DOMAIN s.services : s.services[i] = ServiceConfig(d)
    [] Kind(d) = "Gateway"  -> s.gateway # Absent
    [] Kind(d) = "Policy"   -> \E i \in DOMAIN s.policies : s.policies[i] = PolicyConfig(d)
    [] OTHER -> TRUE

(* File f holds the well-formed document t all the time load l reads.      *)
Steady(l, f, t) == held[l] # {} /\ (\A d \in held[l] : d[f] = t) /\ ~ Throws(t)

(* A file that holds the same well-formed document all the time a load     *)
(* reads is in what the load returns, whatever is edited next to it and    *)
(* however many other files do not parse, do not convert or disappear.     *)
NoFileLost ==
  \A l \in Loads : pc[l] \in {"returned", "patched"} =>
    \A f \in Files, t \in Texts : Steady(l, f, t) => Loaded(t, store[l])

(* A load ends, by returning or by throwing.                               *)
LoadEnds == \A l \in Loads : pc[l] = "reading" ~> pc[l] \in {"returned", "patched", "threw"}
=============================================================================
