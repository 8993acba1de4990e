------------------------------ MODULE Inventory ------------------------------
(* The handlers of gNBs and UPFs.  An entry has a document of its own, and
   network slices carry copies of it.  The document is written in a transaction;
   the copies are patched between that write and the commit, but by calls outside
   of the transaction: whole slices are read by a filter, changed and written
   back, each followed by the provisioning of its subscribers, which may fail.

   A slice is its copies and whether its SST parses; a missing slice is the one
   without copies.  The network slice handlers and the deletion of a device
   group are there for what they write to slices.                             *)
EXTENDS Naturals, FiniteSets

CONSTANTS Workers, \* goroutines that serve inventory requests and rewrites
          Gnbs, Upfs, Slices,
          Values,    \* TACs of gNBs, ports of UPFs
          NoTac,     \* the value of a gNB created without a TAC
          Settings,  \* sessions: whether the database client yields them;
                     \* entries: those that the requests of a behaviour name
          MaxFaults, \* bound: failing database calls, lost transactions, restarts
          None

Entries == Gnbs \union Upfs

ASSUME InventoryAssumption ==
    /\ Gnbs \intersect Upfs = {}
    /\ None \notin Workers \union Entries \union Values \union {NoTac}
    /\ NoTac \notin Values
    /\ Settings \subseteq [sessions : BOOLEAN, entries : SUBSET Entries]
    /\ MaxFaults \in Nat
    /\ IsFiniteSet(Upfs) /\ IsFiniteSet(Slices)
    /\ None \notin [op : {"post", "put", "delete"}, entry : Entries,
                   value : Values \union {NoTac, None},
                   status : {"pending", "done", "succeeded", "failed"}]

VARIABLES
    inv,    \* the value of each entry's document, or None
    slices, \* the stored network slices
    job,    \* the request each worker serves
    setting, \* one of Settings, which no step changes
    faults

vars == <<inv, slices, job, setting, faults>>

NoSlice == [sst |-> FALSE, copies |-> [e \in Entries |-> None]]

(* A slice has any number of gNBs and at most one UPF; its copies need not agree
   with the inventory, nor name entries that exist.                           *)
SliceDocs == {d \in [sst : BOOLEAN, copies : [Entries -> Values \union {None}]] :
                 Cardinality({u \in Upfs : d.copies[u] # None}) <= 1}

Naming(e) == {s \in Slices : slices[s].copies[e] # None}

(* txn: it has a transaction; held: which has written the entry's document;
   lost: whose transaction the server has ended; work: slices to write back, as
   they were read; named: how many there were.  History: alone and apart say
   which requests overlapped, did that the write of the document was not left to
   a commit, hurt that a database call has failed.                            *)
Idle == [pc |-> "idle", op |-> "none", entry |-> None, value |-> None,
         txn |-> FALSE, held |-> FALSE, did |-> FALSE, lost |-> FALSE, work |-> {}, named |-> 0,
         err |-> FALSE, alone |-> FALSE, apart |-> FALSE, hurt |-> FALSE]

Init == /\ inv = [e \in Entries |-> None]
        /\ slices = [s \in Slices |-> NoSlice]
        /\ job = [w \in Workers |-> Idle]
        /\ setting \in Settings
        /\ faults = 0

-----------------------------------------------------------------------------
(* Requests arrive. *)

Busy(w) == job[w].pc # "idle"

Begin(w, j) ==
    LET others == {v \in Workers \ {w} : Busy(v)}
        alike(v) == j.entry # None /\ job[v].entry = j.entry /\ ~job[v].lost
    IN  /\ ~Busy(w)
        /\ job' = [v \in Workers |->
              IF v = w THEN [j EXCEPT !.alone = others = {},
                                      !.apart = \A o \in others : alike(o)]
                       ELSE [job[v] EXCEPT !.alone = FALSE,
                                           !.apart = @ /\ alike(v)]]
        /\ UNCHANGED <<inv, slices, setting, faults>>

Request(op, e, v) == [Idle EXCEPT !.pc = "session", !.op = op, !.entry = e, !.value = v]

PostGnb(w, g)   == \E v \in Values \union {NoTac} : Begin(w, Request("post", g, v))
PutGnb(w, g)    == \E v \in Values : Begin(w, Request("put", g, v))
DeleteGnb(w, g) == Begin(w, Request("delete", g, None))
PostUpf(w, u)   == \E v \in Values : Begin(w, Request("post", u, v))
PutUpf(w, u)    == \E v \in Values : Begin(w, Request("put", u, v))
DeleteUpf(w, u) == Begin(w, Request("delete", u, None))

(* The deletion of a device group, from where it writes back the slices that
   have it.                                                                   *)
DeleteGroup(w) == Begin(w, [Idle EXCEPT !.pc = "list", !.op = "deleteGroup"])

(* Requests for network slices write one slice in one step. *)
Intrude == job' = [w \in Workers |-> [job[w] EXCEPT !.alone = FALSE, !.apart = FALSE]]

PutSlice(s) == /\ \E d \in SliceDocs :
                    /\ {e \in Entries : d.copies[e] # None} \subseteq setting.entries
                    /\ slices' = [slices EXCEPT ![s] = d]
               /\ Intrude
               /\ UNCHANGED <<inv, setting, faults>>

DeleteSlice(s) == /\ slices' = [slices EXCEPT ![s] = NoSlice]
                  /\ Intrude
                  /\ UNCHANGED <<inv, setting, faults>>

-----------------------------------------------------------------------------
(* executeGnbTransaction and executeUpfTransaction *)

Goes(w, pc) == job' = [job EXCEPT ![w].pc = pc]

(* Variant: the transaction is left open. *)
RefusedOpen(j) == [j EXCEPT !.pc = "end", !.err = TRUE, !.work = {}]

(* An answer other than 2xx; a transaction is aborted or ended with its session. *)
Refused(j) == [j EXCEPT !.pc = "end", !.err = TRUE, !.held = FALSE, !.work = {}]

OpenSession(w) ==
    /\ job[w].pc = "session"
    /\ job' = [job EXCEPT ![w].pc = "write", ![w].txn = setting.sessions]
    /\ UNCHANGED <<inv, slices, setting, faults>>

(* Another transaction has written the document and is not finished: this one
   gets a write conflict, a write outside of a transaction waits.             *)
Conflict(w) == \E v \in Workers \ {w} : job[v].held /\ job[v].entry = job[w].entry

(* The index on the name refuses a second document. *)
Duplicate(w) == job[w].op = "post" /\ inv[job[w].entry] # None

RefuseEntry(w) ==
    LET j == job[w]
    IN  /\ j.pc = "write"
        /\ IF j.txn THEN Conflict(w) \/ Duplicate(w) ELSE ~Conflict(w) /\ Duplicate(w)
        /\ job' = [job EXCEPT ![w] = Refused(j)]
        /\ UNCHANGED <<inv, slices, setting, faults>>

(* Deleting a document that is not there writes nothing. *)
WriteEntry(w) ==
    LET j == job[w]
        held == j.txn /\ (j.op # "delete" \/ inv[j.entry] # None)
    IN  /\ j.pc = "write"
        /\ ~Conflict(w) /\ ~Duplicate(w)
        /\ job' = [job EXCEPT ![w].pc = "list", ![w].held = held, ![w].did = ~held]
        /\ inv' = IF j.txn THEN inv ELSE [inv EXCEPT ![j.entry] = j.value]
        /\ UNCHANGED <<slices, setting, faults>>

List(w) ==
    LET j == job[w]
    IN  /\ j.pc = "list"
        /\ \E found \in IF j.op = "deleteGroup" THEN SUBSET Slices ELSE {Naming(j.entry)} :
              job' = [job EXCEPT ![w].pc = "next",
                                 ![w].work = {<<s, slices[s]>> : s \in found},
                                 ![w].named = Cardinality(found)]
        /\ UNCHANGED <<inv, slices, setting, faults>>

With(d, e, v) == [d EXCEPT !.copies[e] = v]
Without(d, e) == [d EXCEPT !.copies[e] = None]

(* Variant: a deletion leaves the copy of its entry. *)
PatchedUnlessDeleted(j, d) == IF j.op \in {"post", "put"} THEN With(d, j.entry, j.value) ELSE d

Patched(j, d) == CASE j.op \in {"post", "put"} -> With(d, j.entry, j.value)
                   [] j.op = "delete" -> Without(d, j.entry)
                   [] j.op = "deleteGroup" -> d

(* Variant: a slice that cannot be provisioned is not written. *)
PatchGoodSlice(w) ==
    LET j == job[w]
    IN  /\ j.pc = "next" /\ j.value # NoTac
        /\ \E d \in j.work :
              /\ slices' = IF d[2].sst THEN [slices EXCEPT ![d[1]] = Patched(j, d[2])]
                                       ELSE slices
              /\ job' = [job EXCEPT ![w].pc = IF d[2].sst THEN "synced" ELSE "failed",
                                    ![w].work = @ \ {d}]
        /\ UNCHANGED <<inv, setting, faults>>

(* Writes the whole slice as it was read, patched. *)
PatchSlice(w) ==
    LET j == job[w]
    IN  /\ j.pc = "next" /\ j.value # NoTac
        /\ \E d \in j.work :
              /\ slices' = [slices EXCEPT ![d[1]] = Patched(j, d[2])]
              /\ job' = [job EXCEPT ![w].pc = IF d[2].sst THEN "synced" ELSE "failed",
                                    ![w].work = @ \ {d}]
        /\ UNCHANGED <<inv, setting, faults>>

(* A TAC that is not there is dereferenced: the handler panics. *)
Panic(w) == /\ job[w].pc = "next" /\ job[w].value = NoTac /\ job[w].work # {}
            /\ job' = [job EXCEPT ![w] = Refused(job[w])]
            /\ UNCHANGED <<inv, slices, setting, faults>>

(* Provisioning after the write of a slice, which refuses an SST that does not
   parse.  The loop over device groups' slices goes on.                       *)
Provision(w) ==
    LET j == job[w]
    IN  /\ j.pc \in {"synced", "failed"}
        /\ job' = [job EXCEPT ![w] =
              CASE j.pc = "synced" -> [j EXCEPT !.pc = "next"]
                [] j.pc = "failed" /\ j.op = "deleteGroup" -> [j EXCEPT !.pc = "next",
                                                                        !.err = TRUE]
                [] OTHER -> Refused(j)]
        /\ UNCHANGED <<inv, slices, setting, faults>>

Patching(w) == job[w].pc = "next" /\ job[w].work # {}
Finished(w) == job[w].pc = "next" /\ job[w].work = {}

Effect(j) == IF j.held THEN [inv EXCEPT ![j.entry] = j.value] ELSE inv

(* Variant: the outcome of the commit is not looked at. *)
CommitBlindly(w) ==
    /\ Finished(w)
    /\ inv' = Effect(job[w])
    /\ job' = [job EXCEPT ![w].pc = "end", ![w].held = FALSE]
    /\ UNCHANGED <<slices, setting, faults>>

(* Without a session there is nothing to commit.  A transaction the server has
   ended in the meantime cannot be.                                           *)
Commit(w) ==
    LET j == job[w]
    IN  /\ Finished(w)
        /\ inv' = Effect(j)
        /\ job' = [job EXCEPT ![w] = IF j.lost THEN Refused(j)
                                               ELSE [j EXCEPT !.pc = "end", !.held = FALSE]]
        /\ UNCHANGED <<slices, setting, faults>>

End(w) == /\ job[w].pc = "end"
          /\ job' = [job EXCEPT ![w] = Idle]
          /\ UNCHANGED <<inv, slices, setting, faults>>

-----------------------------------------------------------------------------
(* Faults *)

Fault == faults < MaxFaults /\ faults' = faults + 1

(* A database call fails, or the slice cannot be read again and is dereferenced
   all the same.  Deleting a device group goes on with the next slice unless it
   is that panic.                                                             *)
CallFails(w) ==
    LET j == job[w]
    IN  /\ \/ j.pc \in {"session", "write", "list", "synced"}
           \/ Patching(w)
        /\ Fault
        /\ \/ job' = [job EXCEPT ![w] = [Refused(j) EXCEPT !.hurt = TRUE]]
           \/ /\ j.op = "deleteGroup" /\ j.pc # "list"
              /\ \E d \in j.work \union {None} :
                    job' = [job EXCEPT ![w].pc = "next", ![w].err = TRUE,
                                       ![w].hurt = TRUE, ![w].work = @ \ {d}]
        /\ UNCHANGED <<inv, slices, setting>>

(* The answer to the commit is lost: it may have happened. *)
CommitFails(w) ==
    LET j == job[w]
    IN  /\ Finished(w) /\ j.txn
        /\ Fault
        /\ inv' \in {inv, Effect(j)}
        /\ job' = [job EXCEPT ![w] = [Refused(j) EXCEPT !.hurt = TRUE]]
        /\ UNCHANGED <<slices, setting>>

(* A transaction open for too long is aborted by the server; the handler goes on
   and finds out when it commits.                                             *)
Expire(w) ==
    /\ job[w].txn /\ job[w].pc \in {"list", "next", "synced", "failed"} /\ ~job[w].lost
    /\ Fault
    /\ job' = [v \in Workers |->
          IF v = w THEN [job[v] EXCEPT !.held = FALSE, !.lost = TRUE, !.hurt = TRUE]
                   ELSE [job[v] EXCEPT !.apart = FALSE]]
    /\ UNCHANGED <<inv, slices, setting>>

Restart == /\ Fault
           /\ job' = [w \in Workers |-> Idle]
           /\ UNCHANGED <<inv, slices, setting>>

-----------------------------------------------------------------------------
Arrive(w) == \/ \E g \in Gnbs \intersect setting.entries :
                    PostGnb(w, g) \/ PutGnb(w, g) \/ DeleteGnb(w, g)
             \/ \E u \in Upfs \intersect setting.entries :
                    PostUpf(w, u) \/ PutUpf(w, u) \/ DeleteUpf(w, u)
             \/ DeleteGroup(w)

Proceed(w) == \/ OpenSession(w) \/ RefuseEntry(w) \/ WriteEntry(w) \/ List(w)
              \/ PatchSlice(w) \/ Panic(w) \/ Provision(w) \/ Commit(w) \/ End(w)

Fails(w) == CallFails(w) \/ CommitFails(w) \/ Expire(w)

Next == \/ \E w \in Workers : Arrive(w) \/ Proceed(w) \/ Fails(w)
        \/ \E s \in Slices : PutSlice(s) \/ DeleteSlice(s)
        \/ Restart

Spec == Init /\ [][Next]_vars

-----------------------------------------------------------------------------
TypeOK == /\ inv \in [Entries -> Values \union {NoTac, None}]
          /\ slices \in [Slices -> SliceDocs]
          /\ \A w \in Workers : job[w].held =>
                /\ job[w].txn /\ ~job[w].lost
                /\ job[w].pc \in {"list", "next", "synced", "failed"}
          /\ faults \in 0..MaxFaults

Succeeds(w) == job[w].pc # "end" /\ job'[w].pc = "end" /\ ~job'[w].err

(* A request is undisturbed if it ran alone, or in a transaction and together
   with requests for the same entry only.                                     *)
Undisturbed(j) == j.alone \/ (j.held /\ j.apart)

(* When an undisturbed request succeeds, the slices agree with it, whatever
   overlapping requests for the same entry have left or are about to write: no
   copy of a deleted entry is left, and no copy of a written one has another
   value.                                                                     *)
CopiesFollow ==
    [][\A w \in Workers : (Succeeds(w) /\ job[w].entry # None /\ Undisturbed(job[w])) =>
          \A s \in Slices : slices'[s].copies[job[w].entry] \in {job[w].value, None}]_vars

(* A deletion that fails for a slice that cannot be provisioned has taken the
   entry out of at least that slice, so repeating it comes to an end.         *)
DeletionAdvances ==
    \A w \in Workers : LET j == job[w] IN
        (j.pc = "end" /\ j.op = "delete" /\ j.err /\ ~j.hurt /\ j.alone) =>
            Cardinality(Naming(j.entry)) < j.named

(* The documents of the entries behave like atomic registers. *)
Status(w) == LET j == job[w] IN
    CASE j.pc = "end" -> IF j.err THEN "failed" ELSE "succeeded"
      [] j.pc # "end" /\ j.did -> "done"
      [] OTHER -> "pending"

Asked == [w \in Workers |->
    IF job[w].entry = None THEN None
      ELSE [op |-> job[w].op, entry |-> job[w].entry, value |-> job[w].value,
            status |-> Status(w)]]

Store == INSTANCE EntryStore WITH stored <- inv, asked <- Asked

EntriesAtomic == Store!Spec

=============================================================================
