----------------------------- MODULE VolumeReuse ------------------------------
(***************************************************************************)
(* Packs and edits in one process, as the window runs them (worker_thread).*)
(* An edit, native_rewrite of src/src/pack.asm, shares the sink with       *)
(* do_pack: its container's bytes go through vol_put, which asks g_vol_on  *)
(* whether a pack's volume is open.  The edit is reduced here to what that *)
(* question decides, the file its bytes land in.                           *)
(***************************************************************************)
EXTENDS VolumeReaders

VARIABLES
    epc,     \* where native_rewrite is
    esrc,    \* the source's handle, open for reading and writing
    etmp,    \* the temporary's handle
    eput     \* bytes of the new container handed over so far

editVars  == <<epc, esrc, etmp, eput>>
reuseVars == <<vars, editVars>>

EditTemp(b) == <<"edit", b>>

\* file_open_rewrite_source, CREATE_NEW of the sibling temporary, and its
\* header, which goes to the temporary by its own handle.
EditOpen(b) ==
    /\ epc = "idle" /\ wpc = "idle" /\ rd[App].st = "closed" /\ runs < MaxRuns
    /\ Plain(b) \in DOMAIN disk /\ Free(Plain(b))
    /\ \E h, g \in Handles :
          /\ h # g /\ fh[h] = NoName /\ fh[g] = NoName
          /\ fh' = [fh EXCEPT ![h] = Plain(b), ![g] = EditTemp(b)]
          /\ esrc' = h /\ etmp' = g
    /\ epc' = "put" /\ out' = b /\ runs' = runs + 1 /\ eput' = 1
    /\ disk' = Put(EditTemp(b), Bytes(runs + 1, 0, 1))
    /\ UNCHANGED <<whole, est, named, wpc, code, sent, todo, hloc, cursor, ownVars,
                   globalVars, rd>>

\* vol_put: to the open volume if there is one, else to the caller's handle.
PutHandle == IF vol_on THEN vol_hout ELSE etmp

EditPut ==
    /\ epc = "put" /\ eput < MaxStream
    /\ PutHandle # Invalid /\ fh[PutHandle] # NoName
    /\ disk' = [disk EXCEPT ![fh[PutHandle]] = @ \o Bytes(runs, eput, 1)]
    /\ eput' = eput + 1
    /\ UNCHANGED <<whole, callVars, wpc, code, sent, todo, hloc, cursor, ownVars,
                   globalVars, fh, rd, epc, esrc, etmp>>

EditClosed == [fh EXCEPT ![esrc] = NoName, ![etmp] = NoName]

\* Any failure, a write to a dead handle included: nr_cleanup.
EditFails ==
    /\ epc = "put" /\ epc' = "idle"
    /\ fh' = EditClosed /\ disk' = Without(EditTemp(out))
    /\ UNCHANGED <<whole, callVars, wpc, code, sent, todo, hloc, cursor, ownVars,
                   globalVars, rd, esrc, etmp, eput>>

\* The temporary replaces the source.
EditCommits ==
    /\ epc = "put" /\ eput > 1 /\ epc' = "idle"
    /\ whole' = [s \in DOMAIN whole \cup {runs} |-> IF s = runs THEN eput ELSE whole[s]]
    /\ fh' = EditClosed /\ disk' = Renamed(EditTemp(out), Plain(out))
    /\ UNCHANGED <<callVars, wpc, code, sent, todo, hloc, cursor, ownVars,
                   globalVars, rd, esrc, etmp, eput>>

EditNext == (\E b \in Bases : EditOpen(b)) \/ EditPut \/ EditFails \/ EditCommits

ReuseInit == Init /\ epc = "idle" /\ esrc = Invalid /\ etmp = Invalid /\ eput = 0
ReuseNext == EditNext \/ (epc = "idle" /\ Next /\ UNCHANGED editVars)
ReuseSpec == ReuseInit /\ [][ReuseNext]_reuseVars

\* Every byte an edit has put is in its own temporary: the sink is shared with
\* the edits, "whose bytes must go to ITS handle; only a fresh pack has a
\* volume set open".
EditBytesReachItsTemp ==
    epc = "put" => disk[EditTemp(out)] = Bytes(runs, 0, eput)
=============================================================================
