------------------------------ MODULE TxnStore ------------------------------
(***************************************************************************)
(* What the file-sharing sessions are promised, whatever the driver and    *)
(* the server do underneath: outside a transaction a write is permanent at *)
(* once; a transaction's writes become permanent together or vanish        *)
(* together, and until then nobody else writes the rows it wrote.          *)
(***************************************************************************)
CONSTANTS Session, Row, Image, Clean

VARIABLES
    stable,     \* stable[r]: the permanent image of row r
    draft,      \* draft[s][r]: the image s's transaction wrote to r, or Clean
    inTxn       \* the sessions inside a transaction

storeVars == <<stable, draft, inTxn>>

NoDraft == [r \in Row |-> Clean]

Untouched(s, r) == \A t \in Session \ {s} : draft[t][r] = Clean

StoreInit ==
    /\ stable \in [Row -> Image]
    /\ draft = [s \in Session |-> NoDraft]
    /\ inTxn = {}

BeginDraft(s) ==
    /\ s \notin inTxn
    /\ inTxn' = inTxn \cup {s}
    /\ UNCHANGED <<stable, draft>>

WriteDraft(s, r, img) ==
    /\ s \in inTxn
    /\ Untouched(s, r)
    /\ draft' = [draft EXCEPT ![s][r] = img]
    /\ UNCHANGED <<stable, inTxn>>

WriteStable(s, r, img) ==
    /\ s \notin inTxn
    /\ Untouched(s, r)
    /\ stable' = [stable EXCEPT ![r] = img]
    /\ UNCHANGED <<draft, inTxn>>

EndDraft(s) ==
    /\ s \in inTxn
    /\ draft' = [draft EXCEPT ![s] = NoDraft]
    /\ inTxn' = inTxn \ {s}

Publish(s) ==
    /\ EndDraft(s)
    /\ stable' = [r \in Row |-> IF draft[s][r] = Clean THEN stable[r] ELSE draft[s][r]]

Discard(s) == EndDraft(s) /\ UNCHANGED stable

StoreNext ==
    \E s \in Session :
        \/ BeginDraft(s) \/ Publish(s) \/ Discard(s)
        \/ \E r \in Row, img \in Image : WriteDraft(s, r, img) \/ WriteStable(s, r, img)

StoreSpec == StoreInit /\ [][StoreNext]_storeVars
=============================================================================
