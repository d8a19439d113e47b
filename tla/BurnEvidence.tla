----------------------------- MODULE BurnEvidence -----------------------------
(***************************************************************************)
(* The evidence a burn is submitted with (withdrawal-listener-attester:    *)
(* evidence.rs): three reads from a node, about the note, about its        *)
(* nullifier and about the faucet's transactions, made one after another   *)
(* while the chain moves on, and the package or refusal drawn from them.   *)
(* An honest node answers from the chain as it is at the read, and may     *)
(* repeat a row; a faulty one answers anything.                            *)
(***************************************************************************)
EXTENDS Naturals, Sequences, SequencesExt, TLC

CONSTANTS TxIds, Faucet, OtherAccount, NoteId, OtherNote,
          MaxBlock,   \* bound on the blocks of the chain
          MaxRows,    \* bound on the rows of an answer
          Faulty      \* whether the node's answers may be false

VARIABLES chain,      \* block, created, spent, the faucet's transactions
          reads,      \* what the node answered so far
          pc, result,
          sawSpent    \* whether the note was spent when the assembly began

vars == <<chain, reads, pc, result, sawSpent>>

Blocks == 1 .. MaxBlock

\* A row of SyncTransactions.  inputs: it consumes the note; outputs: it made it.
Rows == [id : TxIds, account : {Faucet, OtherAccount}, inputs : BOOLEAN, outputs : BOOLEAN,
         block : Blocks]

NoReads == [public |-> FALSE, create |-> 0, spend |-> 0, rows |-> <<>>]

Refusals == {"read", "wrong_note", "not_observable", "wrong_nullifier", "no_spend",
             "consumption_precedes_creation", "no_consuming_transaction",
             "ambiguous_transactions", "contradictory_rows", "blocks_disagree"}

Refuse(reason) == [kind |-> reason]

EvidencePackage(tx, create) == [kind |-> "package", burn_tx_id |-> tx, block_num |-> create]

TypeOK ==
  /\ chain.block \in 0 .. MaxBlock /\ chain.created \in 0 .. MaxBlock
  /\ chain.spent \in 0 .. MaxBlock /\ Range(chain.txs) \subseteq Rows
  /\ reads.create \in 0 .. MaxBlock /\ reads.spend \in 0 .. MaxBlock
  /\ Range(reads.rows) \subseteq Rows /\ Len(reads.rows) <= MaxRows
  /\ pc \in {"idle", "note", "nullifier", "transactions", "done"}
  /\ result.kind \in Refusals \cup {"none", "package"}
  /\ pc = "done" => result.kind # "none"
  /\ sawSpent \in BOOLEAN

Init ==
  /\ chain = [block |-> 0, created |-> 0, spent |-> 0, txs |-> <<>>]
  /\ reads = NoReads /\ pc = "idle" /\ result = Refuse("none") /\ sawSpent = FALSE

----------------------------------------------------------------------------
(* The chain. *)

Unused == TxIds \ {chain.txs[n].id : n \in DOMAIN chain.txs}

\* The faucet makes the note.
Create ==
  /\ chain.created = 0 /\ chain.block < MaxBlock
  /\ \E tx \in Unused :
       chain' = [chain EXCEPT
                  !.block = @ + 1, !.created = chain.block + 1,
                  !.txs = Append(@, [id |-> tx, account |-> Faucet, inputs |-> FALSE,
                                     outputs |-> TRUE, block |-> chain.block + 1])]
  /\ UNCHANGED <<reads, pc, result, sawSpent>>

\* The faucet burns it, in a later block.
Consume ==
  /\ chain.created > 0 /\ chain.spent = 0 /\ chain.block < MaxBlock
  /\ \E tx \in Unused :
       chain' = [chain EXCEPT
                  !.block = @ + 1, !.spent = chain.block + 1,
                  !.txs = Append(@, [id |-> tx, account |-> Faucet, inputs |-> TRUE,
                                     outputs |-> FALSE, block |-> chain.block + 1])]
  /\ UNCHANGED <<reads, pc, result, sawSpent>>

\* The faucet burns or makes other notes.
OtherTx ==
  /\ chain.block < MaxBlock
  /\ \E tx \in Unused :
       chain' = [chain EXCEPT
                  !.block = @ + 1,
                  !.txs = Append(@, [id |-> tx, account |-> Faucet, inputs |-> FALSE,
                                     outputs |-> FALSE, block |-> chain.block + 1])]
  /\ UNCHANGED <<reads, pc, result, sawSpent>>

----------------------------------------------------------------------------
(* The answers of the node. *)

NoteAnswers ==
  IF Faulty THEN [note : {NoteId, OtherNote}, public : BOOLEAN, create : Blocks]
  ELSE [note : {NoteId}, public : BOOLEAN, create : {chain.created} \ {0}]

\* A nullifier stands for the note it belongs to; spend is 0 for none.
NullifierAnswers ==
  IF Faulty THEN [note : {NoteId, OtherNote}, spend : {0} \cup Blocks]
  ELSE [note : {NoteId}, spend : {chain.spent}]

RowAnswers ==
  IF Faulty THEN BoundedSeq(Rows, MaxRows)
  ELSE {s \in BoundedSeq(Range(chain.txs), MaxRows) : Range(s) = Range(chain.txs)}

----------------------------------------------------------------------------
(* assemble_evidence. *)

End(r) == pc' = "done" /\ result' = r

Assemble ==
  /\ pc \in {"idle", "done"}
  /\ pc' = "note" /\ reads' = NoReads /\ result' = Refuse("none")
  /\ sawSpent' = (chain.spent > 0)
  /\ UNCHANGED chain

ReadFails ==
  /\ pc \in {"note", "nullifier", "transactions"}
  /\ End(Refuse("read"))
  /\ UNCHANGED <<chain, reads, sawSpent>>

ReadNote ==
  /\ pc = "note"
  /\ \E a \in NoteAnswers :
       /\ reads' = [reads EXCEPT !.public = a.public, !.create = a.create]
       /\ \/ a.note # NoteId /\ End(Refuse("wrong_note"))
          \/ a.note = NoteId /\ ~ a.public /\ End(Refuse("not_observable"))
          \/ a.note = NoteId /\ a.public /\ pc' = "nullifier" /\ UNCHANGED result
  /\ UNCHANGED <<chain, sawSpent>>

ReadNullifier ==
  /\ pc = "nullifier"
  /\ \E a \in NullifierAnswers :
       /\ reads' = [reads EXCEPT !.spend = a.spend]
       /\ \/ a.note # NoteId /\ End(Refuse("wrong_nullifier"))
          \/ a.note = NoteId /\ a.spend = 0 /\ End(Refuse("no_spend"))
          \/ /\ a.note = NoteId /\ a.spend > 0 /\ a.spend <= reads.create
             /\ End(Refuse("consumption_precedes_creation"))
          \/ a.note = NoteId /\ a.spend > reads.create /\ pc' = "transactions" /\ UNCHANGED result
  /\ UNCHANGED <<chain, sawSpent>>

\* Rows that made the note count too.
MutConsuming(rows) == {n \in DOMAIN rows : rows[n].account = Faucet /\ (rows[n].inputs \/ rows[n].outputs)}

consuming(rows) == {n \in DOMAIN rows : rows[n].account = Faucet /\ rows[n].inputs}

\* The first claiming row is believed.
MutLinkage(rows, create, spend) ==
  LET claimed == {rows[n].id : n \in consuming(rows)}
  IN  IF claimed = {} THEN Refuse("no_consuming_transaction")
      ELSE LET n == CHOOSE k \in consuming(rows) : \A j \in consuming(rows) : k <= j
           IN  IF rows[n].block # spend THEN Refuse("blocks_disagree")
               ELSE EvidencePackage(rows[n].id, create)

\* Rows are collapsed by their id.
MutAgree(rows, tx) == TRUE

agree(rows, tx) ==
  \A n, k \in DOMAIN rows : rows[n].id = tx /\ rows[k].id = tx => rows[n] = rows[k]

\* One transaction claims the note, every row about it is the same, and it is in
\* the block of the spend.
linkage(rows, create, spend) ==
  LET claimed == {rows[n].id : n \in consuming(rows)}
  IN  IF claimed = {} THEN Refuse("no_consuming_transaction")
      ELSE LET tx == CHOOSE id \in claimed : TRUE
               first == CHOOSE n \in consuming(rows) : rows[n].id = tx
           IN  CASE claimed # {tx} -> Refuse("ambiguous_transactions")
                 [] claimed = {tx} /\ ~ agree(rows, tx) -> Refuse("contradictory_rows")
                 [] claimed = {tx} /\ agree(rows, tx) /\ rows[first].block # spend ->
                      Refuse("blocks_disagree")
                 [] OTHER -> EvidencePackage(tx, create)

ReadTransactions ==
  /\ pc = "transactions"
  /\ \E rows \in RowAnswers :
       /\ reads' = [reads EXCEPT !.rows = rows]
       /\ End(linkage(rows, reads.create, reads.spend))
  /\ UNCHANGED <<chain, sawSpent>>

Next ==
  \/ Create \/ Consume \/ OtherTx
  \/ Assemble \/ ReadFails \/ ReadNote \/ ReadNullifier \/ ReadTransactions

Spec == Init /\ [][Next]_vars

----------------------------------------------------------------------------
(* Properties. *)

\* From an honest node, with the chain moving between the reads, assemble_evidence
\* never finds a contradiction: a package names the transaction that burned the
\* note and the block that made it, and a public note spent before the first read
\* is refused only because a read failed.
HonestReadsAgree ==
  (~ Faulty /\ pc = "done") =>
    /\ result.kind \in {"package", "read", "not_observable", "no_spend"}
    /\ result.kind = "package" =>
         /\ \E n \in DOMAIN chain.txs : chain.txs[n].inputs /\ chain.txs[n].id = result.burn_tx_id
         /\ result.block_num = chain.created
    /\ (sawSpent /\ reads.public) => result.kind \in {"package", "read"}

\* What assemble_evidence draws from a list of rows does not depend on their order,
\* nor on how often the node repeats one.
OrderDoesNotMatter ==
  (pc = "done" /\ reads.rows # <<>>) =>
    LET Conclude(rows) == linkage(rows, reads.create, reads.spend)
    IN  /\ \A p \in Permutations(DOMAIN reads.rows) :
             Conclude([n \in DOMAIN reads.rows |-> reads.rows[p[n]]]) = result
        /\ \A n \in DOMAIN reads.rows : Conclude(Append(reads.rows, reads.rows[n])) = result

\* A node that adds rows but does not drop the true one cannot make the package
\* name another transaction, or a true one in another block.
TrueRowPrevails ==
  (pc = "done" /\ result.kind = "package") =>
    \A n \in DOMAIN chain.txs :
      (chain.txs[n].inputs /\ chain.txs[n] \in Range(reads.rows)) =>
        result.burn_tx_id = chain.txs[n].id /\ reads.spend = chain.txs[n].block

=============================================================================
