----------------------------- MODULE BronzeCapture -----------------------------
(***************************************************************************)
(* What the stream promises its readers.  Bronze and contract quarantine,  *)
(* cut at the offsets the stream has committed, change only together, and  *)
(* every record between the first and the committed offsets is in the one  *)
(* its contract verdict names.  GenerationBuilder takes its source ranges  *)
(* from such a cut.                                                        *)
(***************************************************************************)
EXTENDS Integers, Sequences

CONSTANTS
    Partition,  \* the Kafka partitions of the topic
    Record,     \* the records producers may send
    None        \* the stream has never been started

VARIABLES
    topic,      \* per partition, the records by offset
    admitted,   \* the records the contract gate lets into bronze
    frontier,   \* first captured and next offset per partition, or None
    bronze,     \* the keys <<partition, offset>> in bronze
    quarantine  \* the keys in contract quarantine

vars == <<topic, admitted, frontier, bronze, quarantine>>

Ends == [p \in Partition |-> Len(topic[p])]

Keys(first, next) ==
    UNION {{<<p, o>> : o \in first[p] .. (next[p] - 1)} : p \in Partition}

Passing(keys) == {k \in keys : topic[k[1]][k[2] + 1] \in admitted}

Init ==
    /\ topic = [p \in Partition |-> <<>>]
    /\ admitted \in SUBSET Record
    /\ frontier = None
    /\ bronze = {}
    /\ quarantine = {}

Produce ==
    /\ \E p \in Partition, r \in Record :
          topic' = [topic EXCEPT ![p] = Append(topic[p], r)]
    /\ UNCHANGED <<admitted, frontier, bronze, quarantine>>

(* The first start fixes where the capture begins, for ever. *)
Open ==
    /\ frontier = None
    /\ frontier' = [first |-> Ends, next |-> Ends]
    /\ UNCHANGED <<topic, admitted, bronze, quarantine>>

(* A batch becomes visible, whole. *)
Capture ==
    /\ frontier # None
    /\ \E next \in [Partition -> UNION {0 .. Len(topic[p]) : p \in Partition}] :
          /\ \A p \in Partition : next[p] \in frontier.next[p] .. Len(topic[p])
          /\ frontier' = [frontier EXCEPT !.next = next]
          /\ LET batch == Keys(frontier.next, next) IN
                /\ bronze' = bronze \cup Passing(batch)
                /\ quarantine' = quarantine \cup (batch \ Passing(batch))
    /\ UNCHANGED <<topic, admitted>>

Next == Produce \/ Open \/ Capture

Spec == Init /\ [][Next]_vars
=============================================================================
