--------------------------- MODULE TransactionRoute ---------------------------
(***************************************************************************)
(* Route analysis of a transaction (transaction_route.py). A transaction   *)
(* runs call by call; what is left of it is the flat list of its calls,    *)
(* each with its stack height unless the node did not record any, and the  *)
(* mints of the token accounts that existed before or after it. From that  *)
(* the analysis finds again which token movements belong to which swap,    *)
(* what a swap really took and gave, and of which mint its accounts are.   *)
(*                                                                         *)
(* A call is abstracted to what it does to token accounts and lamports.    *)
(* The account positions and discriminators by which _swap recognises nine *)
(* protocols are one field: it is a swap, from one account to another.     *)
(* The instances checked move 2^i with the i-th call: a sum tells what it  *)
(* was made of.                                                            *)
(***************************************************************************)
EXTENDS Integers, Sequences, FiniteSetsExt, SequencesExt

CONSTANTS
  Accounts,    \* token accounts
  MintOf,      \* the mint of each, the same throughout a transaction
  Amount(_),   \* what the i-th call moves, if it moves something
  MaxHeight,   \* stack heights of calls
  MaxSum,      \* stands for the largest 64-bit amount
  Settings,    \* families of transactions: up to "length" calls out of "calls";
               \* their balances name the accounts of one of the sets "listed"
  None         \* not known

ASSUME MintAssumption == None \notin {MintOf[a] : a \in Accounts}
ASSUME NoneAssumption == None \notin Nat
ASSUME AccountsAssumption == IsFiniteSet(Accounts)

Movements == {"plain", "checked", "checked2022", "withFee"}

(* What the token program sees to: accounts that trade tokens have one mint,
   which a call that names it names rightly. The lamports of a payment come
   from an account that is not a token account. *)
ASSUME CallsAssumption ==
  \A s \in Settings :
    /\ s.length \in Nat /\ \A i \in 1..s.length : Amount(i) \in Nat
    /\ \A listed \in s.listed : listed \subseteq Accounts
    /\ \A c \in s.calls :
         /\ c.kind \in Movements =>
              /\ {c.source, c.target} \subseteq Accounts
              /\ c.mint = MintOf[c.source] /\ c.mint = MintOf[c.target]
         /\ c.kind = "open" => c.target \in Accounts /\ c.mint = MintOf[c.target]
         /\ c.kind = "withFee" => c.fee \in Nat
         /\ c.kind \in {"swap", "curve"} => c.target \in Accounts
         /\ c.kind = "swap" => c.source \in Accounts
         /\ c.kind \in {"curve", "pay"} => c.source \notin Accounts

VARIABLES
  setting,    \* one of Settings
  recorded,   \* whether the node records stack heights
  run,        \* the calls made: the call, its height, the calls it was made within
  route       \* what the analysis says, or None

vars == <<setting, recorded, run, route>>

-----------------------------------------------------------------------------
\* The transaction.

(* Calls that call nothing themselves. *)
Leaves == Movements \cup {"open", "pay"}

Caller(h) == Max({0} \cup {i \in DOMAIN run : run[i].height = h - 1})

Init ==
  /\ setting \in Settings
  /\ recorded \in BOOLEAN
  /\ run = <<>>
  /\ route = None

Callers(h) == IF h = 1 THEN {} ELSE {Caller(h)} \cup run[Caller(h)].callers

(* The caller is the last call made one level up, and still runs. *)
Call(c, h) ==
  /\ route = None /\ Len(run) < setting.length
  /\ h > 1 => /\ run # <<>> /\ h <= Last(run).height + 1
              /\ run[Caller(h)].call.kind \notin Leaves
  /\ run' = Append(run, [call |-> c, height |-> h, callers |-> Callers(h)])
  /\ UNCHANGED <<setting, recorded, route>>

-----------------------------------------------------------------------------
\* What the analysis reads.

Kind(i) == run[i].call.kind
Source(i) == run[i].call.source
Target(i) == run[i].call.target

Outer(i) == Cardinality({k \in 1..i : run[k].height = 1})

(* Outer instructions are known to be; the height of others may not. *)
Height(i) == IF run[i].height = 1 \/ recorded THEN run[i].height ELSE None

IsSwap(i) == Kind(i) \in {"swap", "curve"}

(* Mutant: a call at the same height counts as one made by it. *)
DescendantOrSibling(i, j) ==
  /\ Outer(i) = Outer(j)
  /\ IF run[i].height = 1
     THEN run[j].height # 1
     ELSE Height(i) # None /\ Height(j) # None /\ Height(j) >= Height(i)

Descendant(i, j) ==
  /\ Outer(i) = Outer(j)
  /\ IF run[i].height = 1
     THEN run[j].height # 1
     ELSE Height(i) # None /\ Height(j) # None /\ Height(j) > Height(i)

(* Mutant: descendants are looked for beyond the end of the call. *)
ChildrenScattered(i) == {j \in DOMAIN run : j > i /\ Descendant(i, j)}

(* The calls after one, up to the first that is not its descendant. *)
Children(i) ==
  {j \in DOMAIN run : j > i /\ \A k \in (i + 1)..j : Descendant(i, k)}

Nested(i) == {j \in Children(i) : Kind(j) \in Movements}

-----------------------------------------------------------------------------
\* Mints.

(* Some calls name a mint outright. *)
Named(known, c) ==
  CASE c.kind \in Movements \ {"plain"} ->
         [known EXCEPT ![c.source] = c.mint, ![c.target] = c.mint]
    [] c.kind = "open" -> [known EXCEPT ![c.target] = c.mint]
    [] OTHER -> known

(* What the balances list, and what the calls name, one after another. *)
Evidence(listed) ==
  LET named[n \in 0..Len(run)] ==
        IF n = 0 THEN [a \in Accounts |-> IF a \in listed THEN MintOf[a] ELSE None]
        ELSE Named(named[n - 1], run[n].call)
  IN  named[Len(run)]

(* What one end of a plain transfer is, the other is. *)
Spread(known, c) ==
  IF c.kind # "plain" THEN known
  ELSE LET mint == IF known[c.source] # None THEN known[c.source] ELSE known[c.target]
       IN  [known EXCEPT ![c.source] = IF @ = None THEN mint ELSE @,
                         ![c.target] = IF @ = None THEN mint ELSE @]

(* One pass over the calls. *)
Pass(known) ==
  LET spread[n \in 0..Len(run)] ==
        IF n = 0 THEN known ELSE Spread(spread[n - 1], run[n].call)
  IN  spread[Len(run)]

(* Mutant: a single pass. *)
PassOnce(known) == Pass(known)

(* Passes until one learns nothing; as many as there are accounts are enough. *)
PassAll(known) ==
  LET passes[n \in 0..Cardinality(Accounts)] ==
        IF n = 0 THEN known ELSE Pass(passes[n - 1])
  IN  passes[Cardinality(Accounts)]

Mints(listed) == PassAll(Evidence(listed))

-----------------------------------------------------------------------------
\* Legs and calls of unknown programs.

(* The fee a transfer withholds, as far as it says: a checked transfer of
   Token-2022 does not. *)
Withheld(i) ==
  CASE Kind(i) = "checked2022" -> None
    [] Kind(i) = "withFee" -> run[i].call.fee
    [] OTHER -> 0

Net(i) ==
  IF Withheld(i) = None THEN None
  ELSE IF Withheld(i) > Amount(i) THEN None
  ELSE Amount(i) - Withheld(i)

Fitting(sum) == IF sum <= MaxSum THEN sum ELSE None

Total(S) == IF S = {} THEN None ELSE Fitting(SumFunction([i \in S |-> Amount(i)]))

TotalNet(S) ==
  IF S = {} \/ \E i \in S : Net(i) = None THEN None
  ELSE Fitting(SumFunction([i \in S |-> Net(i)]))

(* What the trader of a bonding curve paid: system transfers to the pool
   and the fee accounts, all made by the curve itself. *)
NativeDebit(i) ==
  LET paid == {j \in Children(i) : Kind(j) = "pay" /\ Source(j) = Source(i)}
  IN  IF /\ Height(i) # None
         /\ \A j \in paid : Height(j) = Height(i) + 1 /\ Target(j) \in {"pool", "fee"}
         /\ \E j \in paid : Target(j) = "pool"
      THEN Total(paid)
      ELSE None

Input(i) ==
  IF Kind(i) = "curve" THEN NativeDebit(i)
  ELSE Total({j \in Nested(i) : Source(j) = Source(i)})

Output(i) == TotalNet({j \in Nested(i) : Target(j) = Target(i)})

(* The input of a curve is lamports, of the mint its accounts name. A swap
   names mints only in some protocols and versions. *)
MintAt(known, i, account) ==
  IF account \notin Accounts THEN run[i].call.mint
  ELSE IF known[account] # None THEN known[account]
  ELSE IF run[i].call.pair THEN MintOf[account] ELSE None

Leg(i, succeeded, known) ==
  [at |-> i,
   input |-> IF succeeded THEN Input(i) ELSE None,
   output |-> IF succeeded THEN Output(i) ELSE None,
   inputMint |-> MintAt(known, i, Source(i)),
   outputMint |-> MintAt(known, i, Target(i))]

UnknownCall(i) ==
  [at |-> i, moves |-> Nested(i) # {}, swaps |-> \E j \in Children(i) : IsSwap(j)]

Analyse(succeeded, listed) ==
  /\ route = None
  /\ LET known == Mints(listed)
     IN  route' = [succeeded |-> succeeded, listed |-> listed, mints |-> known,
                   legs |-> {Leg(i, succeeded, known) : i \in {k \in DOMAIN run : IsSwap(k)}},
                   unknown |-> {UnknownCall(i) : i \in {k \in DOMAIN run : Kind(k) = "other"}}]
  /\ UNCHANGED <<setting, recorded, run>>

Next ==
  \/ \E c \in setting.calls, h \in 1..MaxHeight : Call(c, h)
  \/ \E succeeded \in BOOLEAN, listed \in setting.listed : Analyse(succeeded, listed)

Spec == Init /\ [][Next]_vars

-----------------------------------------------------------------------------
\* What really happened, from who called whom.

Made(i) == {j \in DOMAIN run : i \in run[j].callers}

Left(i) == {j \in Made(i) : Kind(j) \in Movements \cup {"pay"} /\ Source(j) = Source(i)}
Arrived(i) == {j \in Made(i) : Kind(j) \in Movements /\ Target(j) = Target(i)}

Received(j) == Amount(j) - (IF Kind(j) \in {"checked2022", "withFee"} THEN run[j].call.fee ELSE 0)

Spent(i) == SumFunction([j \in Left(i) |-> Amount(j)])
Gained(i) == SumFunction([j \in Arrived(i) |-> Received(j)])

(* A fee is told, and was taken out of the amount. *)
FeeTold(j) == Kind(j) # "checked2022" /\ (Kind(j) = "withFee" => run[j].call.fee <= Amount(j))

(* Where one cannot tell who called whom, nothing is said but of outer
   instructions. *)
Traceable(i) == recorded \/ run[i].height = 1

(* An amount of a leg is what its own call moved, no transfer of a sibling
   or of an earlier or later leg in it and none of its own missing; where a
   fee, a caller or the outcome is unknown it is left open, and only there. *)
OwnAmounts ==
  route # None =>
    \A leg \in route.legs :
      LET i == leg.at
      IN  /\ leg.input \in {None, Spent(i)} /\ leg.output \in {None, Gained(i)}
          /\ route.succeeded /\ Traceable(i) =>
               /\ Kind(i) = "swap" /\ Left(i) # {} /\ Spent(i) <= MaxSum => leg.input = Spent(i)
               /\ Arrived(i) # {} /\ (\A j \in Arrived(i) : FeeTold(j)) /\ Gained(i) <= MaxSum
                  => leg.output = Gained(i)
          /\ ~ route.succeeded => leg.input = None /\ leg.output = None

(* A call of an unknown program is shown with what it did through others,
   and not with what others did; nothing is said of it where one cannot tell. *)
UnknownsTold ==
  route # None =>
    \A u \in route.unknown :
      /\ u.moves = (Traceable(u.at) /\ \E j \in Made(u.at) : Kind(j) \in Movements)
      /\ u.swaps = (Traceable(u.at) /\ \E j \in Made(u.at) : IsSwap(j))

(* The heights, where recorded, tell the calls made within one exactly. *)
CallTreeFound ==
  \A i \in DOMAIN run : Children(i) = IF Traceable(i) THEN Made(i) ELSE {}

(* What is said of a call is what it did: neither more nor less. *)
OwnEvidence == OwnAmounts /\ UnknownsTold

Ends(i) == {Source(i), Target(i)}

Joined(A) ==
  A \cup {a \in Accounts :
            \E i \in DOMAIN run : Kind(i) = "plain" /\ Ends(i) \cap A # {} /\ a \in Ends(i)}

Reach(A) ==
  LET reach[n \in 0..Cardinality(Accounts)] == IF n = 0 THEN A ELSE Joined(reach[n - 1])
  IN  reach[Cardinality(Accounts)]

NamedAccounts ==
  (UNION {Ends(i) : i \in {k \in DOMAIN run : Kind(k) \in Movements \ {"plain"}}})
  \cup {Target(i) : i \in {k \in DOMAIN run : Kind(k) = "open"}}

(* A mint is known of exactly the accounts that plain transfers join, in
   whatever order and over however many accounts, to one whose mint is
   named; and it is the right one, in the legs too. *)
MintsFound ==
  route # None =>
    /\ \A a \in Accounts :
         route.mints[a] =
           IF a \in Reach(route.listed \cup NamedAccounts) THEN MintOf[a] ELSE None
    /\ \A leg \in route.legs : leg.outputMint \in {None, MintOf[Target(leg.at)]}
=============================================================================
