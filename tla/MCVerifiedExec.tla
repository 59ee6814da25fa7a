---------------------------- MODULE MCVerifiedExec ----------------------------
(* Families of small programs for VerifiedExec and their constants.  A      *)
(* program has two functions, of which the second is executed and may call  *)
(* the first and itself.  R is a resource, P a plain struct, K a resource   *)
(* in storage.                                                              *)
EXTENDS VerifiedExec

D(k, a) == [kind |-> k, args |-> a]

MCDesc == [u64 |-> D("int", <<>>), u8 |-> D("int", <<>>), bool |-> D("bool", <<>>),
           address |-> D("address", <<>>), signer |-> D("signer", <<"address">>),
           R |-> D("struct", <<"u64">>), P |-> D("struct", <<"bool", "u64">>),
           K |-> D("struct", <<"u64">>),
           vecU |-> D("vector", <<"u64">>), vecP |-> D("vector", <<"P">>),
           refU |-> D("ref", <<"u64">>), mutU |-> D("mut", <<"u64">>),
           refP |-> D("ref", <<"P">>), mutP |-> D("mut", <<"P">>),
           refK |-> D("ref", <<"K">>), mutK |-> D("mut", <<"K">>),
           refV |-> D("ref", <<"vecU">>), mutV |-> D("mut", <<"vecU">>),
           mutVP |-> D("mut", <<"vecP">>), refVP |-> D("ref", <<"vecP">>),
           refS |-> D("ref", <<"signer">>)]
MCPool == <<"R", "P", "u64", "K">>
Plain == {"u64", "u8", "bool", "address", "P", "vecU", "refU", "mutU", "refP", "mutP", "refK", "mutK",
          "refV", "mutV", "refS", "vecP", "mutVP", "refVP"}
MCKeyed == {"K"}

F(params, locals, rets, acquires) ==
    [params |-> params, locals |-> locals, rets |-> rets, acquires |-> acquires]
MCSig == << (* locals and calls: flag, a resource, a local resource, an integer *)
            F(<<"R">>, <<>>, <<"R">>, {}), F(<<"bool", "R">>, <<"R", "u64">>, <<"R">>, {}),
            (* types *)
            F(<<"u64">>, <<>>, <<"bool", "u64">>, {}), F(<<"bool", "P">>, <<>>, <<"u64">>, {}),
            (* references to a struct *)
            F(<<"mutP">>, <<>>, <<"mutU">>, {}),
            F(<<"bool", "P">>, <<"mutP", "mutU", "refU">>, <<>>, {}),
            (* global storage *)
            F(<<"address">>, <<>>, <<"u64">>, {"K"}),
            F(<<"refS", "address">>, <<"mutK", "refU", "K">>, <<>>, {"K"}),
            (* references to a vector *)
            F(<<"refV">>, <<>>, <<"u64">>, {}),
            F(<<"bool", "vecU">>, <<"mutV", "mutU", "refU">>, <<>>, {}),
            (* a vector of structs *)
            F(<<"P">>, <<>>, <<>>, {}),
            F(<<"bool", "vecP">>, <<"mutVP", "mutP", "P">>, <<>>, {})>>

(* Statements in sequence; a jump names the statement it goes to.           *)
Starts(s) == [k \in DOMAIN s |-> FoldLeft(LAMBDA n, j : n + Len(s[j]), 0, [j \in 1 .. k - 1 |-> j])]
Resolved(s) ==
    LET starts == Starts(s)
        fix(i) == IF HasOffset(i) THEN [i EXCEPT !.a = starts[i.a]] ELSE i
    IN  FlattenSeq([k \in DOMAIN s |-> [j \in DOMAIN s[k] |-> fix(s[k][j])]])

Set(op, from, l) == <<I1(op, from), I1("StLoc", l)>>

(* Vectors through a reference in local 2, elements in 3 and 4.             *)
VLength == <<I1("MoveLoc", 0), I1("VecLen", 3), I0("Ret")>>
VectorBorrows ==
    {<<I1("CopyLoc", 2), I0("LdU64"), I1("VecMutBorrow", 3), I1("StLoc", 3)>>,
     <<I1("CopyLoc", 2), I0("FreezeRef"), I0("LdU64"), I1("VecImmBorrow", 3), I1("StLoc", 4)>>,
     <<I1("CopyLoc", 0), I1("BrTrue", 2)>>}
VectorStatements == VectorBorrows \union
    {<<I1("CopyLoc", 2), I0("LdU64"), I1("VecPushBack", 3)>>,
     <<I1("CopyLoc", 2), I1("VecPopBack", 3), I0("Pop")>>,
     <<I0("LdU64"), I1("MoveLoc", 3), I0("WriteRef")>>,
     <<I1("MoveLoc", 4), I0("ReadRef"), I0("Pop")>>,
     <<I1("ImmBorrowLoc", 1), I1("Call", 9), I0("Pop")>>}

AResource == Val("R", FALSE, <<Flat("u64")>>)
APair == Val("P", FALSE, <<Bool(TRUE), Flat("u64")>>)
AVector == Val("vecU", FALSE, <<Flat("u64"), Flat("u64")>>)
Pairs == Val("vecP", FALSE, <<APair, APair>>)
MCArguments == 
    (2 :> {<<Bool(b), AResource>> : b \in BOOLEAN}) @@ (4 :> {<<Bool(TRUE), APair>>})
    @@ (6 :> {<<Bool(b), APair>> : b \in BOOLEAN})
    @@ (8 :> {<<Ref("refS", << <<"signer", "signer">> >>), Flat("address")>>})
    @@ (10 :> {<<Bool(b), AVector>> : b \in BOOLEAN})
    @@ (12 :> {<<Bool(b), Pairs>> : b \in BOOLEAN})
(* What the arguments and the stored resources are made of.                *)
MCInputs == {AResource, APair, AVector, Pairs, Flat("u64"), Flat("address"), Bool(TRUE), Bool(FALSE),
             Val("K", FALSE, <<Flat("u64")>>)}
MCStored == {[K |-> Invalid], [K |-> Val("K", FALSE, <<Flat("u64")>>)]}

-------------------------------------------------------------------------------
(* Programs without references.                                            *)
PassOn == <<I1("MoveLoc", 0), I0("Ret")>>
Remake == <<I1("MoveLoc", 0), I1("Unpack", 1), I1("Pack", 1), I0("Ret")>>
Again == <<I1("MoveLoc", 0), I1("Call", 1), I0("Ret")>>

Ends(n) == {<<I0("Ret")>>, <<I1("MoveLoc", 1), I0("Ret")>>, <<I0("LdU64"), I0("Abort")>>}
           \union {<<I1("Branch", j)>> : j \in {2, n}}
Statements(n) ==
    Ends(n)
    \union {<<I1("CopyLoc", 0), I1("BrTrue", j)>> : j \in 1 .. n}
    \union {<<I1("MoveLoc", 1), I1("StLoc", 2)>>, <<I1("MoveLoc", 2), I1("StLoc", 1)>>,
            <<I1("MoveLoc", 1), I1("Unpack", 1), I1("StLoc", 3)>>,
            <<I1("MoveLoc", 3), I1("Pack", 1), I1("StLoc", 1)>>,
            <<I1("MoveLoc", 0), I0("Not"), I1("StLoc", 0)>>}
(* A body does not start with an end: the rest would be dead code, which     *)
(* bodies with an end in the middle have too.                               *)
Bodies(n) == {Resolved(<<f>> \o s \o <<e>>) :
    f \in Statements(n) \ Ends(n), s \in [1 .. n - 2 -> Statements(n)], e \in Ends(n)}

(* Locals and branches.                                                     *)
BranchPrograms == {<<PassOn, b>> : b \in Bodies(4)}

(* Types and stack: straight code with one conditional branch back.         *)
Both == <<I0("LdFalse"), I1("MoveLoc", 0), I0("Ret")>>
OneInstr == {I0("LdU64"), I0("Pop"), I0("Add"), I0("Eq"), I0("And"), I0("Not"),
             I1("Pack", 2), I1("Unpack", 2), I1("CopyLoc", 0), I1("MoveLoc", 1), I1("StLoc", 1),
             I1("Call", 3), I1("BrFalse", 0)}
Pieces == {<<i>> : i \in OneInstr}
          \union {<<I0("LdU64"), I0("LdU64"), Instr("VecPack", 3, 2), Instr("VecUnpack", 3, n)>> :
                     n \in {1, 2}}
(* Four pieces start with a push of each type and may end with an integer:  *)
(* AbortPrograms has the others.                                            *)
Pushes == {<<I0("LdU64")>>, <<I1("CopyLoc", 0)>>, <<I1("MoveLoc", 1)>>}
Finals == {p \in Pieces : p[1].op \in {"LdU64", "Pop", "Add", "StLoc", "BrFalse"}}
TypesPrograms ==
    {(3 :> Both) @@ (4 :> p \o FlattenSeq(s) \o q \o <<I0("Ret")>>) :
        p \in Pushes, s \in [1 .. 2 -> Pieces], q \in Finals}
AbortPrograms ==
    {(3 :> Both) @@ (4 :> FlattenSeq(s) \o <<I0("Nop"), I0("Abort")>>) : s \in [1 .. 2 -> Pieces]}

(* Calls: function 1 remakes or calls itself with a resource;               *)
(* the caller keeps operands on the stack across the call.                  *)
CallStarts == {<<I1("MoveLoc", 1)>>, <<I0("LdU64"), I1("Pack", 1)>>, <<I1("CopyLoc", 0)>>,
               <<I1("CopyLoc", 0), I1("BrTrue", 0)>>}
CallPieces == CallStarts \union
              {<<I1("Call", 1)>>, <<I1("Call", 2)>>, <<I1("StLoc", 2)>>,
               <<I1("Unpack", 1), I0("Pop")>>, <<I1("MoveLoc", 2)>>}
CallBodies == {p \o FlattenSeq(s) \o <<I0("Ret")>> : p \in CallStarts, s \in [1 .. 3 -> CallPieces]}
CallPrograms == {<<a, b>> : a \in {Remake, Again}, b \in CallBodies}

-------------------------------------------------------------------------------
(* Programs with references.                                               *)
(* References: borrow the struct in local 1 into 2, a field of it into 3 and *)
(* 4, write, read, overwrite what is borrowed, hand references to a call.   *)
Field2 == <<I1("MoveLoc", 0), Instr("MutBorrowField", 2, 2), I0("Ret")>>
MakeP == <<I0("LdTrue"), I0("LdU64"), I1("Pack", 2)>>
RefBorrows(n) ==
    {<<I1("CopyLoc", 2), Instr("MutBorrowField", 2, 2), I1("StLoc", 3)>>,
     <<I1("CopyLoc", 2), I1("Call", 5), I1("StLoc", 3)>>,
     <<I1("CopyLoc", 0), I1("BrTrue", n)>>}
RefStatements(n) == RefBorrows(n) \union
    {<<I1("MoveLoc", 2), Instr("ImmBorrowField", 2, 2), I1("StLoc", 4)>>,
     <<I1("CopyLoc", 3), I0("FreezeRef"), I1("StLoc", 4)>>,
     <<I0("LdU64"), I1("MoveLoc", 3), I0("WriteRef")>>,
     MakeP \o <<I1("CopyLoc", 2), I0("WriteRef")>>,
     MakeP \o <<I1("StLoc", 1)>>,
     <<I1("CopyLoc", 4), I1("CopyLoc", 4), I0("Eq"), I0("Pop")>>,
     <<I1("MoveLoc", 1), I0("Pop")>>}
RefPrograms ==
    {(5 :> Field2)
     @@ (6 :> Resolved(<<Set("MutBorrowLoc", 1, 2), b>> \o s \o << <<I0("Ret")>> >>)) :
        b \in RefBorrows(2), s \in [1 .. 3 -> RefStatements(2)]}

(* Storage: publish, borrow, read, take the resource of the signer.         *)
ReadK == <<I1("MoveLoc", 0), I1("ImmBorrowGlobal", 4), Instr("ImmBorrowField", 4, 1), I0("ReadRef"),
           I0("Ret")>>
GlobalBorrows ==
    {<<I1("CopyLoc", 0), I0("LdU64"), I1("Pack", 4), I1("MoveTo", 4)>>,
     <<I1("CopyLoc", 1), I1("MutBorrowGlobal", 4), I1("StLoc", 2)>>,
     <<I1("CopyLoc", 1), I1("ImmBorrowGlobal", 4), Instr("ImmBorrowField", 4, 1), I1("StLoc", 3)>>,
     <<I1("CopyLoc", 1), I1("Exists", 4), I1("BrFalse", 1)>>}
GlobalStatements == GlobalBorrows \union
    {<<I1("CopyLoc", 1), I1("MoveFrom", 4), I1("Unpack", 4), I0("Pop")>>,
     <<I0("LdU64"), I1("MoveLoc", 2), Instr("MutBorrowField", 4, 1), I0("WriteRef")>>,
     <<I1("MoveLoc", 3), I0("ReadRef"), I0("CastU8"), I0("CastU64"), I0("LdU64"), I0("Lt"), I0("Pop")>>,
     <<I1("CopyLoc", 1), I1("Call", 7), I0("Pop")>>}
GlobalPrograms ==
    {(7 :> ReadK) @@ (8 :> Resolved(<<b>> \o s \o << <<I0("Ret")>> >>)) :
        b \in GlobalBorrows, s \in [1 .. 3 -> GlobalStatements]}

(* Vectors.                                                                 *)
VectorPrograms ==
    {(9 :> VLength)
     @@ (10 :> Resolved(<<Set("MutBorrowLoc", 1, 2), b>> \o s \o << <<I0("Ret")>> >>)) :
        b \in VectorBorrows, s \in [1 .. 3 -> VectorStatements]}

(* Ownership: elements of the vector of structs in local 1, referred to by  *)
(* local 2, are borrowed into 3, taken out, taken apart, handed to a call,  *)
(* written over another, put back, swapped; the branches make the analysis  *)
(* forget local 3.                                                          *)
Taken == <<I1("CopyLoc", 2), I1("VecPopBack", 2)>>
TakeApart == <<I1("Unpack", 2), I0("Pop"), I0("Pop")>>
Consume == <<I1("MoveLoc", 0)>> \o TakeApart \o <<I0("Ret")>>
OwnershipStarts ==
    {<<I1("CopyLoc", 2), I0("LdU64"), I1("VecMutBorrow", 2), I1("StLoc", 3)>>,
     <<I1("CopyLoc", 0), I1("BrTrue", 4)>>,
     Taken \o TakeApart,
     Taken \o <<I1("Call", 11)>>,
     Taken \o <<I1("CopyLoc", 2), I0("LdU64"), I1("VecMutBorrow", 2), I0("WriteRef")>>}
OwnershipStatements == OwnershipStarts \union
    {<<I1("CopyLoc", 0), I1("BrTrue", 2)>>,
     <<I1("CopyLoc", 0), I1("BrTrue", 4), I0("Ret")>>,
     Taken \o <<I1("StLoc", 4), I1("MoveLoc", 4)>> \o TakeApart,
     Taken \o <<I1("StLoc", 4), I1("CopyLoc", 2), I1("MoveLoc", 4), I1("VecPushBack", 2)>>,
     MakeP \o <<I1("CopyLoc", 2), I0("LdU64"), I1("VecMutBorrow", 2), I0("WriteRef")>>,
     <<I1("CopyLoc", 2), I0("LdU64"), I0("LdU64"), I1("VecSwap", 2)>>,
     <<I1("MoveLoc", 2), I0("Pop"), I1("MoveLoc", 1), Instr("VecUnpack", 2, 2)>>
         \o TakeApart \o TakeApart}
OwnershipPrograms ==
    {(11 :> Consume)
     @@ (12 :> Resolved(<<Set("MutBorrowLoc", 1, 2), b>> \o s \o << <<I0("Ret")>> >>)) :
        b \in OwnershipStarts, s \in [1 .. 2 -> OwnershipStatements]}

MCPrograms == {BranchPrograms, CallPrograms, TypesPrograms, AbortPrograms,
               RefPrograms, GlobalPrograms, VectorPrograms, OwnershipPrograms}
==============================================================================
