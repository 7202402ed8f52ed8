---------------------------- MODULE MCOwnership -----------------------------
(***************************************************************************)
(* A library package with two ABIs and a configuration file, a package     *)
(* that links to either, and one that ships some of the same paths.        *)
(***************************************************************************)
EXTENDS Ownership, TLC

MCOrder == <<"cfg0", "cfg1", "conf", "x.so", "x.so.1", "x.so.1.0", "x.so.2.0">>
MCPath == ToSet(MCOrder)
MCPending == [p \in {"conf"} |-> <<"cfg0", "cfg1">>]
MCBaseName == [p \in MCPath |-> IF p = "x.so.1" THEN "x1" ELSE "none"]
MCSoname == [l1 |-> "x1", l2 |-> "x2", c1 |-> "none", c2 |-> "none", user |-> "none"]

LinkTo(p) == <<"link", p>>
Abi1 == "x.so.1.0" :> Obj("l1") @@ "x.so.1" :> LinkTo("x.so.1.0") @@ "x.so" :> LinkTo("x.so.1.0")
Abi2 == "x.so.2.0" :> Obj("l2") @@ "x.so" :> LinkTo("x.so.2.0")
Conf(c) == "conf" :> Obj(c)

MCVersion == {"a1", "a2", "b1", "b2", "c1"}
MCSlot == [a1 |-> "a", a2 |-> "a", b1 |-> "b", b2 |-> "b", c1 |-> "c"]
MCNeeds == [a1 |-> {}, a2 |-> {}, b1 |-> {"x1"}, b2 |-> {"x2"}, c1 |-> {}]
MCImage == [a1 |-> {Abi1 @@ Conf("c1")}, a2 |-> {Abi2 @@ Conf("c2"), Abi2},
            b1 |-> {Nothing}, b2 |-> {Nothing},
            c1 |-> {Conf("c1"), "x.so.1.0" :> Obj("c1")}]
=============================================================================
