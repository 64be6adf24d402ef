--------------------------- MODULE NcdcTiggeProducts ---------------------------
(***************************************************************************)
(* The main loop of NcdcTigge as an implementation of TiggeProducts, and   *)
(* what input that lacks nothing is.                                       *)
(***************************************************************************)
EXTENDS NcdcTigge

Status == IF phase \in {"done", "exit", "crash"} THEN phase ELSE "running"

Products == INSTANCE TiggeProducts WITH
  member <- ensembleMember, published <- output, status <- Status

(* On input that lacks nothing the main loop publishes exactly the         *)
(* promised products, in order, member by member, and finishes.            *)
ImplementsProducts == Products!Spec

(* Its safety part: nothing but promised products, in order.               *)
PublishesAsPromised ==
  Products!Init /\ [][Products!Next]_<<ensembleMember, output, Status>>

-------------------------------------------------------------------------------
(* A file has one record of a kind; each of the kinds is in one file only, *)
(* once.                                                                   *)
OnceIn(file, kind) ==
  \E i \in DOMAIN file : \A j \in DOMAIN file : file[j] = kind <=> j = i

EachOnce(a, b, kinds) == \A k \in kinds :
  \/ OnceIn(a, k) /\ ~Has(b, {k})
  \/ ~Has(a, {k}) /\ OnceIn(b, k)

(* One of the two levels of soil moisture is in each file.                 *)
OneEach(a, b, k, l) ==
  /\ Has(a, {k}) /\ ~Has(a, {l})
  /\ Has(b, {l}) /\ ~Has(b, {k})

(* The two hemispheres of a parameter and no other level, the northern one *)
(* once.                                                                   *)
Hemispheres(file, north, south, other) ==
  OnceIn(file, north) /\ Has(file, {south}) /\ ~Has(file, {other})

(* Files a and b have the records of a step from which v is made, and none *)
(* that its reader could take for one of them.                             *)
Suffices(a, b, v) ==
  CASE v = "ttr"  -> Has(a, {"ulwrfTop"}) \/ Has(b, {"ulwrfTop"})
    [] v = "slhf" -> Has(a, {"lhtfl"}) \/ Has(b, {"lhtfl"})
    [] v = "sshf" -> Has(a, {"shtfl"}) \/ Has(b, {"shtfl"})
    [] v = "ssr"  -> EachOnce(a, b, {"dswrf", "uswrf"})
    [] v = "str"  -> EachOnce(a, b, {"dlwrf", "ulwrf"})
    [] v = "tcw"  -> Has(a, {"pwat"}) /\ Has(b, {"cwat"})
    [] v = "pt"   -> /\ Hemispheres(b, "presNorth", "presSouth", "presOther")
                     /\ Hemispheres(b, "tmpNorth", "tmpSouth", "tmpOther")
    [] v = "sm"   -> \/ OneEach(a, b, "soilwUpper", "soilwLower")
                     \/ OneEach(a, b, "soilwLower", "soilwUpper")
    [] v = "st"   -> EachOnce(a, b, SoilTemperature)
    [] v = "tp"   -> Has(a, {"apcp"})
    [] OTHER      -> Has(a, {"apcp"}) /\ Has(a, {"csnow"})   \* sf6 and sf

(* The analysis, step 0, has no fluxes and no precipitation.               *)
LackNothing(inputs) ==
  \A s \in Steps : \A f \in inputs[s] : \A v \in ProcessQueue :
    (s = 0 => v \in Instant \ {"sf6"}) => Suffices(f.a, f.b, v)
===============================================================================
