---------------------------- MODULE ModuleProofs ----------------------------
(***************************************************************************)
(* The safety properties of the module's resources and of its test         *)
(* functions.                                                              *)
(*                                                                         *)
(* ModuleLifecycle, for every set of regions: a step concerns the lists    *)
(* (Nodes), what main() holds (MainHolds) or what the test child holds     *)
(* (ChildHolds); the frame lemmas say when one of the three is out of its  *)
(* reach.                                                                  *)
(*                                                                         *)
(* MemoryTests, for every slice, size of a chunk and of a bank: a test     *)
(* function writes nothing outside its slice.  The invariant says where    *)
(* each function is between two stores (Positions).  A good memory passes: *)
(* the invariant says what each word of the slice holds then, for the      *)
(* sweeps of a pattern test (GoodPattern) and for each of the other loops  *)
(* (LoopsGood).  A faulty memory is reported: the invariant says for each  *)
(* kind of fault by which sweep, walk or store it is found at the latest   *)
(* (FaultyGood).                                                           *)
(***************************************************************************)
EXTENDS ModuleLifecycle, MemoryTests, TLAPS

\* A step that leaves the lists alone.
LEMMA NodesFrame ==
  ASSUME Nodes, UNCHANGED <<todo, RW_list, RD_list, heap, loose>>
  PROVE Nodes'
BY DEF Nodes, NoDoubleFree, Listed

\* A step that leaves what main() holds alone.
LEMMA MainFrame ==
  ASSUME MainHolds, UNCHANGED input,
         stage'["main"] = stage["main"], after'["main"] = after["main"], outcome'["main"] = outcome["main"],
         mapped'["main"] = mapped["main"], RW_list'["main"] = RW_list["main"],
         loose'["main"] = loose["main"], heap'["main"] = heap["main"],
         mmtest_fd'["main"] = mmtest_fd["main"]
  PROVE MainHolds'
BY DEF MainHolds, PassReleases, input

\* A step that leaves what the test child holds alone.
LEMMA ChildFrame ==
  ASSUME ChildHolds, UNCHANGED istr,
         stage'["test"] = stage["test"], after'["test"] = after["test"],
         mapped'["test"] = mapped["test"], RW_list'["test"] = RW_list["test"]
  PROVE ChildHolds'
BY DEF ChildHolds

\* The inductive invariant holds initially.
LEMMA InitIInv == LifeInit => IInv
<1> SUFFICES ASSUME LifeInit PROVE IInv OBVIOUS
<1> USE DEF LifeInit, Proc
<1>1. LifeTypeOK BY DEF LifeTypeOK, Label, Outcome
<1>2. Nodes BY DEF Nodes, NoDoubleFree, Listed
<1>3. MainHolds BY DEF MainHolds, PassReleases
<1>4. ChildHolds BY DEF ChildHolds
<1> QED BY <1>1, <1>2, <1>3, <1>4 DEF IInv

\* Every step preserves it.
LEMMA NextIInv ==
  ASSUME IInv, [LifeNext]_lifeVars
  PROVE IInv'
<1>0. LifeTypeOK /\ Nodes /\ MainHolds /\ ChildHolds BY DEF IInv
<1> USE DEF Proc, At, Goto, Running
<1>1. ASSUME Install PROVE IInv'
  <2> USE <1>0, <1>1 DEF Install, GotoOrFail, End, input, lists, fate, signals
  <2>1. LifeTypeOK' BY DEF LifeTypeOK, Label, Outcome
  <2>2. Nodes' BY NodesFrame
  <2>3. MainHolds' BY DEF LifeTypeOK, Nodes, NoDoubleFree, MainHolds, PassReleases, Listed
  <2>4. ChildHolds' BY ChildFrame DEF LifeTypeOK
  <2> QED BY <2>1, <2>2, <2>3, <2>4 DEF IInv
<1>2. ASSUME Configure PROVE IInv'
  <2> USE <1>0, <1>2 DEF Configure, GotoOrFail, End, input, lists, fate, signals
  <2>1. LifeTypeOK' BY DEF LifeTypeOK, Label, Outcome
  <2>2. Nodes' BY NodesFrame
  <2>3. MainHolds' BY DEF LifeTypeOK, Nodes, NoDoubleFree, MainHolds, PassReleases, Listed
  <2>4. ChildHolds' BY ChildFrame DEF LifeTypeOK
  <2> QED BY <2>1, <2>2, <2>3, <2>4 DEF IInv
<1>3. ASSUME InitLists PROVE IInv'
  <2> USE <1>0, <1>3 DEF InitLists, input, lists, fate, signals
  <2>1. LifeTypeOK' BY DEF LifeTypeOK, Label, Outcome
  <2>2. Nodes' BY NodesFrame
  <2>3. MainHolds' BY DEF LifeTypeOK, Nodes, NoDoubleFree, MainHolds, PassReleases, Listed
  <2>4. ChildHolds' BY ChildFrame DEF LifeTypeOK
  <2> QED BY <2>1, <2>2, <2>3, <2>4 DEF IInv
<1>4. ASSUME Open PROVE IInv'
  <2> USE <1>0, <1>4 DEF Open, End, input, lists, fate, signals
  <2>1. LifeTypeOK' BY DEF LifeTypeOK, Label, Outcome
  <2>2. Nodes' BY NodesFrame
  <2>3. MainHolds' BY DEF LifeTypeOK, Nodes, NoDoubleFree, MainHolds, PassReleases, Listed
  <2>4. ChildHolds' BY ChildFrame DEF LifeTypeOK
  <2> QED BY <2>1, <2>2, <2>3, <2>4 DEF IInv
<1>5. ASSUME RegionFails PROVE IInv'
  <2> USE <1>0, <1>5 DEF RegionFails, End, input, lists, fate, signals
  <2>1. LifeTypeOK' BY DEF LifeTypeOK, Label, Outcome
  <2>2. Nodes' BY NodesFrame
  <2>3. MainHolds' BY DEF LifeTypeOK, Nodes, NoDoubleFree, MainHolds, PassReleases, Listed
  <2>4. ChildHolds' BY ChildFrame DEF LifeTypeOK
  <2> QED BY <2>1, <2>2, <2>3, <2>4 DEF IInv
<1>6. ASSUME NEW r \in Region, SkipRegion(r) PROVE IInv'
  <2> USE <1>0, <1>6 DEF SkipRegion, input, lists, fate, signals
  <2>1. LifeTypeOK' BY DEF LifeTypeOK, Label, Outcome
  <2>2. Nodes' BY DEF LifeTypeOK, Nodes, NoDoubleFree, Listed
  <2>3. MainHolds' BY MainFrame DEF LifeTypeOK
  <2>4. ChildHolds' BY ChildFrame DEF LifeTypeOK
  <2> QED BY <2>1, <2>2, <2>3, <2>4 DEF IInv
<1>7. ASSUME NEW r \in Region, MapRegion(r) PROVE IInv'
  <2> USE <1>0, <1>7 DEF MapRegion, input, lists, fate, signals
  <2>1. LifeTypeOK' BY DEF LifeTypeOK, Label, Outcome
  <2>2. Nodes' BY DEF LifeTypeOK, Nodes, NoDoubleFree, Listed
  <2>3. MainHolds' BY DEF LifeTypeOK, Nodes, NoDoubleFree, MainHolds, PassReleases, Listed
  <2>4. ChildHolds' BY ChildFrame DEF LifeTypeOK
  <2> QED BY <2>1, <2>2, <2>3, <2>4 DEF IInv
<1>8. ASSUME NEW r \in Region, AddRegion(r) PROVE IInv'
  <2> USE <1>0, <1>8 DEF AddRegion, input, lists, fate, signals
  <2>1. LifeTypeOK' BY DEF LifeTypeOK, Label, Outcome
  <2>2. Nodes' BY DEF LifeTypeOK, Nodes, NoDoubleFree, Listed
  <2>3. MainHolds' BY DEF LifeTypeOK, Nodes, NoDoubleFree, MainHolds, PassReleases, Listed
  <2>4. ChildHolds' BY ChildFrame DEF LifeTypeOK
  <2> QED BY <2>1, <2>2, <2>3, <2>4 DEF IInv
<1>9. ASSUME RegionsDone PROVE IInv'
  <2> USE <1>0, <1>9 DEF RegionsDone, End, input, lists, fate, signals
  <2>1. LifeTypeOK' BY DEF LifeTypeOK, Label, Outcome
  <2>2. Nodes' BY NodesFrame
  <2>3. MainHolds' BY DEF LifeTypeOK, Nodes, NoDoubleFree, MainHolds, PassReleases, Listed
  <2>4. ChildHolds' BY ChildFrame DEF LifeTypeOK
  <2> QED BY <2>1, <2>2, <2>3, <2>4 DEF IInv
<1>10. ASSUME Fork PROVE IInv'
  <2> USE <1>0, <1>10 DEF Fork, End, Inherit, input, lists, fate, signals
  <2>1. LifeTypeOK' BY DEF LifeTypeOK, Label, Outcome
  <2>2. Nodes' BY DEF LifeTypeOK, Nodes, NoDoubleFree, Listed
  <2>3. MainHolds' BY DEF LifeTypeOK, Nodes, NoDoubleFree, MainHolds, PassReleases, Listed
  <2>4. ChildHolds' BY DEF LifeTypeOK, MainHolds, ChildHolds
  <2> QED BY <2>1, <2>2, <2>3, <2>4 DEF IInv
<1>11. ASSUME Wait PROVE IInv'
  <2> USE <1>0, <1>11 DEF Wait, End, input, lists, fate, signals
  <2>1. LifeTypeOK' BY DEF LifeTypeOK, Label, Outcome
  <2>2. Nodes' BY NodesFrame
  <2>3. MainHolds' BY DEF LifeTypeOK, Nodes, NoDoubleFree, MainHolds, PassReleases, Listed
  <2>4. ChildHolds' BY ChildFrame DEF LifeTypeOK
  <2> QED BY <2>1, <2>2, <2>3, <2>4 DEF IInv
<1>12. ASSUME ReadOnlyTest PROVE IInv'
  <2> USE <1>0, <1>12 DEF ReadOnlyTest, End, input, lists, fate, signals
  <2>1. LifeTypeOK' BY DEF LifeTypeOK, Label, Outcome
  <2>2. Nodes' BY NodesFrame
  <2>3. MainHolds' BY MainFrame DEF LifeTypeOK
  <2>4. ChildHolds' BY DEF LifeTypeOK, MainHolds, ChildHolds
  <2> QED BY <2>1, <2>2, <2>3, <2>4 DEF IInv
<1>13. ASSUME CopyLists PROVE IInv'
  <2> USE <1>0, <1>13 DEF CopyLists, input, lists, fate, signals
  <2>1. LifeTypeOK' BY DEF LifeTypeOK, Label, Outcome
  <2>2. Nodes' BY NodesFrame
  <2>3. MainHolds' BY MainFrame DEF LifeTypeOK
  <2>4. ChildHolds' BY DEF LifeTypeOK, MainHolds, ChildHolds
  <2> QED BY <2>1, <2>2, <2>3, <2>4 DEF IInv
<1>14. ASSUME NoReadWriteTest PROVE IInv'
  <2> USE <1>0, <1>14 DEF NoReadWriteTest, End, input, lists, fate, signals
  <2>1. LifeTypeOK' BY DEF LifeTypeOK, Label, Outcome
  <2>2. Nodes' BY NodesFrame
  <2>3. MainHolds' BY MainFrame DEF LifeTypeOK
  <2>4. ChildHolds' BY DEF LifeTypeOK, MainHolds, ChildHolds
  <2> QED BY <2>1, <2>2, <2>3, <2>4 DEF IInv
<1>15. ASSUME EndTests PROVE IInv'
  <2> USE <1>0, <1>15 DEF EndTests, End, input, lists, fate, signals
  <2>1. LifeTypeOK' BY DEF LifeTypeOK, Label, Outcome
  <2>2. Nodes' BY NodesFrame
  <2>3. MainHolds' BY MainFrame DEF LifeTypeOK
  <2>4. ChildHolds' BY DEF LifeTypeOK, MainHolds, ChildHolds
  <2> QED BY <2>1, <2>2, <2>3, <2>4 DEF IInv
<1>16. ASSUME NEW who \in Proc, NEW r \in Region, Unmap(who, r) PROVE IInv'
  <2> USE <1>0, <1>16 DEF Unmap, input, lists, fate, signals
  <2>1. LifeTypeOK' BY DEF LifeTypeOK, Label, Outcome
  <2>2. Nodes' BY NodesFrame
  <2>3. MainHolds' BY DEF LifeTypeOK, Nodes, NoDoubleFree, MainHolds, PassReleases, Listed
  <2>4. ChildHolds' BY DEF LifeTypeOK, MainHolds, ChildHolds
  <2> QED BY <2>1, <2>2, <2>3, <2>4 DEF IInv
<1>17. ASSUME NEW who \in Proc, CloseDevice(who) PROVE IInv'
  <2> USE <1>0, <1>17 DEF CloseDevice, input, lists, fate, signals
  <2>1. LifeTypeOK' BY DEF LifeTypeOK, Label, Outcome
  <2>2. Nodes' BY NodesFrame
  <2>3. MainHolds' BY DEF LifeTypeOK, Nodes, NoDoubleFree, MainHolds, PassReleases, Listed
  <2>4. ChildHolds' BY DEF LifeTypeOK, MainHolds, ChildHolds
  <2> QED BY <2>1, <2>2, <2>3, <2>4 DEF IInv
<1>18. ASSUME NEW who \in Proc, NEW r \in Region, Unlink(who, r) PROVE IInv'
  <2> USE <1>0, <1>18 DEF Unlink, input, lists, fate, signals
  <2>1. LifeTypeOK' BY DEF LifeTypeOK, Label, Outcome
  <2>2. Nodes' BY DEF LifeTypeOK, Nodes, NoDoubleFree, Listed
  <2>3. MainHolds' BY DEF LifeTypeOK, Nodes, NoDoubleFree, MainHolds, PassReleases, Listed
  <2>4. ChildHolds' BY DEF LifeTypeOK, MainHolds, ChildHolds
  <2> QED BY <2>1, <2>2, <2>3, <2>4 DEF IInv
<1>19. ASSUME NEW who \in Proc, NEW r \in Region, Free(who, r) PROVE IInv'
  <2> USE <1>0, <1>19 DEF Free, input, lists, fate, signals
  <2>1. LifeTypeOK' BY DEF LifeTypeOK, Label, Outcome
  <2>2. Nodes' BY DEF LifeTypeOK, Nodes, NoDoubleFree, Listed
  <2>3. MainHolds' BY DEF LifeTypeOK, Nodes, NoDoubleFree, MainHolds, PassReleases, Listed
  <2>4. ChildHolds' BY DEF LifeTypeOK, MainHolds, ChildHolds
  <2> QED BY <2>1, <2>2, <2>3, <2>4 DEF IInv
<1>20. ASSUME NEW who \in Proc, Released(who) PROVE IInv'
  <2> USE <1>0, <1>20 DEF Released, End, input, lists, fate, signals
  <2>1. LifeTypeOK' BY DEF LifeTypeOK, Label, Outcome
  <2>2. Nodes' BY NodesFrame
  <2>3. MainHolds' BY DEF LifeTypeOK, Nodes, NoDoubleFree, MainHolds, PassReleases, Listed
  <2>4. ChildHolds' BY DEF LifeTypeOK, MainHolds, ChildHolds
  <2> QED BY <2>1, <2>2, <2>3, <2>4 DEF IInv
<1>21. ASSUME CtrlC PROVE IInv'
  <2> USE <1>0, <1>21 DEF CtrlC, input, lists, fate, signals
  <2>1. LifeTypeOK' BY DEF LifeTypeOK, Label, Outcome
  <2>2. Nodes' BY NodesFrame
  <2>3. MainHolds' BY MainFrame DEF LifeTypeOK
  <2>4. ChildHolds' BY ChildFrame DEF LifeTypeOK
  <2> QED BY <2>1, <2>2, <2>3, <2>4 DEF IInv
<1>22. ASSUME NEW who \in Proc, sig_ctrlC_exit(who) PROVE IInv'
  <2> USE <1>0, <1>22 DEF sig_ctrlC_exit, End, input, lists, fate, signals
  <2>1. LifeTypeOK' BY DEF LifeTypeOK, Label, Outcome
  <2>2. Nodes' BY DEF LifeTypeOK, Nodes, NoDoubleFree, Listed
  <2>3. MainHolds' BY DEF LifeTypeOK, Nodes, NoDoubleFree, MainHolds, PassReleases, Listed
  <2>4. ChildHolds' BY DEF LifeTypeOK, MainHolds, ChildHolds
  <2> QED BY <2>1, <2>2, <2>3, <2>4 DEF IInv
<1>23. ASSUME Aborted PROVE IInv'
  <2> USE <1>0, <1>23 DEF Aborted, End, input, lists, fate, signals
  <2>1. LifeTypeOK' BY DEF LifeTypeOK, Label, Outcome
  <2>2. Nodes' BY NodesFrame
  <2>3. MainHolds' BY MainFrame DEF LifeTypeOK
  <2>4. ChildHolds' BY DEF LifeTypeOK, MainHolds, ChildHolds
  <2> QED BY <2>1, <2>2, <2>3, <2>4 DEF IInv
<1>24. CASE UNCHANGED lifeVars
  <2> USE <1>0, <1>24 DEF lifeVars, input, lists, fate, signals
  <2>1. LifeTypeOK' BY DEF LifeTypeOK
  <2>2. Nodes' BY NodesFrame
  <2>3. MainHolds' BY MainFrame
  <2>4. ChildHolds' BY ChildFrame
  <2> QED BY <2>1, <2>2, <2>3, <2>4 DEF IInv
<1> QED
  BY <1>1, <1>2, <1>3, <1>4, <1>5, <1>6, <1>7, <1>8, <1>9, <1>10, <1>11, <1>12, <1>13,
     <1>14, <1>15, <1>16, <1>17, <1>18, <1>19, <1>20, <1>21, <1>22, <1>23, <1>24
  DEF LifeNext, InitModule, ModuleTest, ReleaseStep, Finished

\* IInv is an invariant of the specification.
THEOREM Invariance == LifeSpec => []IInv
<1>1. LifeInit => IInv BY InitIInv
<1>2. IInv /\ [LifeNext]_lifeVars => IInv' BY NextIInv
<1> QED BY <1>1, <1>2, PTL DEF LifeSpec

\* The variables keep their types.
THEOREM TypeCorrect == LifeSpec => []LifeTypeOK
<1>1. IInv => LifeTypeOK BY DEF IInv
<1> QED BY <1>1, Invariance, PTL

\* Neither a release nor the Ctrl-C that interrupts one frees a node twice.
THEOREM FreedOnce == LifeSpec => []NoDoubleFree
<1>1. IInv => NoDoubleFree BY DEF IInv, Nodes
<1> QED BY <1>1, Invariance, PTL

\* The test threads only get ranges that are mapped.
THEOREM TestsSound == LifeSpec => []TestsOnMapped
<1>1. IInv => TestsOnMapped BY DEF IInv, ChildHolds, TestsOnMapped
<1> QED BY <1>1, Invariance, PTL

\* A PASS of main() leaves no mapping, node or open device behind.
THEOREM PassSound == LifeSpec => []PassReleases
<1>1. IInv => PassReleases BY DEF IInv, MainHolds
<1> QED BY <1>1, Invariance, PTL

\* Nodes are freed once and threads stay on mapped ranges.
THEOREM OwnershipSound == LifeSpec => []ResourcesSound
<1>1. NoDoubleFree /\ TestsOnMapped => ResourcesSound BY DEF ResourcesSound
<1> QED BY <1>1, FreedOnce, TestsSound, PTL

-----------------------------------------------------------------------------
(* Where the test functions write *)

\* m differs from the memory in words of S only.
Within(m, S) == DOMAIN m = Addresses /\ \A a \in Addresses \ S : m[a] = mem[a]

\* A store changes the cell of its word, and a coupled one.
LEMMA StoreWithin ==
  ASSUME NEW S, NEW m, Within(m, S), NEW a, CellOf(fault, a) \in S,
         fault.kind = "coupling" => fault.at \in S, NEW w
  PROVE  Within(Store(m, fault, a, w), S)
<1> DEFINE c == CellOf(fault, a)
           stored == [m EXCEPT ![c] = Kept(m, fault, c, w)]
           v == IF fault.v = 2 THEN 1 - stored[fault.at][fault.b] ELSE fault.v
           hit == [stored EXCEPT ![fault.at] = [stored[fault.at] EXCEPT ![fault.b] = v]]
<1>1. Store(m, fault, a, w) = IF Disturbs(m, fault, c, w) THEN hit ELSE stored
  BY Zenon DEF Store
<1>2. Disturbs(m, fault, c, w) => fault.at \in S
  BY DEF Disturbs
<1> HIDE DEF c
<1>3. Within(stored, S)
  BY DEF Within, c
<1> HIDE DEF stored
<1>4. fault.at \in S => Within(hit, S)
  BY <1>3 DEF Within
<1> HIDE DEF hit
<1> QED BY <1>1, <1>2, <1>3, <1>4

\* The cells of the slice are its own.
SliceFaults ==
  /\ \A a \in Slice : CellOf(fault, a) \in Slice
  /\ fault.kind = "coupling" => fault.at \in Slice

\* So the cells a fault concerns are in the slice.
LEMMA FaultInSlice == FaultIn(fault, Slice) => SliceFaults
BY DEF FaultIn, SliceFaults, CellOf

\* A store to a word of the slice.
LEMMA StoreInSlice ==
  ASSUME SliceFaults, NEW m, Within(m, Slice), NEW a \in Slice, NEW w
  PROVE  Within(Store(m, fault, a, w), Slice)
BY StoreWithin DEF SliceFaults

\* Nothing is stored.
LEMMA StoreNothing ==
  ASSUME DOMAIN mem = Addresses, NEW S
  PROVE  Within(mem, S)
BY DEF Within

-----------------------------------------------------------------------------
(* Sweeps *)

\* Which function an item calls.
LEMMA CallNames ==
  ASSUME item \in PatternItems, NEW n \in Nat
  PROVE  /\ item = MEM_MODULO => Call(n).fn = "modtst" /\ Call(n).off \in Nat
         /\ item # MEM_MODULO =>
              Call(n).fn \in {"addr_walk_own", "movinv1", "movinv32", "movinvr", "march_c", "bit_fade"}
<1> USE DEF MEM_ADD_OWN_ADDRESS, MEM_MOVE_INVER_ONES_ZERO, MEM_MOVE_INVER_8BIT, MEM_MOVE_INVER_RANDOM,
      MEM_MOVE_INVER_32BIT, MEM_RANDOM_NUM_SEQUENCE, MEM_MODULO, MEM_MARCH_C_TEST, MEM_BIT_FADE_TEST
<1>1. CASE item = MEM_MODULO
  <2>1. Call(n) = ModuloCall(n)
    BY <1>1 DEF Call
  <2> DEFINE drawn == rand_function((n - 1) \div (2 * MOD_SZ))
             pattern == IF ((((n - 1) % (2 * MOD_SZ)) + 1) \div 2) % 2 = 0 THEN drawn ELSE Not(drawn)
             off == ((n - 1) \div 2) % MOD_SZ
  <2>2. ModuloCall(n) = [SimpleCall("modtst", pattern, 2) EXCEPT !.off = off]
    BY Zenon DEF ModuloCall
  <2>3. off \in Nat
    BY PatternAssumption
  <2> HIDE DEF pattern, off
  <2>4. ModuloCall(n).fn = "modtst" /\ ModuloCall(n).off = off
    BY <2>2 DEF SimpleCall
  <2> QED BY <1>1, <2>1, <2>3, <2>4
<1>2. CASE item # MEM_MODULO
  <2>1. \A f, w, i : SimpleCall(f, w, i).fn = f
    BY DEF SimpleCall
  <2>2. \A j, b : WalkingCall(j, b).fn = "movinv32"
    BY DEF WalkingCall
  <2>3. \/ Call(n) = SimpleCall("addr_walk_own", Filled(0), 1)
        \/ \E w, i : Call(n) = SimpleCall("movinv1", w, i)
        \/ \E j, b : Call(n) = WalkingCall(j, b)
        \/ \E w, i : Call(n) = SimpleCall("movinvr", w, i)
        \/ \E w, i : Call(n) = SimpleCall("march_c", w, i)
        \/ \E w, i : Call(n) = SimpleCall("bit_fade", w, i)
    BY <1>2 DEF Call, PatternItems
  <2> QED BY <1>2, <2>1, <2>2, <2>3
<1> QED BY <1>1, <1>2

\* Only modtst() sweeps in strides, forward, from an offset.
LEMMA SweepFacts ==
  ASSUME item \in PatternItems, NEW n \in Nat, NEW s \in Nat, Call(n).fn = "movinvr" => s \in 1 .. 3
  PROVE  Sweep(Call(n), s).which = "nth" => ~Sweep(Call(n), s).down /\ Call(n).off \in Nat
<1> DEFINE c == Call(n)
<1>1. c.fn = "modtst" => c.off \in Nat
  BY CallNames
<1>2. \A x, y : /\ Up(x, y).which = "all" /\ Down(x, y).which = "all" /\ Rest(x, y).which = "rest"
                /\ Nth(x, y).which = "nth" /\ ~Nth(x, y).down
  <2>1. \A x, y, v : /\ Up(x, y).which = "all"
                     /\ [Up(x, y) EXCEPT !.which = v].which = v /\ ~[Up(x, y) EXCEPT !.which = v].down
    BY DEF Up
  <2>2. \A v : \A x, y : [Up(x, y) EXCEPT !.down = v].which = "all"
    BY DEF Up
  <2>3. \A x, y : Down(x, y).which = "all"
    BY <2>2, Zenon DEF Down
  <2> QED BY <2>1, <2>3 DEF Rest, Nth
<1>3. c.fn # "modtst" => Sweep(c, s).which = "all"
  <2>1. c.fn \in {"modtst", "addr_walk_own", "movinv1", "movinv32", "movinvr", "march_c", "bit_fade"}
    BY CallNames
  <2> HIDE DEF c
  <2>2. CASE c.fn \in {"movinv1", "movinv32"}
    <3>1. Sweep(c, s) = movinv1(s)
      BY <2>2 DEF Sweep
    <3> QED BY <1>2, <3>1 DEF movinv1, Fill
  <2>3. CASE c.fn = "movinvr"
    <3>1. Sweep(c, s) = movinvr(s)
      BY <2>3 DEF Sweep
    <3>2. s = 1 \/ s = 2 \/ s = 3
      BY <2>3 DEF c
    <3> QED BY <1>2, <3>1, <3>2 DEF movinvr, Fill
  <2>4. CASE c.fn = "march_c"
    BY <1>2, <2>4 DEF Sweep, march_c, Fill
  <2>5. CASE c.fn \in {"bit_fade", "addr_walk_own"}
    BY <1>2, <2>5 DEF Sweep, Fill
  <2> QED BY <2>1, <2>2, <2>3, <2>4, <2>5
<1>4. c.fn = "modtst" => ~Sweep(c, s).which = "nth" \/ ~Sweep(c, s).down
  <2> HIDE DEF c
  <2>1. ASSUME c.fn = "modtst" PROVE Sweep(c, s) = modtst(s, Sweeps(c))
    BY <2>1 DEF Sweep
  <2> QED BY <1>2, <2>1 DEF modtst
<1> QED BY <1>1, <1>3, <1>4
-----------------------------------------------------------------------------
(* Where the test functions are *)

\* The arguments never change.
SliceRight ==
  /\ item \in Items \cup CacheItems /\ start_p \in Nat /\ cnt \in Nat \ {0}
  /\ start_p % PageWords = 0
  /\ item \in PatternItems => cnt % PageWords = 0
  /\ item = MEM_BLOCK_MOVE =>
       cnt % (2 * BlockWords) = 0 /\ cnt <= MoveChunk * (MoveChunk \div (2 * BlockWords))
  /\ Slice \subseteq Addresses /\ SliceFaults
  /\ DOMAIN mem = Addresses

PatternPosition ==
  item \in PatternItems =>
    /\ call \in Nat /\ sweep \in Nat /\ (Call(call).fn = "movinvr" => sweep \in 1 .. 3)
    /\ pe \in start_p .. end /\ p \in Int
    /\ IF Sweep(Call(call), sweep).down THEN p < end ELSE p >= start_p

WalkPosition ==
  item = MEM_ADD_WALK_ONES =>
    /\ sweep \in Nat
    /\ pc = "walk" => p \in Nat /\ p >= start_p /\ mask \in Nat \ {0}

RandomPosition ==
  item = MEM_RANDOM_ADDRESS =>
    /\ pc = "fillup" => p \in start_p .. end
    /\ pc = "flip" => sweep \in 1 .. (RandBanks + 1) /\ p = start_p + (sweep - 1) * RandBankWords

\* A chunk that is moved is whole pairs of blocks.
MovePosition ==
  item = MEM_BLOCK_MOVE =>
    /\ pc = "blocks" => p \in start_p .. end
    /\ pc = "move" =>
         /\ sweep \in {1, 2} /\ k \in Nat
         /\ p \in start_p .. end /\ pe \in start_p .. end /\ p < pe
         /\ (p - start_p) % (2 * BlockWords) = 0 /\ (pe - start_p) % (2 * BlockWords) = 0

\* A bank that is looked at is a bank of the slice.
CarryPosition ==
  item \in {CPU_CACHE_WALKING, CPU_CACHE_STUCK} =>
    /\ pc = "memset" => p \in start_p .. end
    /\ pc = "carry" => sweep \in Nat \ {0} /\ k \in Nat /\ (sweep <= CacheBanks => k < cnt_cur)

RdwrPosition ==
  item = CPU_CACHE_RDWR => (pc \in {"rdwr_fill", "rdwr"} => p \in start_p .. end)

RandDataPosition ==
  item = CPU_CACHE_RANDOM_DATA => (pc = "rand_fill" => k \in Nat)

Positions ==
  /\ PatternPosition /\ WalkPosition /\ RandomPosition /\ MovePosition
  /\ CarryPosition /\ RdwrPosition /\ RandDataPosition

MemIInv == SliceRight /\ Positions
-----------------------------------------------------------------------------
(* The sweeps of patterns *)

\* The calls of an item are always the same.
LEMMA CallSame ==
  ASSUME item' = item, NEW n
  PROVE  Call(n)' = Call(n)
BY Zenon DEF Call, ModuloCall, WalkingCall, Iter

\* A sweep begins in the slice.
LEMMA SweepStarts ==
  ASSUME SliceRight, item \in PatternItems, UNCHANGED arguments,
         NEW n \in Nat, NEW s \in Nat, Call(n).fn = "movinvr" => s \in 1 .. 3, StartSweep(n, s)
  PROVE  PatternPosition'
<1> DEFINE c == Call(n)
           w == Sweep(Call(n), s)
<1>1. item' = item /\ start_p' = start_p /\ cnt' = cnt /\ start_p \in Nat /\ cnt \in Nat \ {0}
  BY DEF arguments, SliceRight
<1>2. call' = n /\ sweep' = s /\ Call(call)' = c
  BY <1>1, CallSame DEF StartSweep
<1>3. w.which = "nth" => ~w.down /\ c.off \in Nat
  BY SweepFacts
<1>4. p' = (CASE w.down -> end - 1 [] w.which = "nth" -> start_p + c.off [] OTHER -> start_p)
  BY DEF StartSweep
<1>5. pe' = IF w.down THEN end - 1 ELSE start_p
  BY DEF StartSweep
<1> HIDE DEF c, w
<1>6. /\ pe' \in start_p .. end /\ p' \in Int
      /\ IF w.down THEN p' < end ELSE p' >= start_p
  BY <1>1, <1>3, <1>4, <1>5 DEF end
<1>7. end' = end
  BY <1>1 DEF end
<1>8. Sweep(Call(call), sweep)' = w
  BY <1>2 DEF w, c
<1>9. (Call(call).fn = "movinvr" => sweep \in 1 .. 3)'
  BY <1>2 DEF c
<1> QED BY <1>1, <1>2, <1>6, <1>7, <1>8, <1>9 DEF PatternPosition

\* Nothing of what PatternPosition speaks of changes.
LEMMA PatternStays ==
  ASSUME PatternPosition, UNCHANGED arguments, UNCHANGED <<call, sweep, p, pe>>
  PROVE  PatternPosition'
<1>1. item' = item /\ start_p' = start_p /\ cnt' = cnt
  BY DEF arguments
<1>2. Call(call)' = Call(call) /\ end' = end
  BY <1>1, CallSame DEF end
<1> QED BY <1>1, <1>2 DEF PatternPosition

\* The end of a sweep: the next one, the next call, or the end of the test.
LEMMA EndSweepRight ==
  ASSUME SliceRight, PatternPosition, item \in PatternItems, UNCHANGED arguments, EndSweep
  PROVE  PatternPosition'
<1>1. call \in Nat /\ sweep \in Nat /\ (Call(call).fn = "movinvr" => sweep \in 1 .. 3)
  BY DEF PatternPosition
<1>2. CASE sweep < Sweeps(Call(call)) /\ StartSweep(call, sweep + 1)
  <2>1. Call(call).fn = "movinvr" => sweep + 1 \in 1 .. 3
    <3>1. Call(call).fn = "movinvr" => Sweeps(Call(call)) = 3
      BY DEF Sweeps
    <3> QED BY <1>1, <1>2, <3>1
  <2> QED BY <1>1, <1>2, <2>1, SweepStarts
<1>3. CASE StartSweep(call + 1, 1)
  BY <1>1, <1>3, SweepStarts
<1>4. CASE Return(ret)
  BY <1>4, PatternStays DEF Return
<1> QED BY <1>2, <1>3, <1>4 DEF EndSweep

\* The beginning of a chunk.
LEMMA NextChunkRight ==
  ASSUME SliceRight, PatternPosition, NextChunk
  PROVE  PatternPosition' /\ Within(mem', Slice)
<1> DEFINE c == Call(call)
           s == Sweep(c, sweep)
           span == IF Chunked(c) THEN SPINSZ ELSE cnt
           next == IF s.down THEN (IF pe - span <= start_p THEN start_p ELSE pe - span)
                             ELSE (IF pe + span >= end THEN end ELSE pe + span)
<1>1. item \in PatternItems /\ UNCHANGED arguments /\ mem' = mem
  BY DEF NextChunk
<1>2. Within(mem', Slice)
  BY <1>1, StoreNothing DEF SliceRight
<1>3. CASE EndSweep
  BY <1>1, <1>2, <1>3, EndSweepRight
<1>4. CASE pe' = next /\ UNCHANGED <<call, sweep, p>>
  <2>1. item' = item /\ start_p' = start_p /\ cnt' = cnt
    BY <1>1 DEF arguments
  <2>2. Call(call)' = c /\ end' = end
    BY <1>4, <2>1, CallSame DEF end
  <2>3. Sweep(Call(call), sweep)' = s
    BY <1>4, <2>2
  <2>4. pe \in start_p .. end /\ start_p \in Nat /\ cnt \in Nat \ {0}
    BY <1>1 DEF PatternPosition, SliceRight
  <2>5. span \in Nat \ {0}
    BY <2>4, PatternAssumption
  <2> HIDE DEF s, c, span
  <2>6. next \in start_p .. end
    BY <2>4, <2>5 DEF end
  <2>7. pe' \in start_p .. end
    BY <1>4, <2>6
  <2> HIDE DEF next
  <2> QED BY <1>1, <1>2, <1>4, <2>1, <2>2, <2>3, <2>7 DEF PatternPosition, c, s
<1> QED
  <2>1. EndSweep \/ (pe' = next /\ UNCHANGED <<call, sweep, p>>)
    BY DEF NextChunk
  <2> HIDE DEF next
  <2> QED BY <1>3, <1>4, <2>1

\* A word of a chunk.
LEMMA VisitWordRight ==
  ASSUME SliceRight, PatternPosition, VisitWord
  PROVE  PatternPosition' /\ Within(mem', Slice)
<1> DEFINE c == Call(call)
           s == Sweep(c, sweep)
<1>1. item \in PatternItems /\ UNCHANGED arguments /\ InChunk(s)
  BY DEF VisitWord
<1>2. item' = item /\ start_p' = start_p /\ cnt' = cnt /\ start_p \in Nat /\ cnt \in Nat \ {0}
  BY <1>1 DEF arguments, SliceRight
<1>3. pe \in start_p .. end /\ p \in Int /\ IF s.down THEN p < end ELSE p >= start_p
  BY <1>1 DEF PatternPosition
<1>4. Within(mem, Slice)
  BY StoreNothing DEF SliceRight
<1>5. \/ mem' = mem /\ UNCHANGED <<call, sweep, p, pe>>
      \/ /\ UNCHANGED <<call, sweep, pe>>
         /\ mem' = mem \/ \E w : mem' = Store(mem, fault, p, w)
         /\ p' = IF s.down THEN p - 1 ELSE IF s.which = "nth" THEN p + MOD_SZ ELSE p + 1
  BY Zenon DEF VisitWord, Return
<1>6. CASE mem' = mem /\ UNCHANGED <<call, sweep, p, pe>>
  BY <1>1, <1>4, <1>6, PatternStays
<1>7. CASE /\ UNCHANGED <<call, sweep, pe>>
           /\ mem' = mem \/ \E w : mem' = Store(mem, fault, p, w)
           /\ p' = IF s.down THEN p - 1 ELSE IF s.which = "nth" THEN p + MOD_SZ ELSE p + 1
  <2>1. Call(call)' = c /\ end' = end
    BY <1>2, <1>7, CallSame DEF end
  <2>2. Sweep(Call(call), sweep)' = s
    BY <1>7, <2>1
  <2> HIDE DEF s, c
  <2>3. p \in Slice
    BY <1>1, <1>2, <1>3 DEF InChunk, Slice, end
  <2>4. Within(mem', Slice)
    BY <1>4, <1>7, <2>3, StoreInSlice DEF SliceRight
  <2>5. p' \in Int /\ IF s.down THEN p' < end ELSE p' >= start_p
    BY <1>2, <1>3, <1>7, PatternAssumption DEF end
  <2> QED BY <1>1, <1>2, <1>3, <1>7, <2>1, <2>2, <2>4, <2>5 DEF PatternPosition, c
<1> QED BY <1>5, <1>6, <1>7

\* The end of a chunk.
LEMMA EndChunkRight ==
  ASSUME SliceRight, PatternPosition, EndChunk
  PROVE  PatternPosition' /\ Within(mem', Slice)
<1>1. UNCHANGED arguments /\ mem' = mem /\ UNCHANGED <<call, sweep, p, pe>>
  BY DEF EndChunk, Return
<1> QED BY <1>1, PatternStays, StoreNothing DEF SliceRight
-----------------------------------------------------------------------------
(* The walking ones *)

\* Up to the next multiple, or not at all.
LEMMA RoundUpFacts ==
  ASSUME NEW a \in Nat, NEW n \in Nat \ {0}
  PROVE  RoundUp(a, n) \in Nat /\ RoundUp(a, n) >= a /\ (a % n = 0 => RoundUp(a, n) = a)
<1> DEFINE q == (a + n - 1) \div n
           r == (a + n - 1) % n
<1>1. q \in Nat /\ r \in 0 .. (n - 1) /\ a + n - 1 = n * q + r
  OBVIOUS
<1>2. RoundUp(a, n) = n * q
  BY DEF RoundUp
<1> DEFINE d == a \div n
<1>3. d \in Nat /\ (a % n = 0 => a = n * d)
  OBVIOUS
<1> HIDE DEF q, r, d
<1>4. n * q \in Nat /\ n * q >= a
  BY <1>1
<1>5. ASSUME a % n = 0 PROVE n * q = a
  <2>1. n * q = n * d + n - 1 - r /\ n * d \in Nat
    BY <1>1, <1>3, <1>5
  <2>2. q <= d
    <3>1. SUFFICES ASSUME q >= d + 1 PROVE FALSE
      BY <1>1, <1>3
    <3>2. n * q >= n * (d + 1)
      BY <1>1, <1>3, <3>1
    <3>3. n * (d + 1) = n * d + n
      BY <1>3
    <3> QED BY <1>1, <2>1, <3>2, <3>3
  <2>3. q >= d
    <3>1. SUFFICES ASSUME q + 1 <= d PROVE FALSE
      BY <1>1, <1>3
    <3>2. n * (q + 1) <= n * d
      BY <1>1, <1>3, <3>1
    <3>3. n * (q + 1) = n * q + n
      BY <1>1
    <3> QED BY <1>1, <2>1, <3>2, <3>3
  <2> QED BY <1>1, <1>3, <1>5, <2>2, <2>3
<1> QED BY <1>2, <1>4, <1>5

\* The word that is watched is a word of the slice.
LEMMA WatchRight ==
  ASSUME SliceRight, UNCHANGED arguments, NEW a \in Slice, NEW w, WatchWord(a, w), sweep' \in Nat
  PROVE  WalkPosition' /\ Within(mem', Slice)
<1>1. start_p' = start_p /\ p' = a /\ mask' = 1 /\ mem' = Store(mem, fault, a, w)
  BY DEF arguments, WatchWord
<1>2. Within(mem', Slice)
  BY <1>1, StoreInSlice, StoreNothing DEF SliceRight
<1> QED BY <1>1, <1>2 DEF WalkPosition, Slice, SliceRight, end

\* A pass begins in the slice, if it begins.
LEMMA WalkPassRight ==
  ASSUME SliceRight, UNCHANGED arguments, NEW s \in Nat, NEW w, WalkPass(s, w)
  PROVE  WalkPosition' /\ Within(mem', Slice)
<1> DEFINE unit == IF s <= 2 THEN PageWords ELSE BankWords
           first == RoundUp(start_p, unit)
<1>1. start_p \in Nat /\ cnt \in Nat \ {0} /\ start_p % PageWords = 0 /\ sweep' = s
  BY DEF SliceRight, WalkPass
<1>2. unit \in Nat \ {0}
  BY AddressAssumption
<1>3. first \in Nat /\ first >= start_p /\ (s <= 2 => first = start_p)
  BY <1>1, <1>2, RoundUpFacts
<1>4. CASE WatchWord(first, w) /\ (s <= 2 \/ first < end)
  <2> HIDE DEF first
  <2>1. first \in Slice
    BY <1>1, <1>3, <1>4 DEF Slice, end
  <2> QED BY <1>1, <1>4, <2>1, WatchRight
<1>5. CASE pc' = "bank" /\ mem' = mem
  BY <1>1, <1>5, StoreNothing DEF WalkPosition, SliceRight
<1> QED
  <2>1. (WatchWord(first, w) /\ (s <= 2 \/ first < end)) \/ (pc' = "bank" /\ mem' = mem)
    BY DEF WalkPass
  <2> HIDE DEF first
  <2> QED BY <1>4, <1>5, <2>1

\* The walking ones write words of the slice.
LEMMA WalkRight ==
  ASSUME SliceRight, WalkPosition, SkipLine \/ WalkLine \/ EndWalk \/ EndBanks
  PROVE  WalkPosition' /\ Within(mem', Slice)
<1>1. item = MEM_ADD_WALK_ONES /\ UNCHANGED arguments
  BY DEF SkipLine, WalkLine, EndWalk, EndBanks, Continue
<1>2. /\ item' = item /\ start_p' = start_p /\ cnt' = cnt /\ start_p \in Nat /\ cnt \in Nat \ {0}
      /\ sweep \in Nat /\ (pc = "walk" => p \in Nat /\ p >= start_p /\ mask \in Nat \ {0})
  BY <1>1 DEF arguments, SliceRight, WalkPosition
<1>3. Within(mem, Slice) /\ SliceFaults
  BY StoreNothing DEF SliceRight
<1>4. CASE SkipLine
  BY <1>2, <1>3, <1>4 DEF SkipLine, WalkPosition
<1>5. CASE WalkLine
  <2>1. /\ pc = "walk" /\ p + mask < end /\ UNCHANGED <<pc, sweep, p>>
        /\ mem' = Store(mem, fault, p + mask, pat) /\ mask' = 2 * mask
    BY <1>5 DEF WalkLine
  <2>2. p + mask \in Slice
    BY <1>2, <2>1 DEF Slice, end
  <2>3. Within(mem', Slice)
    BY <1>3, <2>1, <2>2, StoreInSlice
  <2> QED BY <1>2, <2>1, <2>3 DEF WalkPosition
<1>6. CASE EndWalk
  <2> DEFINE next == p + UL_BYTES * BankWords
  <2>1. pc = "walk" /\ next \in Nat /\ next >= start_p
    <3>1. UL_BYTES * BankWords \in Nat
      BY AddressAssumption
    <3> QED BY <1>2, <1>6, <3>1 DEF EndWalk
  <2>2. \/ mask' = 1 /\ UNCHANGED <<mem, pc, sweep, p>>
        \/ Return(ret) /\ mem' = mem
        \/ \E s \in {2, 3} : \E w : WalkPass(s, w)
        \/ next < end /\ WatchWord(next, Not(pat)) /\ sweep' = sweep
        \/ pc' = "bank" /\ UNCHANGED <<mem, sweep>>
    BY <1>6, Zenon DEF EndWalk
  <2> HIDE DEF next
  <2>3. CASE mask' = 1 /\ UNCHANGED <<mem, pc, sweep, p>>
    BY <1>2, <1>3, <2>1, <2>3 DEF WalkPosition
  <2>4. CASE Return(ret) /\ mem' = mem
    BY <1>2, <1>3, <2>4 DEF Return, WalkPosition
  <2>5. CASE \E s \in {2, 3} : \E w : WalkPass(s, w)
    BY <1>1, <2>5, WalkPassRight
  <2>6. CASE next < end /\ WatchWord(next, Not(pat)) /\ sweep' = sweep
    <3>1. next \in Slice
      BY <1>2, <2>1, <2>6 DEF Slice, end
    <3> QED BY <1>1, <1>2, <2>6, <3>1, WatchRight
  <2>7. CASE pc' = "bank" /\ UNCHANGED <<mem, sweep>>
    BY <1>2, <1>3, <2>7 DEF WalkPosition
  <2> QED BY <2>2, <2>3, <2>4, <2>5, <2>6, <2>7
<1>7. CASE EndBanks
  <2>1. (Return(ret) /\ mem' = mem) \/ WalkPass(sweep + 1, Not(pat))
    BY <1>7 DEF EndBanks
  <2>2. CASE Return(ret) /\ mem' = mem
    BY <1>2, <1>3, <2>2 DEF Return, WalkPosition
  <2>3. CASE WalkPass(sweep + 1, Not(pat))
    BY <1>1, <1>2, <2>3, WalkPassRight
  <2> QED BY <2>1, <2>2, <2>3
<1> QED BY <1>4, <1>5, <1>6, <1>7
-----------------------------------------------------------------------------
(* The random addresses *)

\* The words behind a bank are words of the slice, but for the last one's.
LEMMA BankWordsFacts ==
  ASSUME SliceRight, sweep \in 1 .. (RandBanks + 1), p = start_p + (sweep - 1) * RandBankWords
  PROVE  /\ RandBanks \in Nat /\ BankSize \in Nat /\ p \in Nat
         /\ p >= start_p /\ p + BankSize <= end
<1> DEFINE B == RandBankWords
           q == cnt \div B
           r == cnt % B
<1>1. start_p \in Nat /\ cnt \in Nat \ {0} /\ B \in Nat \ {0}
  BY AddressAssumption DEF SliceRight
<1>2. q \in Nat /\ r \in Nat /\ cnt = B * q + r
  BY <1>1
<1>3. RandBanks = q
  BY DEF RandBanks
<1> HIDE DEF B, q, r
<1>4. q * B \in Nat /\ q * B <= cnt /\ q * B = B * q
  BY <1>1, <1>2
<1>5. sweep \in Nat /\ sweep - 1 \in Nat /\ sweep - 1 <= q
  BY <1>2, <1>3
<1>6. (sweep - 1) * B \in Nat /\ (sweep - 1) * B <= q * B
  BY <1>1, <1>2, <1>5
<1>7. CASE sweep <= q
  <2>1. sweep * B <= q * B /\ sweep * B \in Nat
    BY <1>1, <1>2, <1>5, <1>7
  <2>2. (sweep - 1) * B + B = sweep * B
    BY <1>1, <1>5
  <2>3. BankSize = B
    BY <1>3, <1>7 DEF BankSize, B
  <2> QED BY <1>1, <1>2, <1>3, <1>4, <1>6, <2>1, <2>2, <2>3 DEF end, B
<1>8. CASE ~(sweep <= q)
  <2>1. sweep - 1 = q
    BY <1>2, <1>5, <1>8
  <2>2. BankSize = cnt - q * B
    BY <1>3, <1>8 DEF BankSize, Remain, B
  <2>3. p = start_p + q * B
    BY <2>1 DEF B
  <2> QED BY <1>1, <1>2, <1>3, <1>4, <2>2, <2>3 DEF end
<1> QED BY <1>7, <1>8

\* Where a test may write.
Written == Slice \cup (IF item = MEM_RANDOM_ADDRESS THEN {CellOf(fault, end)} ELSE {})

\* Who writes within the slice writes what may be written.
LEMMA WithinWritten ==
  ASSUME Within(mem', Slice)
  PROVE  Within(mem', Written)
BY DEF Within, Written

\* The random address test may go one word further.
LEMMA RandomRight ==
  ASSUME SliceRight, RandomPosition, randaddr_fillup \/ randaddr_test \/ EndRandBank \/ randaddr_verify
  PROVE  RandomPosition' /\ Within(mem', Written)
<1>1. item = MEM_RANDOM_ADDRESS /\ UNCHANGED arguments
  BY DEF randaddr_fillup, randaddr_test, EndRandBank, randaddr_verify
<1>2. /\ item' = item /\ start_p' = start_p /\ cnt' = cnt /\ start_p \in Nat /\ cnt \in Nat \ {0}
      /\ RandBanks' = RandBanks /\ end' = end
  BY <1>1 DEF arguments, SliceRight, RandBanks, end
<1>3. Within(mem, Slice) /\ Within(mem, Written) /\ SliceFaults
  BY StoreNothing DEF SliceRight
<1>4. RandBanks \in Nat
  BY <1>2, AddressAssumption DEF RandBanks
<1>5. CASE randaddr_fillup
  <2>1. pc = "fillup" /\ p \in start_p .. end
    BY <1>1, <1>5 DEF randaddr_fillup, RandomPosition
  <2>2. CASE p < end /\ mem' = Store(mem, fault, p, mix_random[p]) /\ p' = p + 1 /\ pc' = pc
    <3>1. p \in Slice
      BY <1>2, <2>1, <2>2 DEF Slice, end
    <3>2. Within(mem', Slice)
      BY <1>3, <2>2, <3>1, StoreInSlice
    <3>3. p' \in start_p' .. end'
      BY <1>2, <2>1, <2>2 DEF end
    <3> QED BY <2>1, <2>2, <3>2, <3>3, WithinWritten DEF RandomPosition
  <2>3. CASE pc' = "flip" /\ p' = start_p /\ sweep' = 1 /\ mem' = mem
    <3>1. start_p = start_p + (1 - 1) * RandBankWords
      BY <1>2, AddressAssumption
    <3>2. 1 \in 1 .. (RandBanks + 1)
      BY <1>4
    <3> QED BY <1>2, <1>3, <2>3, <3>1, <3>2 DEF RandomPosition
  <2> QED BY <1>5, <2>2, <2>3 DEF randaddr_fillup
<1>6. CASE randaddr_test
  <2>1. pc = "flip" /\ UNCHANGED <<pc, sweep, p>>
    BY <1>6 DEF randaddr_test
  <2>2. sweep \in 1 .. (RandBanks + 1) /\ p = start_p + (sweep - 1) * RandBankWords
    BY <1>1, <2>1 DEF RandomPosition
  <2>3. PICK rand_val \in 0 .. BankSize :
          mem' = Store(mem, fault, p + rand_val, Not(Load(mem, fault, p + rand_val)))
    BY <1>6 DEF randaddr_test
  <2>4. p + rand_val \in start_p .. end
    BY <1>2, <2>2, BankWordsFacts DEF end
  <2>5. CellOf(fault, p + rand_val) \in Written /\ (fault.kind = "coupling" => fault.at \in Written)
    <3>1. p + rand_val \in Slice \/ p + rand_val = end
      BY <1>2, <2>4 DEF Slice, end
    <3> QED BY <1>1, <1>3, <3>1 DEF SliceFaults, Written
  <2>6. Within(mem', Written)
    BY <1>3, <2>3, <2>5, StoreWithin
  <2> QED BY <1>2, <2>1, <2>2, <2>6 DEF RandomPosition
<1>7. CASE EndRandBank
  <2>1. pc = "flip" /\ mem' = mem
    BY <1>7 DEF EndRandBank
  <2>2. sweep \in 1 .. (RandBanks + 1) /\ p = start_p + (sweep - 1) * RandBankWords
    BY <1>1, <2>1 DEF RandomPosition
  <2>3. CASE sweep <= RandBanks /\ sweep' = sweep + 1 /\ p' = p + RandBankWords
    <3>1. sweep' \in 1 .. (RandBanks + 1)
      BY <1>4, <2>2, <2>3
    <3>2. p' = start_p + (sweep' - 1) * RandBankWords
      BY <1>2, <1>4, <2>2, <2>3, AddressAssumption
    <3>3. sweep' \in 1 .. (RandBanks' + 1) /\ p' = start_p' + (sweep' - 1) * RandBankWords
      BY <1>2, <3>1, <3>2
    <3>4. pc' = "flip"
      BY <1>7, <2>1, <2>3 DEF EndRandBank
    <3> QED BY <1>3, <2>1, <3>3, <3>4 DEF RandomPosition
  <2>4. CASE pc' = "verify"
    BY <1>3, <2>1, <2>4 DEF RandomPosition
  <2> QED BY <1>7, <2>3, <2>4 DEF EndRandBank
<1>8. CASE randaddr_verify
  <2>1. pc' \in {"verify", "returned"} /\ mem' = mem
    BY <1>8 DEF randaddr_verify, Return
  <2> QED BY <1>3, <2>1 DEF RandomPosition
<1> QED BY <1>5, <1>6, <1>7, <1>8
-----------------------------------------------------------------------------
(* The block move *)

\* A chunk ends in the slice, on a pair of blocks.
LEMMA ChunkEndFacts ==
  ASSUME SliceRight, item = MEM_BLOCK_MOVE, NEW a \in start_p .. end, a < end,
         (a - start_p) % (2 * BlockWords) = 0
  PROVE  /\ ChunkEnd(a) \in start_p .. end /\ a < ChunkEnd(a)
         /\ (ChunkEnd(a) - start_p) % (2 * BlockWords) = 0
<1>1. /\ start_p \in Nat /\ cnt \in Nat \ {0} /\ cnt % 16 = 0
      /\ MoveChunk \in Nat \ {0} /\ MoveChunk % 16 = 0 /\ (a - start_p) % 16 = 0
  BY AddressAssumption, ChunkAssumption DEF SliceRight, BlockWords
<1>2. CASE a + MoveChunk >= end
  <2>1. ChunkEnd(a) = end
    BY <1>2 DEF ChunkEnd
  <2>2. end \in Nat /\ end - start_p = cnt
    BY <1>1 DEF end
  <2> QED BY <1>1, <2>1, <2>2 DEF BlockWords
<1>3. CASE ~(a + MoveChunk >= end)
  <2>1. ChunkEnd(a) = a + MoveChunk
    BY <1>3 DEF ChunkEnd
  <2>2. (a + MoveChunk - start_p) % 16 = 0
    BY <1>1
  <2> QED BY <1>1, <1>3, <2>1, <2>2 DEF BlockWords, end
<1> QED BY <1>2, <1>3

\* What is moved goes to the chunk it comes from.
LEMMA DestFacts ==
  ASSUME SliceRight, MovePosition, item = MEM_BLOCK_MOVE, pc = "move", k < Half
  PROVE  Dest \in Slice
<1>1. /\ start_p \in Nat /\ cnt \in Nat \ {0} /\ sweep \in {1, 2} /\ k \in Nat
      /\ p \in start_p .. end /\ pe \in start_p .. end /\ p < pe
      /\ (p - start_p) % 16 = 0 /\ (pe - start_p) % 16 = 0
  BY DEF SliceRight, MovePosition, BlockWords
<1>2. Half \in Nat /\ Half >= 8 /\ p + 2 * Half <= pe
  <2>1. (pe - p) % 16 = 0
    BY <1>1
  <2>2. pe - p \in Nat /\ pe - p >= 16
    BY <1>1, <2>1
  <2> QED BY <1>1, <2>2 DEF Half
<1>3. Dest \in p .. (pe - 1)
  <2>1. CASE sweep = 1
    BY <1>1, <1>2, <2>1 DEF Dest
  <2>2. CASE sweep = 2 /\ k < Half - HalfBlock
    <3>1. Dest = p + HalfBlock + k
      <4>1. ~(sweep = 1) /\ ~(sweep = 2 /\ k >= Half - HalfBlock)
        BY <1>1, <1>2, <2>2 DEF HalfBlock
      <4> QED BY <2>2, <4>1, Zenon DEF Dest
    <3> QED BY <1>1, <1>2, <2>2, <3>1 DEF HalfBlock
  <2>3. CASE sweep = 2 /\ k >= Half - HalfBlock
    <3>1. Dest = p + k - (Half - HalfBlock)
      <4>1. ~(sweep = 1) /\ ~(sweep = 2 /\ k < Half - HalfBlock)
        BY <1>1, <1>2, <2>3 DEF HalfBlock
      <4> QED BY <2>3, <4>1, Zenon DEF Dest
    <3> QED BY <1>1, <1>2, <2>3, <3>1 DEF HalfBlock
  <2> QED BY <1>1, <1>2, <2>1, <2>2, <2>3 DEF HalfBlock
<1> QED BY <1>1, <1>3 DEF Slice, end

\* The block move stays in its chunk.
LEMMA MoveRight ==
  ASSUME SliceRight, MovePosition, BlockMoveNext
  PROVE  MovePosition' /\ Within(mem', Slice)
<1>1. item = MEM_BLOCK_MOVE /\ UNCHANGED arguments
  BY DEF BlockMoveNext, FillBlockWord, StartMoving, MoveWord, EndMove, CheckBlock
<1>2. /\ item' = item /\ start_p' = start_p /\ cnt' = cnt /\ start_p \in Nat /\ cnt \in Nat \ {0}
      /\ end' = end /\ end \in Nat /\ start_p < end
  BY <1>1 DEF arguments, SliceRight, end
<1>3. Within(mem, Slice) /\ SliceFaults
  BY StoreNothing DEF SliceRight
<1>4. \A a \in start_p .. end : a < end /\ (a - start_p) % (2 * BlockWords) = 0 =>
        /\ ChunkEnd(a) \in start_p .. end /\ a < ChunkEnd(a)
        /\ (ChunkEnd(a) - start_p) % (2 * BlockWords) = 0
  BY <1>1, ChunkEndFacts
<1>5. CASE FillBlockWord
  <2>1. pc = "blocks" /\ pc' = pc /\ p < end /\ p' = p + 1 /\ \E w : mem' = Store(mem, fault, p, w)
    BY <1>5 DEF FillBlockWord
  <2>2. p \in start_p .. end
    BY <1>1, <2>1 DEF MovePosition
  <2>3. p \in Slice
    BY <1>2, <2>1, <2>2 DEF Slice, end
  <2>4. Within(mem', Slice)
    BY <1>3, <2>1, <2>3, StoreInSlice
  <2>5. p' \in start_p' .. end'
    BY <1>2, <2>1, <2>2
  <2> QED BY <2>1, <2>4, <2>5 DEF MovePosition
<1>6. CASE StartMoving
  <2>1. pc' = "move" /\ p' = start_p /\ pe' = ChunkEnd(start_p) /\ sweep' = 1 /\ k' = 0 /\ mem' = mem
    BY <1>6 DEF StartMoving
  <2>2. start_p \in start_p .. end /\ (start_p - start_p) % (2 * BlockWords) = 0
    BY <1>2 DEF BlockWords
  <2> QED BY <1>2, <1>3, <1>4, <2>1, <2>2 DEF MovePosition
<1>7. CASE MoveWord
  <2>1. /\ pc = "move" /\ k < Half /\ k' = k + 1 /\ UNCHANGED <<pc, sweep, p, pe>>
        /\ mem' = Store(mem, fault, Dest, Load(mem, fault, Source))
    BY <1>7 DEF MoveWord
  <2>2. Dest \in Slice
    BY <1>1, <2>1, DestFacts
  <2>3. Within(mem', Slice)
    BY <1>3, <2>1, <2>2, StoreInSlice
  <2> QED BY <1>1, <1>2, <2>1, <2>3 DEF MovePosition
<1>8. CASE EndMove
  <2>1. pc = "move" /\ k' = 0 /\ mem' = mem
    BY <1>8 DEF EndMove
  <2>2. \/ sweep' \in {1, 2} /\ UNCHANGED <<pc, p, pe>>
        \/ pe < end /\ sweep' = 1 /\ p' = pe /\ pe' = ChunkEnd(pe) /\ pc' = pc
        \/ pc' = "check"
    BY <1>8, Zenon DEF EndMove
  <2>3. /\ p \in start_p .. end /\ pe \in start_p .. end /\ p < pe
        /\ (p - start_p) % (2 * BlockWords) = 0 /\ (pe - start_p) % (2 * BlockWords) = 0
    BY <1>1, <2>1 DEF MovePosition
  <2>4. CASE sweep' \in {1, 2} /\ UNCHANGED <<pc, p, pe>>
    BY <1>2, <1>3, <2>1, <2>3, <2>4 DEF MovePosition
  <2>5. CASE pe < end /\ sweep' = 1 /\ p' = pe /\ pe' = ChunkEnd(pe) /\ pc' = pc
    <3>1. /\ ChunkEnd(pe) \in start_p .. end /\ pe < ChunkEnd(pe)
          /\ (ChunkEnd(pe) - start_p) % (2 * BlockWords) = 0
      BY <1>4, <2>3, <2>5
    <3> QED BY <1>2, <1>3, <2>1, <2>3, <2>5, <3>1 DEF MovePosition
  <2>6. CASE pc' = "check"
    BY <1>3, <2>1, <2>6 DEF MovePosition
  <2> QED BY <2>2, <2>4, <2>5, <2>6
<1>9. CASE CheckBlock
  <2>1. pc' \in {"check", "returned"} /\ mem' = mem
    BY <1>9 DEF CheckBlock, Return
  <2> QED BY <1>3, <2>1 DEF MovePosition
<1> QED BY <1>5, <1>6, <1>7, <1>8, <1>9 DEF BlockMoveNext
-----------------------------------------------------------------------------
(* The cache tests *)

\* A word of the bank the pattern is in is one of the slice.
LEMMA CurrentBank ==
  ASSUME SliceRight, sweep \in Nat \ {0}, sweep <= CacheBanks, NEW j \in Nat, j < cnt_cur
  PROVE  pbank + j \in Slice
<1> DEFINE C == CNT_PER_BANK
           q == cnt \div C
<1>1. start_p \in Nat /\ cnt \in Nat \ {0} /\ C \in Nat \ {0}
  BY CacheAssumption DEF SliceRight
<1>2. q \in Nat /\ C * q <= cnt /\ C * q \in Nat
  <2>1. cnt % C \in Nat /\ cnt = C * q + (cnt % C)
    BY <1>1
  <2>2. q \in Nat
    BY <1>1
  <2> QED BY <1>1, <2>1, <2>2
<1>3. CacheBanks = q /\ pbank = start_p + (sweep - 1) * C
  BY DEF CacheBanks, pbank
<1>4. cnt_cur = IF Walking /\ ~(sweep = q) THEN 2 * C ELSE C
  BY <1>3 DEF cnt_cur, LastBank, C
<1> HIDE DEF C, q
<1>5. sweep - 1 \in Nat /\ sweep <= q /\ (sweep - 1) * C \in Nat
  BY <1>1, <1>2, <1>3
<1>6. (sweep - 1) * C + cnt_cur <= C * q /\ cnt_cur \in Nat
  <2>1. CASE Walking /\ ~(sweep = q)
    <3>1. sweep + 1 <= q
      BY <1>2, <1>5, <2>1
    <3>2. (sweep + 1) * C <= q * C /\ q * C = C * q
      BY <1>1, <1>2, <3>1
    <3>3. (sweep - 1) * C + 2 * C = (sweep + 1) * C
      BY <1>1
    <3> QED BY <1>1, <1>4, <2>1, <3>2, <3>3
  <2>2. CASE ~(Walking /\ ~(sweep = q))
    <3>1. sweep * C <= q * C /\ q * C = C * q
      BY <1>1, <1>2, <1>5
    <3>2. (sweep - 1) * C + C = sweep * C
      BY <1>1
    <3> QED BY <1>1, <1>4, <2>2, <3>1, <3>2
  <2> QED BY <2>1, <2>2
<1> QED BY <1>1, <1>2, <1>3, <1>5, <1>6 DEF Slice, end

\* So are the words fillup() writes.
LEMMA Filled1Within ==
  ASSUME SliceRight, sweep \in Nat \ {0}, sweep <= CacheBanks, k \in Nat, k < cnt_cur
  PROVE  Within(Filled1, Slice)
<1> DEFINE cleared == IF ~Walking /\ k > 0 THEN Store(mem, fault, pbank + k - 1, Pad) ELSE mem
<1>1. Within(mem, Slice) /\ SliceFaults
  BY StoreNothing DEF SliceRight
<1>2. pbank + k \in Slice /\ (k > 0 => pbank + k - 1 \in Slice)
  <2>1. pbank + k \in Slice
    BY CurrentBank
  <2>2. cnt_cur \in Nat /\ pbank \in Int
    <3>1. sweep - 1 \in Nat /\ CNT_PER_BANK \in Nat /\ start_p \in Nat
      BY CacheAssumption DEF SliceRight
    <3> QED BY <3>1 DEF cnt_cur, pbank
  <2>3. ASSUME k > 0 PROVE pbank + k - 1 \in Slice
    <3>1. k - 1 \in Nat /\ k - 1 < cnt_cur
      BY <2>2, <2>3
    <3>2. pbank + (k - 1) \in Slice
      BY <3>1, CurrentBank
    <3> QED BY <2>2, <3>2
  <2> QED BY <2>1, <2>3
<1>3. Within(cleared, Slice)
  <2>1. k > 0 => Within(Store(mem, fault, pbank + k - 1, Pad), Slice)
    BY <1>1, <1>2, StoreInSlice
  <2> QED BY <1>1, <2>1
<1>4. Filled1 = Store(cleared, fault, pbank + k, WalkPattern)
  BY Zenon DEF Filled1
<1> HIDE DEF cleared
<1> QED BY <1>1, <1>2, <1>3, <1>4, StoreInSlice

\* The walking and the stuck cache test write words of the slice.
LEMMA CarryRight ==
  ASSUME SliceRight, CarryPosition, CacheMemset \/ CacheCarry \/ CachePhaseEnds
  PROVE  CarryPosition' /\ Within(mem', Slice)
<1>1. item \in {CPU_CACHE_WALKING, CPU_CACHE_STUCK} /\ UNCHANGED arguments
  BY DEF CacheMemset, CacheCarry, CachePhaseEnds, CacheStay
<1>2. /\ item' = item /\ start_p' = start_p /\ cnt' = cnt /\ start_p \in Nat /\ cnt \in Nat \ {0}
      /\ end' = end /\ end \in Nat /\ start_p < end
  BY <1>1 DEF arguments, SliceRight, end
<1>3. Within(mem, Slice) /\ SliceFaults
  BY StoreNothing DEF SliceRight
<1>4. CNT_PER_BANK \in Nat \ {0} /\ cnt_cur' \in Nat \ {0}
  <2>1. CNT_PER_BANK \in Nat \ {0}
    BY CacheAssumption
  <2>2. cnt_cur' = 2 * CNT_PER_BANK \/ cnt_cur' = CNT_PER_BANK
    BY DEF cnt_cur
  <2> QED BY <2>1, <2>2
<1>5. CASE CacheMemset
  <2>1. p \in start_p .. end
    BY <1>1, <1>5 DEF CacheMemset, CarryPosition
  <2>2. CASE p < end /\ mem' = Store(mem, fault, p, Pad) /\ p' = p + 1 /\ pc' = pc
    <3>1. p \in Slice
      BY <1>2, <2>1, <2>2 DEF Slice, end
    <3>2. Within(mem', Slice)
      BY <1>3, <2>2, <3>1, StoreInSlice
    <3>3. pc' = "memset" /\ p' \in start_p' .. end'
      BY <1>2, <1>5, <2>1, <2>2 DEF CacheMemset
    <3> QED BY <3>2, <3>3 DEF CarryPosition
  <2>3. CASE pc' = "carry" /\ sweep' = 1 /\ k' = 0 /\ mem' = mem
    BY <1>3, <1>4, <2>3 DEF CarryPosition
  <2> QED BY <1>5, <2>2, <2>3 DEF CacheMemset
<1>6. CASE CacheCarry
  <2>1. sweep \in Nat \ {0} /\ k \in Nat /\ sweep <= CacheBanks /\ k < cnt_cur
    BY <1>1, <1>6 DEF CacheCarry, CarryPosition
  <2>2. Within(Filled1, Slice) /\ pbank + k \in Slice
    BY <2>1, Filled1Within, CurrentBank
  <2>3. CASE Return(CacheError) /\ mem' = Filled1
    BY <2>2, <2>3 DEF Return, CarryPosition
  <2>4. CASE /\ mem' = IF Walking THEN Store(Filled1, fault, pbank + k, Pad) ELSE Filled1
             /\ k' = IF mask + 1 < UL_SIZE THEN k ELSE IF k + 1 < cnt_cur THEN k + 1 ELSE 0
             /\ sweep' = IF mask + 1 = UL_SIZE /\ k + 1 = cnt_cur THEN sweep + 1 ELSE sweep
             /\ pc' = pc
    <3>1. Within(Store(Filled1, fault, pbank + k, Pad), Slice)
      BY <1>3, <2>2, StoreInSlice
    <3>2. Within(mem', Slice)
      BY <2>2, <2>4, <3>1
    <3>3. sweep' \in Nat \ {0} /\ k' \in Nat
      BY <2>1, <2>4
    <3>4. k' < cnt_cur'
      <4>1. CASE sweep' = sweep
        <5>1. cnt_cur' = cnt_cur
          BY <1>2, <4>1 DEF cnt_cur, LastBank, CacheBanks, Walking
        <5> QED BY <1>4, <2>1, <2>4, <5>1
      <4>2. CASE sweep' # sweep
        <5>1. mask + 1 = UL_SIZE /\ k + 1 = cnt_cur
          BY <2>4, <4>2
        <5>2. ~(mask + 1 < UL_SIZE) /\ ~(k + 1 < cnt_cur)
          BY <1>4, <2>1, <5>1, WordAssumption
        <5> QED BY <1>4, <2>4, <5>2
      <4> QED BY <4>1, <4>2
    <3>5. pc' = "carry"
      BY <1>6, <2>4 DEF CacheCarry
    <3> QED BY <3>2, <3>3, <3>4, <3>5 DEF CarryPosition
  <2> QED BY <1>6, <2>3, <2>4 DEF CacheCarry
<1>7. CASE CachePhaseEnds
  <2>1. mem' = mem /\ ((pc' = "memset" /\ p' = start_p) \/ pc' = "returned")
    BY <1>7 DEF CachePhaseEnds, Return
  <2> QED BY <1>2, <1>3, <2>1 DEF CarryPosition
<1> QED BY <1>5, <1>6, <1>7

\* So does the test that reads and writes,
LEMMA RdwrRight ==
  ASSUME SliceRight, RdwrPosition, RdwrFillup \/ RdwrTest
  PROVE  RdwrPosition' /\ Within(mem', Slice)
<1>1. item = CPU_CACHE_RDWR /\ UNCHANGED arguments
  BY DEF RdwrFillup, RdwrTest, CacheStay
<1>2. /\ item' = item /\ start_p' = start_p /\ cnt' = cnt /\ start_p \in Nat /\ cnt \in Nat \ {0}
      /\ end' = end /\ end \in Nat /\ start_p < end
  BY <1>1 DEF arguments, SliceRight, end
<1>3. Within(mem, Slice) /\ SliceFaults
  BY StoreNothing DEF SliceRight
<1>4. pc \in {"rdwr_fill", "rdwr"} /\ p \in start_p .. end
  BY <1>1 DEF RdwrFillup, RdwrTest, RdwrPosition
<1>5. RdwrEnd \in Int /\ RdwrEnd <= end
  <2>1. CNT_PER_STEP \in Nat \ {0}
    BY CacheAssumption
  <2>2. (cnt \div CNT_PER_STEP) * CNT_PER_STEP <= cnt /\ (cnt \div CNT_PER_STEP) * CNT_PER_STEP \in Int
    <3> DEFINE q == cnt \div CNT_PER_STEP
    <3>1. q \in Nat /\ cnt % CNT_PER_STEP \in Nat /\ cnt = CNT_PER_STEP * q + (cnt % CNT_PER_STEP)
      BY <1>2, <2>1
    <3> HIDE DEF q
    <3>2. q * CNT_PER_STEP <= cnt /\ q * CNT_PER_STEP \in Int
      BY <1>2, <2>1, <3>1
    <3> QED BY <3>2 DEF q
  <2> QED BY <1>2, <2>2 DEF RdwrEnd, end
<1>6. \/ p < end /\ p' = p + 1 /\ (mem' = mem \/ mem' = Store(mem, fault, p, MKPAT(p)))
      \/ p' = start_p /\ mem' = mem
      \/ pc' = "returned" /\ mem' = mem
  BY <1>2, <1>4, <1>5 DEF RdwrFillup, RdwrTest, Return
<1>7. CASE p < end /\ p' = p + 1 /\ (mem' = mem \/ mem' = Store(mem, fault, p, MKPAT(p)))
  <2>1. p \in Slice
    BY <1>2, <1>4, <1>7 DEF Slice, end
  <2>2. Within(mem', Slice)
    BY <1>3, <1>7, <2>1, StoreInSlice
  <2>3. p' \in start_p' .. end'
    BY <1>2, <1>4, <1>7
  <2> QED BY <2>2, <2>3 DEF RdwrPosition
<1>8. CASE p' = start_p /\ mem' = mem
  <2>1. p' \in start_p' .. end'
    BY <1>2, <1>8
  <2> QED BY <1>3, <1>8, <2>1 DEF RdwrPosition
<1>9. CASE pc' = "returned" /\ mem' = mem
  BY <1>3, <1>9 DEF RdwrPosition
<1> QED BY <1>6, <1>7, <1>8, <1>9

\* and the one with random data.
LEMMA RandDataRight ==
  ASSUME SliceRight, RandDataPosition, randdata_fillup \/ comp_long
  PROVE  RandDataPosition' /\ Within(mem', Slice)
<1>1. item = CPU_CACHE_RANDOM_DATA /\ UNCHANGED arguments
  BY DEF randdata_fillup, comp_long, CacheStay
<1>2. item' = item /\ start_p \in Nat /\ cnt \in Nat \ {0}
  BY <1>1 DEF arguments, SliceRight
<1>3. Within(mem, Slice) /\ SliceFaults
  BY StoreNothing DEF SliceRight
<1>4. CASE randdata_fillup
  <2>1. pc = "rand_fill" /\ k \in Nat
    BY <1>1, <1>4 DEF randdata_fillup, RandDataPosition
  <2>2. CASE /\ k < RandHalf /\ k' = k + 1
             /\ \E n \in 0 .. (Len(g_pat) - 1) :
                  LET m == Store(mem, fault, start_p + k, rand_function_a(n))
                  IN  mem' = Store(m, fault, start_p + RandHalf + k, Load(m, fault, start_p + k))
    <3>1. PICK n \in 0 .. (Len(g_pat) - 1) :
            LET m == Store(mem, fault, start_p + k, rand_function_a(n))
            IN  mem' = Store(m, fault, start_p + RandHalf + k, Load(m, fault, start_p + k))
      BY <2>2
    <3> DEFINE m == Store(mem, fault, start_p + k, rand_function_a(n))
    <3>2. mem' = Store(m, fault, start_p + RandHalf + k, Load(m, fault, start_p + k))
      BY <3>1, Zenon
    <3>3. start_p + k \in Slice /\ start_p + RandHalf + k \in Slice
      BY <1>2, <2>1, <2>2 DEF RandHalf, Slice, end
    <3>4. Within(m, Slice)
      BY <1>3, <3>3, StoreInSlice
    <3> HIDE DEF m
    <3>5. Within(mem', Slice)
      BY <1>3, <3>2, <3>3, <3>4, StoreInSlice
    <3> QED BY <2>1, <2>2, <3>5 DEF RandDataPosition
  <2>3. CASE pc' = "comp" /\ mem' = mem
    BY <1>3, <2>3 DEF RandDataPosition
  <2> QED BY <1>4, <2>2, <2>3, Zenon DEF randdata_fillup
<1>5. CASE comp_long
  <2>1. pc' \in {"comp", "returned"} /\ mem' = mem
    BY <1>5 DEF comp_long, Return
  <2> QED BY <1>3, <2>1 DEF RandDataPosition
<1> QED BY <1>4, <1>5
-----------------------------------------------------------------------------
(* No test writes a word of another slice *)

\* The items of memory and of the caches have numbers of their own.
LEMMA ItemsApart ==
  /\ item \in PatternItems =>
       item \notin {MEM_ADD_WALK_ONES, MEM_RANDOM_ADDRESS, MEM_BLOCK_MOVE, CPU_CACHE_WALKING, CPU_CACHE_STUCK,
                    CPU_CACHE_RDWR, CPU_CACHE_RANDOM_DATA}
  /\ item = MEM_ADD_WALK_ONES =>
       item \notin {MEM_RANDOM_ADDRESS, MEM_BLOCK_MOVE, CPU_CACHE_WALKING, CPU_CACHE_STUCK,
                    CPU_CACHE_RDWR, CPU_CACHE_RANDOM_DATA}
  /\ item = MEM_RANDOM_ADDRESS =>
       item \notin {MEM_BLOCK_MOVE, CPU_CACHE_WALKING, CPU_CACHE_STUCK, CPU_CACHE_RDWR, CPU_CACHE_RANDOM_DATA}
  /\ item = MEM_BLOCK_MOVE =>
       item \notin {CPU_CACHE_WALKING, CPU_CACHE_STUCK, CPU_CACHE_RDWR, CPU_CACHE_RANDOM_DATA}
  /\ item \in {CPU_CACHE_WALKING, CPU_CACHE_STUCK} => item \notin {CPU_CACHE_RDWR, CPU_CACHE_RANDOM_DATA}
  /\ item = CPU_CACHE_RDWR => item # CPU_CACHE_RANDOM_DATA
  /\ item \in PatternItems \cup {MEM_ADD_WALK_ONES, MEM_RANDOM_ADDRESS, MEM_BLOCK_MOVE} => item \notin CacheItems
BY DEF CacheItems, PatternItems, MEM_ADD_WALK_ONES, MEM_ADD_OWN_ADDRESS, MEM_RANDOM_ADDRESS, MEM_MOVE_INVER_ONES_ZERO,
       MEM_MOVE_INVER_8BIT, MEM_MOVE_INVER_RANDOM, MEM_BLOCK_MOVE, MEM_MOVE_INVER_32BIT,
       MEM_RANDOM_NUM_SEQUENCE, MEM_MODULO, MEM_MARCH_C_TEST, MEM_BIT_FADE_TEST,
       CPU_CACHE_WALKING, CPU_CACHE_STUCK, CPU_CACHE_RDWR, CPU_CACHE_RANDOM_DATA

\* Every step leaves its function in its slice and writes there.
LEMMA EveryStep ==
  ASSUME MemIInv, Next
  PROVE  UNCHANGED arguments /\ Positions' /\ Within(mem', Written)
<1>1. UNCHANGED arguments
  BY DEF Next, PatternNext, AddressNext, BlockMoveNext, CacheNext, NextChunk, VisitWord, EndChunk, SkipLine,
         WalkLine, EndWalk, EndBanks, Continue, randaddr_fillup, randaddr_test, EndRandBank, randaddr_verify,
         FillBlockWord, StartMoving, MoveWord, EndMove, CheckBlock, CacheMemset, CacheCarry, CachePhaseEnds,
         RdwrFillup, RdwrTest, randdata_fillup, comp_long, CacheStay
<1>2. item' = item
  BY <1>1 DEF arguments
<1>3. /\ SliceRight /\ PatternPosition /\ WalkPosition /\ RandomPosition /\ MovePosition
      /\ CarryPosition /\ RdwrPosition /\ RandDataPosition
  BY DEF MemIInv, Positions
<1>4. CASE PatternNext
  <2>1. item \in PatternItems
    BY <1>4 DEF PatternNext, NextChunk, VisitWord, EndChunk
  <2>2. PatternPosition' /\ Within(mem', Slice)
    BY <1>3, <1>4, NextChunkRight, VisitWordRight, EndChunkRight DEF PatternNext
  <2>3. /\ WalkPosition' /\ RandomPosition' /\ MovePosition'
        /\ CarryPosition' /\ RdwrPosition' /\ RandDataPosition'
    BY <1>2, <2>1, ItemsApart
    DEF WalkPosition, RandomPosition, MovePosition, CarryPosition, RdwrPosition, RandDataPosition
  <2> QED BY <1>1, <2>2, <2>3, WithinWritten DEF Positions
<1>5. CASE SkipLine \/ WalkLine \/ EndWalk \/ EndBanks
  <2>1. item = MEM_ADD_WALK_ONES
    BY <1>5 DEF SkipLine, WalkLine, EndWalk, EndBanks
  <2>2. WalkPosition' /\ Within(mem', Slice)
    BY <1>3, <1>5, WalkRight
  <2>3. /\ PatternPosition' /\ RandomPosition' /\ MovePosition'
        /\ CarryPosition' /\ RdwrPosition' /\ RandDataPosition'
    BY <1>2, <2>1, ItemsApart
    DEF PatternPosition, RandomPosition, MovePosition, CarryPosition, RdwrPosition, RandDataPosition
  <2> QED BY <1>1, <2>2, <2>3, WithinWritten DEF Positions
<1>6. CASE randaddr_fillup \/ randaddr_test \/ EndRandBank \/ randaddr_verify
  <2>1. item = MEM_RANDOM_ADDRESS
    BY <1>6 DEF randaddr_fillup, randaddr_test, EndRandBank, randaddr_verify
  <2>2. RandomPosition' /\ Within(mem', Written)
    BY <1>3, <1>6, RandomRight
  <2>3. /\ PatternPosition' /\ WalkPosition' /\ MovePosition'
        /\ CarryPosition' /\ RdwrPosition' /\ RandDataPosition'
    BY <1>2, <2>1, ItemsApart
    DEF PatternPosition, WalkPosition, MovePosition, CarryPosition, RdwrPosition, RandDataPosition
  <2> QED BY <1>1, <2>2, <2>3 DEF Positions
<1>7. CASE BlockMoveNext
  <2>1. item = MEM_BLOCK_MOVE
    BY <1>7 DEF BlockMoveNext, FillBlockWord, StartMoving, MoveWord, EndMove, CheckBlock
  <2>2. MovePosition' /\ Within(mem', Slice)
    BY <1>3, <1>7, MoveRight
  <2>3. /\ PatternPosition' /\ WalkPosition' /\ RandomPosition'
        /\ CarryPosition' /\ RdwrPosition' /\ RandDataPosition'
    BY <1>2, <2>1, ItemsApart
    DEF PatternPosition, WalkPosition, RandomPosition, CarryPosition, RdwrPosition, RandDataPosition
  <2> QED BY <1>1, <2>2, <2>3, WithinWritten DEF Positions
<1>8. CASE CacheMemset \/ CacheCarry \/ CachePhaseEnds
  <2>1. item \in {CPU_CACHE_WALKING, CPU_CACHE_STUCK}
    BY <1>8 DEF CacheMemset, CacheCarry, CachePhaseEnds
  <2>2. CarryPosition' /\ Within(mem', Slice)
    BY <1>3, <1>8, CarryRight
  <2>3. /\ PatternPosition' /\ WalkPosition' /\ RandomPosition' /\ MovePosition'
        /\ RdwrPosition' /\ RandDataPosition'
    BY <1>2, <2>1, ItemsApart
    DEF PatternPosition, WalkPosition, RandomPosition, MovePosition, RdwrPosition, RandDataPosition
  <2> QED BY <1>1, <2>2, <2>3, WithinWritten DEF Positions
<1>9. CASE RdwrFillup \/ RdwrTest
  <2>1. item = CPU_CACHE_RDWR
    BY <1>9 DEF RdwrFillup, RdwrTest
  <2>2. RdwrPosition' /\ Within(mem', Slice)
    BY <1>3, <1>9, RdwrRight
  <2>3. /\ PatternPosition' /\ WalkPosition' /\ RandomPosition' /\ MovePosition'
        /\ CarryPosition' /\ RandDataPosition'
    BY <1>2, <2>1, ItemsApart
    DEF PatternPosition, WalkPosition, RandomPosition, MovePosition, CarryPosition, RandDataPosition
  <2> QED BY <1>1, <2>2, <2>3, WithinWritten DEF Positions
<1>10. CASE randdata_fillup \/ comp_long
  <2>1. item = CPU_CACHE_RANDOM_DATA
    BY <1>10 DEF randdata_fillup, comp_long
  <2>2. RandDataPosition' /\ Within(mem', Slice)
    BY <1>3, <1>10, RandDataRight
  <2>3. /\ PatternPosition' /\ WalkPosition' /\ RandomPosition' /\ MovePosition'
        /\ CarryPosition' /\ RdwrPosition'
    BY <1>2, <2>1, ItemsApart
    DEF PatternPosition, WalkPosition, RandomPosition, MovePosition, CarryPosition, RdwrPosition
  <2> QED BY <1>1, <2>2, <2>3, WithinWritten DEF Positions
<1> QED BY <1>4, <1>5, <1>6, <1>7, <1>8, <1>9, <1>10 DEF Next, AddressNext, CacheNext

\* Each test begins at the first word of its slice.
LEMMA FirstSweepGoesUp ==
  ASSUME item \in PatternItems
  PROVE  ~Sweep(Call(1), 1).down
<1> DEFINE c == Call(1)
<1>1. \A x, y : ~Up(x, y).down /\ ~Nth(x, y).down
  BY DEF Up, Nth
<1>2. c.fn \in {"modtst", "addr_walk_own", "movinv1", "movinv32", "movinvr", "march_c", "bit_fade"}
  BY CallNames
<1> HIDE DEF c
<1>3. ~Fill.down
  BY <1>1 DEF Fill
<1>4. Sweep(c, 1) = Fill \/ Sweep(c, 1) = Nth("none", "p1")
  <2>1. /\ movinv1(1) = Fill /\ movinvr(1) = Fill /\ march_c(1) = Fill
        /\ modtst(1, Sweeps(c)) = Nth("none", "p1")
    BY DEF movinv1, movinvr, march_c, modtst
  <2> QED BY <1>2, <2>1 DEF Sweep
<1> QED BY <1>1, <1>3, <1>4 DEF c

\* A test starts at the beginning of its slice.
LEMMA MemInit == Init => MemIInv
<1> SUFFICES ASSUME Init PROVE MemIInv
  OBVIOUS
<1>1. SliceRight
  <2>1. PICK s \in Slices[item] : start_p = s[1] /\ cnt = s[2]
    BY DEF Init
  <2>2. item \in Items \cup CacheItems /\ FaultIn(fault, Slice) /\ DOMAIN mem = Addresses
    BY DEF Init
  <2>3. /\ s[1] \in Nat /\ s[2] \in Nat \ {0} /\ s[1] % PageWords = 0
        /\ s[1] .. (s[1] + s[2] - 1) \subseteq Addresses
        /\ item \in PatternItems => s[2] % PageWords = 0
        /\ item = MEM_BLOCK_MOVE =>
             s[2] % (2 * BlockWords) = 0 /\ s[2] <= MoveChunk * (MoveChunk \div (2 * BlockWords))
    BY <2>1, <2>2, SliceAssumption
  <2>4. Slice \subseteq Addresses
    BY <2>1, <2>3 DEF Slice, end
  <2> QED BY <2>1, <2>2, <2>3, <2>4, FaultInSlice DEF SliceRight
<1>2. start_p \in Nat /\ cnt \in Nat \ {0} /\ pe = start_p /\ Started
  BY <1>1 DEF Init, SliceRight
<1>3. start_p \in start_p .. end /\ start_p < end
  BY <1>2 DEF end
<1>4. PatternPosition
  <2>1. SUFFICES ASSUME item \in PatternItems PROVE PatternPosition
    BY DEF PatternPosition
  <2>2. /\ call = 1 /\ sweep = 1
        /\ p = start_p + (IF Sweep(Call(1), 1).which = "nth" THEN Call(1).off ELSE 0)
    BY <1>2, <2>1, ItemsApart, Zenon DEF Started
  <2>3. Sweep(Call(1), 1).which = "nth" => Call(1).off \in Nat
    BY <2>1, SweepFacts
  <2>4. p \in Int /\ p >= start_p
    BY <1>2, <2>2, <2>3
  <2>5. ~Sweep(Call(1), 1).down
    BY <2>1, FirstSweepGoesUp
  <2> QED BY <1>2, <1>3, <2>2, <2>4, <2>5 DEF PatternPosition
<1>5. item = MEM_ADD_WALK_ONES => sweep = 0 /\ pc = "bank"
  BY <1>2, ItemsApart, Zenon DEF Started
<1>6. item = MEM_RANDOM_ADDRESS => pc = "fillup" /\ p = start_p
  BY <1>2, ItemsApart, Zenon DEF Started
<1>7. item = MEM_BLOCK_MOVE => pc = "blocks" /\ p = start_p
  BY <1>2, ItemsApart, Zenon DEF Started
<1>8. ASSUME item \in {CPU_CACHE_WALKING, CPU_CACHE_STUCK, CPU_CACHE_RDWR, CPU_CACHE_RANDOM_DATA}
      PROVE  /\ p = start_p /\ k = 0
             /\ pc = (CASE item = CPU_CACHE_RDWR -> "rdwr_fill"
                        [] item = CPU_CACHE_RANDOM_DATA -> "rand_fill"
                        [] OTHER -> "memset")
  <2>1. item \in CacheItems
    BY <1>8 DEF CacheItems, CPU_CACHE_WALKING, CPU_CACHE_STUCK, CPU_CACHE_RDWR, CPU_CACHE_RANDOM_DATA
  <2>2. item \notin PatternItems \cup {MEM_ADD_WALK_ONES, MEM_RANDOM_ADDRESS, MEM_BLOCK_MOVE}
    BY <1>8, ItemsApart
  <2> QED BY <1>2, <2>1, <2>2, Zenon DEF Started
<1>9. item \in {CPU_CACHE_WALKING, CPU_CACHE_STUCK} => p = start_p /\ pc = "memset"
  BY <1>8, ItemsApart, Zenon
<1>10. item = CPU_CACHE_RDWR => p = start_p
  BY <1>8
<1>11. item = CPU_CACHE_RANDOM_DATA => k = 0
  BY <1>8
<1>12. WalkPosition /\ RandomPosition /\ MovePosition
  BY <1>3, <1>5, <1>6, <1>7 DEF WalkPosition, RandomPosition, MovePosition
<1>13. CarryPosition /\ RdwrPosition /\ RandDataPosition
  BY <1>3, <1>9, <1>10, <1>11 DEF CarryPosition, RdwrPosition, RandDataPosition
<1> QED BY <1>1, <1>4, <1>12, <1>13 DEF MemIInv, Positions

\* The positions are kept.
LEMMA MemStep == MemIInv /\ [Next]_vars => MemIInv'
<1> SUFFICES ASSUME MemIInv, [Next]_vars PROVE MemIInv'
  OBVIOUS
<1>1. CASE Next
  <2>1. UNCHANGED arguments /\ Positions' /\ Within(mem', Written)
    BY <1>1, EveryStep
  <2>2. /\ item' = item /\ start_p' = start_p /\ cnt' = cnt /\ fault' = fault
        /\ DOMAIN mem' = Addresses /\ Slice' = Slice
    BY <2>1 DEF arguments, Within, Slice, end
  <2>3. SliceRight'
    BY <2>2 DEF MemIInv, SliceRight, SliceFaults
  <2> QED BY <2>1, <2>3 DEF MemIInv
<1>2. CASE UNCHANGED vars
  <2>1. /\ UNCHANGED <<item, start_p, cnt, fault, mem, pc, call, sweep, p, pe, k, mask>>
        /\ Slice' = Slice /\ end' = end
    BY <1>2 DEF vars, Slice, end
  <2>2. SliceRight'
    BY <2>1 DEF MemIInv, SliceRight, SliceFaults
  <2>3. PatternPosition'
    BY <2>1, PatternStays, <1>2 DEF MemIInv, Positions, arguments, vars
  <2>4. WalkPosition' /\ RandomPosition' /\ MovePosition'
    BY <2>1 DEF MemIInv, Positions, WalkPosition, RandomPosition, MovePosition, RandBanks
  <2>5. CarryPosition' /\ RdwrPosition' /\ RandDataPosition'
    BY <2>1
    DEF MemIInv, Positions, CarryPosition, RdwrPosition, RandDataPosition, CacheBanks, cnt_cur, LastBank, Walking
  <2> QED BY <2>2, <2>3, <2>4, <2>5 DEF MemIInv, Positions
<1> QED BY <1>1, <1>2

\* No test writes a word outside its slice, but for the random address test and the
\* first word behind it.  Whatever the slice, the chunks and the banks: what a function
\* counts keeps its words in the slice up to each of its ends, where a chunk, a bank or
\* a pair of blocks is cut short.
THEOREM OwnSliceOnlySound == Spec => OwnSliceOnly
<1>1. Spec => []MemIInv
  BY MemInit, MemStep, PTL DEF Spec
<1>2. MemIInv /\ [Next]_vars =>
        [\A a \in Addresses \ Slice :
           mem'[a] # mem[a] => item = MEM_RANDOM_ADDRESS /\ a = CellOf(fault, end)]_vars
  <2>1. ASSUME MemIInv, Next, NEW a \in Addresses \ Slice, mem'[a] # mem[a]
        PROVE  item = MEM_RANDOM_ADDRESS /\ a = CellOf(fault, end)
    <3>1. a \in Written
      BY <2>1, EveryStep DEF Within
    <3> QED BY <2>1, <3>1 DEF Written
  <2> QED BY <2>1
<1> QED BY <1>1, <1>2, PTL DEF Spec, OwnSliceOnly

-----------------------------------------------------------------------------
(* Words *)

\* The words the tests store.
LEMMA WordFacts ==
  /\ \A v \in {0, 1} : Filled(v) \in Words
  /\ \A w \in Words : Not(w) \in Words
  /\ \A n : OneBit(n) \in Words
  /\ \A w \in Words, n \in Nat, v \in {0, 1} : ShiftLeft(w, n, v) \in Words
  /\ \A w \in Words, v \in {0, 1} : ShiftRight(w, v) \in Words
  /\ \A n \in Int : rand_function(n) \in Words
<1>1. \A v \in {0, 1} : Filled(v) \in Words
  BY DEF Filled, Words
<1>2. \A w \in Words : Not(w) \in Words
  BY DEF Not, Words
<1>3. \A n : OneBit(n) \in Words
  BY DEF OneBit, Words
<1>4. ASSUME NEW w \in Words, NEW n \in Nat, NEW v \in {0, 1} PROVE ShiftLeft(w, n, v) \in Words
  <2>1. \A b \in Bits : ~(b < n) => b - n \in Bits
    BY WordAssumption DEF Bits
  <2> QED BY <2>1 DEF ShiftLeft, Words
<1>5. ASSUME NEW w \in Words, NEW v \in {0, 1} PROVE ShiftRight(w, v) \in Words
  <2>1. \A b \in Bits : b # UL_SIZE - 1 => b + 1 \in Bits
    BY WordAssumption DEF Bits
  <2> QED BY <2>1 DEF ShiftRight, Words
<1>6. ASSUME NEW n \in Int PROVE rand_function(n) \in Words
  <2>1. n % Period \in 0 .. (Period - 1)
    BY PatternAssumption
  <2>2. Draws[n % Period] \in Words
    BY <2>1, PatternAssumption
  <2> QED BY <2>2 DEF rand_function, Words
<1> QED BY <1>1, <1>2, <1>3, <1>4, <1>5, <1>6

\* The complement of the complement, and that it differs in every bit.
LEMMA NotFacts ==
  ASSUME NEW w \in Words
  PROVE  Not(Not(w)) = w /\ Not(w) # w /\ \A b \in Bits : Not(w)[b] = 1 - w[b] /\ w[b] \in {0, 1}
<1>1. \A b \in Bits : Not(w)[b] = 1 - w[b] /\ w[b] \in {0, 1}
  BY DEF Not, Words
<1>2. Not(w) \in Words /\ Not(Not(w)) \in Words
  BY WordFacts
<1>3. \A b \in Bits : Not(Not(w))[b] = w[b]
  <2>1. \A b \in Bits : Not(Not(w))[b] = 1 - Not(w)[b]
    BY <1>2 DEF Not
  <2> QED BY <1>1, <2>1
<1>4. Not(Not(w)) = w
  BY <1>2, <1>3 DEF Words
<1>5. 0 \in Bits
  BY WordAssumption DEF Bits
<1>6. Not(w)[0] # w[0]
  BY <1>1, <1>5
<1> QED BY <1>1, <1>4, <1>6

\* A fault of a bit is one of a bit that exists.
LEMMA FaultKinds ==
  ASSUME fault \in Faults
  PROVE  /\ fault = NoFault => fault.kind = "none"
         /\ fault.kind \in {"none", "stuck", "transition", "coupling", "line"}
         /\ fault.kind \in {"stuck", "transition"} =>
              fault.at \in Addresses /\ fault.b \in Bits /\ fault.v \in {0, 1}
         /\ fault.kind = "coupling" =>
              /\ fault.at \in Addresses /\ fault.from \in Addresses /\ fault.from # fault.at
              /\ fault.b \in Bits /\ fault.fb \in Bits /\ fault.v \in 0 .. 2 /\ fault.fv \in {0, 1}
         /\ fault.kind = "line" =>
              /\ fault.line \in Nat \ {0}
              /\ \A q \in 2 .. fault.line : fault.line % q = 0 => q % 2 = 0
              /\ \A a \in Addresses : Line(a, fault.line) = 1 => AddressWord(a) # AddressWord(a - fault.line)
<1>1. \/ fault = NoFault
      \/ fault \in StuckFaults(Addresses, Bits) \cup TransitionFaults(Addresses, Bits)
      \/ fault \in CouplingFaults(Addresses, Bits)
      \/ /\ fault \in LineFaults(Nat \ {0})
         /\ \A q \in 2 .. fault.line : fault.line % q = 0 => q % 2 = 0
         /\ \A a \in Addresses : Line(a, fault.line) = 1 => AddressWord(a) # AddressWord(a - fault.line)
  BY FaultAssumption
<1>2. fault = NoFault => fault.kind = "none"
  BY DEF NoFault
<1>3. CASE fault \in StuckFaults(Addresses, Bits) \cup TransitionFaults(Addresses, Bits)
  <2>1. fault.kind \in {"stuck", "transition"} /\ fault.at \in Addresses /\ fault.b \in Bits /\ fault.v \in {0, 1}
    BY <1>3 DEF StuckFaults, TransitionFaults
  <2> QED BY <1>2, <2>1
<1>4. CASE fault \in CouplingFaults(Addresses, Bits)
  <2>1. /\ fault.kind = "coupling" /\ fault.at \in Addresses /\ fault.from \in Addresses /\ fault.from # fault.at
        /\ fault.b \in Bits /\ fault.fb \in Bits /\ fault.v \in 0 .. 2 /\ fault.fv \in {0, 1}
    BY <1>4 DEF CouplingFaults
  <2> QED BY <1>2, <2>1
<1>5. CASE /\ fault \in LineFaults(Nat \ {0})
           /\ \A q \in 2 .. fault.line : fault.line % q = 0 => q % 2 = 0
           /\ \A a \in Addresses : Line(a, fault.line) = 1 => AddressWord(a) # AddressWord(a - fault.line)
  <2>1. fault.kind = "line" /\ fault.line \in Nat \ {0}
    BY <1>5 DEF LineFaults
  <2> QED BY <1>2, <1>5, <2>1
<1> QED BY <1>1, <1>2, <1>3, <1>4, <1>5

Memories == [Addresses -> Words]

\* The hardware keeps words.
LEMMA StoreTyped ==
  ASSUME fault \in Faults, NEW m \in Memories, NEW a, NEW w \in Words
  PROVE  Store(m, fault, a, w) \in Memories
<1> DEFINE c == CellOf(fault, a)
           kept == Kept(m, fault, c, w)
           stored == [m EXCEPT ![c] = kept]
           v == IF fault.v = 2 THEN 1 - stored[fault.at][fault.b] ELSE fault.v
           hit == [stored EXCEPT ![fault.at] = [stored[fault.at] EXCEPT ![fault.b] = v]]
<1>1. Store(m, fault, a, w) = IF Disturbs(m, fault, c, w) THEN hit ELSE stored
  BY Zenon DEF Store
<1>2. kept \in Words
  BY FaultKinds DEF Kept, Words
<1> HIDE DEF kept
<1>3. stored \in Memories
  BY <1>2 DEF Memories
<1>4. Disturbs(m, fault, c, w) => hit \in Memories
  <2> HIDE DEF stored
  <2>1. SUFFICES ASSUME fault.kind = "coupling" PROVE hit \in Memories
    BY DEF Disturbs
  <2>2. fault.at \in Addresses /\ fault.b \in Bits /\ fault.v \in 0 .. 2
    BY <2>1, FaultKinds
  <2>3. stored[fault.at] \in Words /\ stored[fault.at][fault.b] \in {0, 1}
    BY <1>3, <2>2 DEF Memories, Words
  <2>4. v \in {0, 1}
    BY <2>2, <2>3
  <2> HIDE DEF v
  <2>5. [stored[fault.at] EXCEPT ![fault.b] = v] \in Words
    BY <2>3, <2>4 DEF Words
  <2> QED BY <1>3, <2>5 DEF Memories
<1> QED BY <1>1, <1>3, <1>4

\* What is loaded of a word is a word.
LEMMA LoadTyped ==
  ASSUME fault \in Faults, NEW m \in Memories, NEW a, CellOf(fault, a) \in Addresses
  PROVE  Load(m, fault, a) \in Words
<1> DEFINE c == CellOf(fault, a)
<1>1. m[c] \in Words
  BY DEF Memories
<1>2. Load(m, fault, a) = IF fault.kind = "stuck" /\ fault.at = c THEN [m[c] EXCEPT ![fault.b] = fault.v] ELSE m[c]
  BY Zenon DEF Load
<1> HIDE DEF c
<1> QED BY <1>1, <1>2, FaultKinds DEF Words
-----------------------------------------------------------------------------
(* Calls *)

\* The pattern of movinv32() that has its bit at j.
Rot(c, j) == [b \in Bits |-> IF b = j THEN 1 - c.sval ELSE c.sval]

Functions == {"addr_walk_own", "movinv1", "movinv32", "movinvr", "modtst", "march_c", "bit_fade"}

\* The fields of a call.
LEMMA SimpleCallFacts ==
  ASSUME NEW f, NEW w \in Words, NEW i
  PROVE  LET c == SimpleCall(f, w, i) IN
         /\ c.fn = f /\ c.p1 = w /\ c.iter = i /\ c.off = 0 /\ c.lb = w /\ c.hb = w /\ c.sval = 0
BY DEF SimpleCall

\* The calls of movinv32() rotate one bit through the word.
LEMMA WalkingCallFacts ==
  ASSUME NEW j \in 0 .. (UL_SIZE - 1), NEW inverted \in BOOLEAN
  PROVE  LET c == WalkingCall(j, inverted) IN
         /\ c.fn = "movinv32" /\ c.iter = Iter /\ c.off = j /\ c.sval \in {0, 1}
         /\ c.p1 = Rot(c, j) /\ c.lb = Rot(c, 0) /\ c.hb = Rot(c, UL_SIZE - 1)
<1> DEFINE Maybe(w) == IF inverted THEN Not(w) ELSE w
           c == WalkingCall(j, inverted)
           q == IF inverted THEN 1 ELSE 0
<1>1. c = [fn |-> "movinv32", p1 |-> Maybe(OneBit(j)), p2 |-> Maybe(Not(OneBit(j))), iter |-> Iter, off |-> j,
           lb |-> Maybe(OneBit(0)), hb |-> Maybe(OneBit(UL_SIZE - 1)), sval |-> q]
  BY Zenon DEF WalkingCall
<1>2. \A n : Maybe(OneBit(n)) = [b \in Bits |-> IF b = n THEN 1 - q ELSE q]
  BY DEF OneBit, Not
<1> HIDE DEF Maybe, c
<1>3. /\ c.fn = "movinv32" /\ c.iter = Iter /\ c.off = j /\ c.sval = q
      /\ c.p1 = Maybe(OneBit(j)) /\ c.lb = Maybe(OneBit(0)) /\ c.hb = Maybe(OneBit(UL_SIZE - 1))
  BY <1>1
<1>4. \A n : Maybe(OneBit(n)) = Rot(c, n)
  BY <1>2, <1>3, Zenon DEF Rot
<1> QED BY <1>3, <1>4 DEF c

\* The calls of modtst() go through the offsets, and switch the pattern.
LEMMA ModuloCallFacts ==
  ASSUME NEW n \in Nat \ {0}
  PROVE  LET c == ModuloCall(n) IN
         /\ c.fn = "modtst" /\ c.iter = 2 /\ c.off = ((n - 1) \div 2) % MOD_SZ /\ c.sval = 0
         /\ c.off \in 0 .. (MOD_SZ - 1)
         /\ c.p1 \in Words /\ c.lb = c.p1 /\ c.hb = c.p1
         /\ c.p1 = (IF ((((n - 1) % (2 * MOD_SZ)) + 1) \div 2) % 2 = 0
                    THEN rand_function((n - 1) \div (2 * MOD_SZ))
                    ELSE Not(rand_function((n - 1) \div (2 * MOD_SZ))))
<1> DEFINE drawn == rand_function((n - 1) \div (2 * MOD_SZ))
           pattern == IF ((((n - 1) % (2 * MOD_SZ)) + 1) \div 2) % 2 = 0 THEN drawn ELSE Not(drawn)
           off == ((n - 1) \div 2) % MOD_SZ
           c == ModuloCall(n)
<1>1. c = [SimpleCall("modtst", pattern, 2) EXCEPT !.off = off]
  BY Zenon DEF ModuloCall
<1>2. off \in 0 .. (MOD_SZ - 1)
  BY PatternAssumption
<1>3. (n - 1) \div (2 * MOD_SZ) \in Int
  BY PatternAssumption
<1>4. pattern \in Words
  BY <1>3, WordFacts
<1> HIDE DEF pattern, off, c
<1>5. SimpleCall("modtst", pattern, 2) =
        [fn |-> "modtst", p1 |-> pattern, p2 |-> Not(pattern), iter |-> 2, off |-> 0, lb |-> pattern, hb |-> pattern, sval |-> 0]
  BY DEF SimpleCall
<1>6. c.fn = "modtst" /\ c.iter = 2 /\ c.off = off /\ c.sval = 0 /\ c.p1 = pattern /\ c.lb = pattern /\ c.hb = pattern
  BY <1>1, <1>5
<1> QED BY <1>2, <1>4, <1>6 DEF c, pattern, off

\* What the fields of a call are.
CallRight(c) ==
  /\ c.fn \in Functions /\ c.p1 \in Words /\ c.lb \in Words /\ c.hb \in Words
  /\ c.iter \in Nat \ {0} /\ c.off \in Nat /\ c.sval \in {0, 1}
  /\ c.fn = "movinv32" =>
       c.off < UL_SIZE /\ c.p1 = Rot(c, c.off) /\ c.lb = Rot(c, 0) /\ c.hb = Rot(c, UL_SIZE - 1)
  /\ c.fn = "modtst" => c.off < MOD_SZ /\ c.iter = 2
  /\ c.fn \notin {"movinv32", "modtst"} => c.off = 0

\* The function an item calls.
FunctionOf(i) ==
  IF i = MEM_ADD_OWN_ADDRESS THEN "addr_walk_own"
  ELSE IF i \in {MEM_MOVE_INVER_ONES_ZERO, MEM_MOVE_INVER_8BIT, MEM_MOVE_INVER_RANDOM} THEN "movinv1"
  ELSE IF i = MEM_MOVE_INVER_32BIT THEN "movinv32"
  ELSE IF i = MEM_RANDOM_NUM_SEQUENCE THEN "movinvr"
  ELSE IF i = MEM_MODULO THEN "modtst"
  ELSE IF i = MEM_MARCH_C_TEST THEN "march_c" ELSE "bit_fade"

\* A rotated pattern is a word.
LEMMA RotIsWord ==
  ASSUME NEW c, c.sval \in {0, 1}, NEW j
  PROVE  Rot(c, j) \in Words
BY DEF Rot, Words

\* Every call of an item is one of its inner function.
LEMMA CallFacts ==
  ASSUME item \in PatternItems, NEW n \in 1 .. Calls
  PROVE  /\ CallRight(Call(n)) /\ Call(n).fn = FunctionOf(item) /\ Calls \in Nat \ {0}
         /\ item = MEM_MODULO => Call(n) = ModuloCall(n)
         /\ item = MEM_MARCH_C_TEST => Call(n).p1 = Filled(0)
<1> USE DEF MEM_ADD_OWN_ADDRESS, MEM_MOVE_INVER_ONES_ZERO, MEM_MOVE_INVER_8BIT, MEM_MOVE_INVER_RANDOM,
      MEM_MOVE_INVER_32BIT, MEM_RANDOM_NUM_SEQUENCE, MEM_MODULO, MEM_MARCH_C_TEST, MEM_BIT_FADE_TEST
<1>1. item \in 1 .. 11
  BY DEF PatternItems
<1>2. Iter \in Nat \ {0}
  BY <1>1, IterationAssumption DEF Iter, Items, MEM_ADD_WALK_ONES
<1>3. Calls \in Nat \ {0}
  <2>1. 2 * BYTE_BITS \in Nat \ {0} /\ 2 * UL_SIZE \in Nat \ {0} /\ 2 * MOD_SZ * Iter \in Nat \ {0}
    BY <1>2, WordAssumption, PatternAssumption
  <2> QED BY <1>2, <2>1 DEF Calls, PatternItems
<1>4. n \in Nat \ {0} /\ n - 1 \in Nat
  BY <1>3
<1>5. ASSUME NEW f \in Functions \ {"movinv32", "modtst"}, NEW w \in Words, NEW i \in Nat \ {0}
      PROVE  CallRight(SimpleCall(f, w, i)) /\ SimpleCall(f, w, i).fn = f /\ SimpleCall(f, w, i).p1 = w
  BY <1>5, SimpleCallFacts DEF CallRight
<1>6. ASSUME NEW w \in Words PROVE Switched(n, w) \in Words
  BY <1>6, WordFacts DEF Switched
<1>7. Filled(0) \in Words /\ BytePattern((n - 1) \div 2) \in Words /\ rand_function(n - 1) \in Words
  <2>1. BytePattern((n - 1) \div 2) \in Words
    BY DEF BytePattern, Words
  <2>2. rand_function(n - 1) \in Words
    BY <1>4, WordFacts
  <2> QED BY <2>1, <2>2, WordFacts
<1>8. CASE item = MEM_MOVE_INVER_32BIT
  <2> DEFINE j == (n - 1) \div 2
             b == (n % 2 = 0)
  <2>1. Calls = 2 * UL_SIZE
    BY <1>8 DEF Calls
  <2>2. j \in 0 .. (UL_SIZE - 1) /\ b \in BOOLEAN
    BY <1>4, <2>1, WordAssumption
  <2>3. Call(n) = WalkingCall(j, b)
    BY <1>8 DEF Call
  <2> HIDE DEF j, b
  <2> DEFINE c == WalkingCall(j, b)
  <2>4. /\ c.fn = "movinv32" /\ c.iter = Iter /\ c.off = j /\ c.sval \in {0, 1}
        /\ c.p1 = Rot(c, j) /\ c.lb = Rot(c, 0) /\ c.hb = Rot(c, UL_SIZE - 1)
    BY <2>2, WalkingCallFacts
  <2> HIDE DEF c
  <2>5. c.p1 \in Words /\ c.lb \in Words /\ c.hb \in Words
    BY <2>4, RotIsWord
  <2>6. CallRight(c) /\ c.fn = "movinv32"
    BY <1>2, <2>2, <2>4, <2>5, WordAssumption DEF CallRight, Functions
  <2>7. FunctionOf(item) = "movinv32"
    BY <1>8 DEF FunctionOf
  <2> QED BY <1>3, <1>8, <2>3, <2>6, <2>7 DEF c
<1>9. CASE item = MEM_MODULO
  <2>1. Call(n) = ModuloCall(n)
    BY <1>9 DEF Call
  <2> DEFINE c == ModuloCall(n)
  <2>2. /\ c.fn = "modtst" /\ c.iter = 2 /\ c.sval = 0 /\ c.off \in 0 .. (MOD_SZ - 1)
        /\ c.p1 \in Words /\ c.lb = c.p1 /\ c.hb = c.p1
    BY <1>4, ModuloCallFacts
  <2> HIDE DEF c
  <2>3. CallRight(c)
    BY <2>2, PatternAssumption DEF CallRight, Functions
  <2>4. FunctionOf(item) = "modtst"
    BY <1>9 DEF FunctionOf
  <2> QED BY <1>3, <1>9, <2>1, <2>2, <2>3, <2>4 DEF c
<1>10. CASE item \notin {MEM_MOVE_INVER_32BIT, MEM_MODULO}
  <2> DEFINE f == FunctionOf(item)
  <2>1. \E w \in Words, i \in Nat \ {0} : Call(n) = SimpleCall(f, w, i) /\ (item = MEM_MARCH_C_TEST => w = Filled(0))
    <3>1. CASE item = MEM_ADD_OWN_ADDRESS
      BY <1>7, <3>1 DEF Call, FunctionOf
    <3>2. CASE item = MEM_MOVE_INVER_ONES_ZERO
      BY <1>2, <1>6, <1>7, <3>2 DEF Call, FunctionOf
    <3>3. CASE item = MEM_MOVE_INVER_8BIT
      BY <1>2, <1>6, <1>7, <3>3 DEF Call, FunctionOf
    <3>4. CASE item = MEM_MOVE_INVER_RANDOM
      BY <1>7, <3>4 DEF Call, FunctionOf
    <3>5. CASE item = MEM_RANDOM_NUM_SEQUENCE
      BY <1>7, <3>5 DEF Call, FunctionOf
    <3>6. CASE item = MEM_MARCH_C_TEST
      BY <1>2, <1>7, <3>6 DEF Call, FunctionOf
    <3>7. CASE item = MEM_BIT_FADE_TEST
      BY <1>7, <3>7 DEF Call, FunctionOf
    <3> QED BY <1>10, <3>1, <3>2, <3>3, <3>4, <3>5, <3>6, <3>7 DEF PatternItems
  <2>2. f \in Functions \ {"movinv32", "modtst"}
    BY <1>10 DEF FunctionOf, Functions
  <2> HIDE DEF f
  <2> QED BY <1>3, <1>5, <1>10, <2>1, <2>2 DEF f
<1> QED BY <1>8, <1>9, <1>10
-----------------------------------------------------------------------------
(* Sweeps *)

\* The pattern that is left in the words a sweep has visited.
Left(s) == IF s.write = "none" THEN s.check ELSE s.write

Names == {"none", "p1", "p2"}

\* The four shapes of a sweep.
LEMMA Shapes ==
  ASSUME NEW x, NEW y
  PROVE  /\ LET s == Up(x, y) IN ~s.down /\ s.check = x /\ s.write = y /\ s.which = "all"
         /\ LET s == Down(x, y) IN s.down /\ s.check = x /\ s.write = y /\ s.which = "all"
         /\ LET s == Nth(x, y) IN ~s.down /\ s.check = x /\ s.write = y /\ s.which = "nth"
         /\ LET s == Rest(x, y) IN ~s.down /\ s.check = x /\ s.write = y /\ s.which = "rest"
<1>1. LET s == Up(x, y) IN s.down = FALSE /\ s.check = x /\ s.write = y /\ s.which = "all"
  BY DEF Up
<1>2. LET s == [Up(x, y) EXCEPT !.down = TRUE] IN s.down = TRUE /\ s.check = x /\ s.write = y /\ s.which = "all"
  BY DEF Up
<1>3. \A v : LET s == [Up(x, y) EXCEPT !.which = v] IN s.down = FALSE /\ s.check = x /\ s.write = y /\ s.which = v
  BY DEF Up
<1> QED BY <1>1, <1>2, <1>3 DEF Down, Nth, Rest

\* A sweep over all words checks what the one before it left.
LEMMA SweepsFollow ==
  ASSUME NEW c, CallRight(c), NEW s \in 1 .. Sweeps(c)
  PROVE  /\ Sweeps(c) \in Nat \ {0, 1}
         /\ Sweep(c, s).check \in Names /\ Sweep(c, s).write \in Names
         /\ c.fn # "modtst" =>
              /\ Sweep(c, s).which = "all" /\ Left(Sweep(c, s)) \in {"p1", "p2"}
              /\ s = 1 => Sweep(c, s).check = "none" /\ Sweep(c, s).write = "p1" /\ ~Sweep(c, s).down
              /\ s > 1 => Sweep(c, s).check = Left(Sweep(c, s - 1))
              /\ c.fn = "movinv32" /\ Sweep(c, s).down => s > 1 /\ ~Sweep(c, s - 1).down
         /\ c.fn = "modtst" =>
              Sweep(c, s) = IF s = 1 THEN Nth("none", "p1") ELSE IF s < Sweeps(c) THEN Rest("none", "p2") ELSE Nth("p1", "none")
<1>1. c.fn \in Functions /\ c.iter \in Nat \ {0}
  BY DEF CallRight
<1>2. Sweeps(c) \in Nat \ {0, 1}
  BY <1>1 DEF Sweeps, Functions
<1>3. s \in Nat \ {0} /\ s - 1 \in Nat
  BY <1>2
<1>4. CASE c.fn \in {"movinv1", "movinv32"}
  <2>1. \A n : Sweep(c, n) = movinv1(n)
    BY <1>4 DEF Sweep
  <2>2. CASE s = 1
    <3>1. Sweep(c, s) = Up("none", "p1")
      BY <2>1, <2>2 DEF movinv1, Fill
    <3> QED BY <1>2, <1>3, <1>4, <2>2, <3>1, Shapes DEF Left, Names
  <2>3. CASE s > 1 /\ s % 2 = 0
    <3>1. Sweep(c, s) = Up("p1", "p2")
      BY <2>1, <2>3 DEF movinv1
    <3>2. Sweep(c, s - 1) = Up("none", "p1") \/ Sweep(c, s - 1) = Down("p2", "p1")
      BY <1>3, <2>1, <2>3 DEF movinv1, Fill
    <3> QED BY <1>2, <1>3, <1>4, <2>3, <3>1, <3>2, Shapes DEF Left, Names
  <2>4. CASE s > 1 /\ s % 2 = 1
    <3>1. Sweep(c, s) = Down("p2", "p1")
      BY <2>1, <2>4 DEF movinv1
    <3>2. Sweep(c, s - 1) = Up("p1", "p2")
      BY <1>3, <2>1, <2>4 DEF movinv1
    <3> QED BY <1>2, <1>3, <1>4, <2>4, <3>1, <3>2, Shapes DEF Left, Names
  <2> QED BY <1>3, <2>2, <2>3, <2>4
<1>5. CASE c.fn = "movinvr"
  <2>1. \A n : Sweep(c, n) = movinvr(n)
    BY <1>5 DEF Sweep
  <2>2. s \in {1, 2, 3}
    BY <1>5 DEF Sweeps
  <2>3. Sweep(c, 1) = Up("none", "p1") /\ Sweep(c, 2) = Up("p1", "p2") /\ Sweep(c, 3) = Up("p2", "p1")
    BY <2>1 DEF movinvr, Fill
  <2> QED BY <1>2, <1>5, <2>2, <2>3, Shapes DEF Left, Names
<1>6. CASE c.fn \in {"bit_fade", "addr_walk_own"}
  <2>1. s \in {1, 2}
    BY <1>6 DEF Sweeps
  <2>2. Sweep(c, 1) = Up("none", "p1") /\ Sweep(c, 2) = Up("p1", "none")
    BY <1>6 DEF Sweep, Fill
  <2> QED BY <1>2, <1>6, <2>1, <2>2, Shapes DEF Left, Names
<1>7. CASE c.fn = "march_c"
  <2>1. \A n : Sweep(c, n) = march_c(n)
    BY <1>7 DEF Sweep
  <2>2. march_c(1) = Up("none", "p1")
    BY DEF march_c, Fill
  <2>3. \A n \in Nat : n > 1 =>
          march_c(n) = CASE (n - 2) % 6 = 0 -> Up("p1", "p2")
                         [] (n - 2) % 6 = 1 -> Up("p2", "p1")
                         [] (n - 2) % 6 = 2 -> Up("p1", "none")
                         [] (n - 2) % 6 = 3 -> Down("p1", "p2")
                         [] (n - 2) % 6 = 4 -> Down("p2", "p1")
                         [] (n - 2) % 6 = 5 -> Down("p1", "none")
    BY DEF march_c
  <2>4. CASE s = 1
    BY <1>2, <1>7, <2>1, <2>2, <2>4, Shapes DEF Left, Names
  <2>5. CASE s > 1
    <3>1. Left(Sweep(c, s - 1)) = IF s = 2 THEN "p1" ELSE
            IF (s - 3) % 6 \in {0, 3} THEN "p2" ELSE "p1"
      <4>1. CASE s = 2
        BY <2>1, <2>2, <4>1, Shapes DEF Left
      <4>2. CASE s > 2
        <5>1. /\ s - 1 \in Nat /\ s - 1 > 1 /\ (s - 1) - 2 = s - 3 /\ (s - 3) % 6 \in 0 .. 5
          BY <1>3, <4>2
        <5>2. Left(Sweep(c, s - 1)) = Left(march_c(s - 1))
          BY <2>1
        <5>3. march_c(s - 1) =
                CASE (s - 3) % 6 = 0 -> Up("p1", "p2")
                  [] (s - 3) % 6 = 1 -> Up("p2", "p1")
                  [] (s - 3) % 6 = 2 -> Up("p1", "none")
                  [] (s - 3) % 6 = 3 -> Down("p1", "p2")
                  [] (s - 3) % 6 = 4 -> Down("p2", "p1")
                  [] (s - 3) % 6 = 5 -> Down("p1", "none")
          BY <2>3, <5>1
        <5> QED BY <4>2, <5>1, <5>2, <5>3, Shapes DEF Left
      <4> QED BY <1>3, <2>5, <4>1, <4>2
    <3>2. Sweep(c, s).check = IF (s - 2) % 6 \in {1, 4} THEN "p2" ELSE "p1"
      BY <1>3, <2>1, <2>3, <2>5, Shapes
    <3>3. (s - 2) % 6 \in {1, 4} <=> s # 2 /\ (s - 3) % 6 \in {0, 3}
      BY <1>3, <2>5
    <3>4. Sweep(c, s).which = "all" /\ Sweep(c, s).write \in Names /\ Left(Sweep(c, s)) \in {"p1", "p2"}
      BY <1>3, <2>1, <2>3, <2>5, Shapes DEF Left, Names
    <3> QED BY <1>2, <1>7, <2>5, <3>1, <3>2, <3>3, <3>4 DEF Names
  <2> QED BY <1>3, <2>4, <2>5
<1>8. CASE c.fn = "modtst"
  <2>1. Sweep(c, s) = modtst(s, Sweeps(c))
    BY <1>8 DEF Sweep
  <2> QED BY <1>2, <1>8, <2>1, Shapes DEF modtst, Names
<1> QED BY <1>1, <1>4, <1>5, <1>6, <1>7, <1>8 DEF Functions

-----------------------------------------------------------------------------
(* Remainders *)

\* Division of integers, also of negative ones.
LEMMA IntQuotient ==
  ASSUME NEW n \in Nat \ {0}, NEW q \in Int, NEW r \in 0 .. (n - 1)
  PROVE  (n * q + r) \div n = q /\ (n * q + r) % n = r
OBVIOUS

\* An integer is its quotient and its remainder.
LEMMA IntDivMod ==
  ASSUME NEW n \in Nat \ {0}, NEW x \in Int
  PROVE  x \div n \in Int /\ x % n \in 0 .. (n - 1) /\ x = n * (x \div n) + (x % n)
OBVIOUS

\* The remainders go around.
LEMMA ModStep ==
  ASSUME NEW n \in Nat \ {0}, NEW x \in Int
  PROVE  /\ x % n \in 0 .. (n - 1)
         /\ (x + 1) % n = (IF x % n = n - 1 THEN 0 ELSE (x % n) + 1)
         /\ (x - 1) % n = (IF x % n = 0 THEN n - 1 ELSE (x % n) - 1)
<1> DEFINE q == x \div n
           r == x % n
<1>1. q \in Int /\ r \in 0 .. (n - 1) /\ x = n * q + r
  BY IntDivMod
<1> HIDE DEF q, r
<1>2. n * (q + 1) = n * q + n /\ n * (q - 1) = n * q - n /\ n * q \in Int
  BY <1>1
<1>3. r = n - 1 => (x + 1) % n = 0
  <2>1. r = n - 1 => x + 1 = n * (q + 1) + 0
    BY <1>1, <1>2
  <2> QED BY <1>1, <2>1, IntQuotient
<1>4. r # n - 1 => (x + 1) % n = r + 1
  <2>1. r # n - 1 => x + 1 = n * q + (r + 1) /\ r + 1 \in 0 .. (n - 1)
    BY <1>1, <1>2
  <2> QED BY <1>1, <2>1, IntQuotient
<1>5. r = 0 => (x - 1) % n = n - 1
  <2>1. r = 0 => x - 1 = n * (q - 1) + (n - 1)
    BY <1>1, <1>2
  <2> QED BY <1>1, <2>1, IntQuotient
<1>6. r # 0 => (x - 1) % n = r - 1
  <2>1. r # 0 => x - 1 = n * q + (r - 1) /\ r - 1 \in 0 .. (n - 1)
    BY <1>1, <1>2
  <2> QED BY <1>1, <2>1, IntQuotient
<1>7. (x + 1) % n = (IF r = n - 1 THEN 0 ELSE r + 1)
  BY <1>3, <1>4
<1> QED BY <1>1, <1>5, <1>6, <1>7 DEF r

\* One before the remainder, and n further.
LEMMA ModFacts ==
  ASSUME NEW n \in Nat \ {0}, NEW x \in Int
  PROVE  /\ ((x % n) - 1) % n = (x - 1) % n
         /\ (x + n) % n = x % n
         /\ x \in 0 .. (n - 1) => x % n = x
<1> DEFINE q == x \div n
           r == x % n
<1>1. q \in Int /\ r \in 0 .. (n - 1) /\ x = n * q + r
  BY IntDivMod
<1> HIDE DEF q, r
<1>2. n * (q + 1) = n * q + n /\ n * q \in Int
  BY <1>1
<1>3. x + n = n * (q + 1) + r
  BY <1>1, <1>2
<1>4. (x + n) % n = r
  BY <1>1, <1>3, IntQuotient
<1>5. (x - 1) % n = IF r = 0 THEN n - 1 ELSE r - 1
  BY ModStep DEF r
<1>6. r % n = r
  BY <1>1, IntQuotient
<1>7. (r - 1) % n = IF r = 0 THEN n - 1 ELSE r - 1
  <2>1. r \in Int
    BY <1>1
  <2> QED BY <1>6, <2>1, ModStep
<1>8. ASSUME x \in 0 .. (n - 1) PROVE r = x
  BY <1>8 DEF r
<1> QED BY <1>4, <1>5, <1>7, <1>8 DEF r

\* Differences of multiples are multiples.
LEMMA ModMinus ==
  ASSUME NEW n \in Nat \ {0}, NEW x \in Int, NEW y \in Int, x % n = 0, y % n = 0
  PROVE  (x - y) % n = 0
<1> DEFINE q == x \div n
           t == y \div n
<1>1. q \in Int /\ t \in Int /\ x = n * q /\ y = n * t
  BY IntDivMod
<1> HIDE DEF q, t
<1>2. x - y = n * (q - t) + 0
  BY <1>1
<1> QED BY <1>1, <1>2, IntQuotient

\* A multiple is not small.
LEMMA ModSmall ==
  ASSUME NEW n \in Nat \ {0}, NEW x \in Nat \ {0}, x % n = 0
  PROVE  x >= n
<1>1. x < n => x % n = x
  BY ModFacts
<1> QED BY <1>1

-----------------------------------------------------------------------------
(* Where a sweep is *)

Current == Call(call)
CurrentSweep == Sweep(Call(call), sweep)

\* The pattern p1 of a call for word a of a slice that begins at b, and either pattern.
FirstValue(c, b, a) ==
  IF c.fn = "movinv32" THEN Rot(c, (c.off + a - b) % UL_SIZE)
  ELSE IF c.fn = "movinvr" THEN rand_function(a - b)
  ELSE IF c.fn = "addr_walk_own" THEN AddressWord(a) ELSE c.p1
Value(c, name, b, a) == IF name = "p1" THEN FirstValue(c, b, a) ELSE Not(FirstValue(c, b, a))

\* The words a sweep that is at word q has been to.
Visited(s, q, a) == IF s.down THEN a > q ELSE a < q

\* The edge the chunks begin from, and the one of the last chunk.
FirstEdge(s) == IF s.down THEN end - 1 ELSE start_p
Edge(s) == IF s.down THEN start_p ELSE end

\* march_c() has found an error in its last sweep and will forget it.
Failed(c) == Unchecked(c) /\ ret # ERR_SUCCESS

UpPlace == p >= start_p /\ p <= pe /\ (pc = "chunk" => p = pe)
NthPlace(c) ==
  p >= start_p /\ p < pe + MOD_SZ /\ (p - start_p) % MOD_SZ = c.off /\ (pc = "chunk" => p >= pe)
DownPlace(c) ==
  /\ pe < end /\ p >= pe - 1 /\ p < end
  /\ pc = "chunk" => p = pe - 1 \/ (p = pe /\ pe = end - 1) \/ Failed(c)
  /\ pe = start_p \/ (pe - start_p + 1) % PageWords = 0

Place(c, s) ==
  /\ pe \in start_p .. end /\ p \in Int
  /\ done \in BOOLEAN /\ (done <=> pe = Edge(s))
  /\ ~Chunked(c) => done \/ (pc = "chunk" /\ pe = FirstEdge(s))
  /\ Failed(c) => pc = "chunk" /\ done
  /\ s.down => DownPlace(c)
  /\ s.which = "nth" => NthPlace(c)
  /\ ~s.down /\ s.which # "nth" => UpPlace
  /\ s.which = "rest" => k = (p - start_p) % MOD_SZ

Carried(c, s) ==
  c.fn = "movinv32" =>
    /\ k = ((c.off + p - start_p) % UL_SIZE) + (IF s.down THEN 1 ELSE 0)
    /\ pat = Rot(c, (c.off + p - start_p) % UL_SIZE)

RetSoFar(c) ==
  /\ ret \in {ERR_SUCCESS, ERR_FAIL}
  /\ c.fn \notin {"movinv1", "movinv32"} => ret = ERR_SUCCESS \/ Failed(c)

PatternState ==
  item \in PatternItems /\ ~Returned =>
    /\ call \in 1 .. Calls /\ sweep \in 1 .. Sweeps(Current) /\ pc \in {"chunk", "words"}
    /\ Place(Current, CurrentSweep) /\ Carried(Current, CurrentSweep) /\ RetSoFar(Current)

-----------------------------------------------------------------------------
(* Facts of sweeps *)

\* Only modtst() leaves words out, and it goes up.
LEMMA SweepKinds ==
  ASSUME NEW c, CallRight(c), NEW s \in 1 .. Sweeps(c)
  PROVE  /\ Sweep(c, s).down \in BOOLEAN /\ Sweep(c, s).which \in {"all", "nth", "rest"}
         /\ Sweep(c, s).which # "all" => c.fn = "modtst" /\ ~Sweep(c, s).down
         /\ c.fn = "modtst" => Sweep(c, s).which # "all"
         /\ c.fn = "march_c" /\ s > 1 /\ (s - 2) % 6 = 5 =>
              Sweep(c, s).down /\ Sweep(c, s).check = "p1" /\ Sweep(c, s).write = "none"
<1>1. c.fn \in Functions /\ Sweeps(c) \in Nat /\ s \in Nat
  BY SweepsFollow DEF CallRight
<1>2. \A x, y : /\ Up(x, y).down \in BOOLEAN /\ Down(x, y).down \in BOOLEAN
                /\ Nth(x, y).down \in BOOLEAN /\ Rest(x, y).down \in BOOLEAN
  <2>1. \A x, y : Up(x, y).down = FALSE
    BY DEF Up
  <2>2. \A x, y : Down(x, y).down = TRUE
    BY DEF Up, Down
  <2>3. \A x, y : Nth(x, y).down = FALSE /\ Rest(x, y).down = FALSE
    BY DEF Up, Nth, Rest
  <2> QED BY <2>1, <2>2, <2>3
<1>3. CASE c.fn = "modtst"
  <2>1. Sweep(c, s) = Nth("none", "p1") \/ Sweep(c, s) = Rest("none", "p2") \/ Sweep(c, s) = Nth("p1", "none")
    BY <1>3, SweepsFollow
  <2> QED BY <1>2, <1>3, <2>1, Shapes
<1>4. CASE c.fn # "modtst"
  <2>1. Sweep(c, s).which = "all"
    BY <1>4, SweepsFollow
  <2>2. Sweep(c, s).down \in BOOLEAN
    <3>1. CASE c.fn \in {"movinv1", "movinv32"}
      BY <1>2, <3>1 DEF Sweep, movinv1, Fill
    <3>2. CASE c.fn = "movinvr"
      <4>1. s \in {1, 2, 3}
        BY <1>1, <3>2 DEF Sweeps
      <4> QED BY <1>2, <3>2, <4>1 DEF Sweep, movinvr, Fill
    <3>3. CASE c.fn \in {"bit_fade", "addr_walk_own"}
      BY <1>2, <3>3 DEF Sweep, Fill
    <3>4. CASE c.fn = "march_c"
      <4>1. (s - 2) % 6 \in 0 .. 5
        BY <1>1
      <4> QED BY <1>2, <3>4, <4>1 DEF Sweep, march_c, Fill
    <3> QED BY <1>1, <1>4, <3>1, <3>2, <3>3, <3>4 DEF Functions
  <2>3. c.fn = "march_c" /\ s > 1 /\ (s - 2) % 6 = 5 => Sweep(c, s) = Down("p1", "none")
    BY DEF Sweep, march_c
  <2> QED BY <1>4, <2>1, <2>2, <2>3, Shapes
<1> QED BY <1>3, <1>4

\* The lemma's facts of the current sweep.
LEMMA CurrentFacts ==
  ASSUME SliceRight, item \in PatternItems, call \in 1 .. Calls, sweep \in 1 .. Sweeps(Current)
  PROVE  /\ CallRight(Current) /\ Current.fn = FunctionOf(item)
         /\ call \in Nat /\ sweep \in Nat \ {0} /\ Calls \in Nat \ {0} /\ Sweeps(Current) \in Nat \ {0, 1}
         /\ CurrentSweep.down \in BOOLEAN /\ CurrentSweep.which \in {"all", "nth", "rest"}
         /\ CurrentSweep.which # "all" => Current.fn = "modtst" /\ ~CurrentSweep.down
         /\ Current.fn = "modtst" => CurrentSweep.which # "all"
         /\ Unchecked(Current) =>
              CurrentSweep.down /\ CurrentSweep.check = "p1" /\ CurrentSweep.write = "none"
         /\ start_p \in Nat /\ cnt \in Nat /\ cnt > 2 /\ cnt % PageWords = 0 /\ start_p % PageWords = 0
         /\ end = start_p + cnt
<1>1. CallRight(Current) /\ Current.fn = FunctionOf(item) /\ Calls \in Nat \ {0}
  BY CallFacts DEF Current
<1>2. start_p \in Nat /\ cnt \in Nat \ {0} /\ cnt % PageWords = 0 /\ start_p % PageWords = 0
  BY DEF SliceRight
<1>3. cnt > 2
  BY <1>2, ModSmall, SweepAssumption, AddressAssumption
<1>4. Sweeps(Current) \in Nat \ {0, 1}
  BY <1>1, SweepsFollow
<1>5. CurrentSweep = Sweep(Current, sweep)
  BY DEF CurrentSweep, Current
<1> QED BY <1>1, <1>2, <1>3, <1>4, <1>5, SweepKinds DEF Unchecked, end

\* The pattern a function has at hand is that of the current word.
LEMMA PatternIsValue ==
  ASSUME NEW c, CallRight(c), NEW s, Carried(c, s), NEW name
  PROVE  Pattern(c, name) = Value(c, name, start_p, p)
<1> DEFINE first == CASE c.fn = "movinv32" -> pat
                      [] c.fn = "movinvr" -> rand_function(p - start_p)
                      [] c.fn = "addr_walk_own" -> AddressWord(p)
                      [] OTHER -> c.p1
<1>1. Pattern(c, name) = IF name = "p1" THEN first ELSE Not(first)
  BY Zenon DEF Pattern
<1>2. first = FirstValue(c, start_p, p)
  <2>1. CASE c.fn = "movinv32"
    BY <2>1 DEF Carried, FirstValue
  <2>2. CASE c.fn = "movinvr"
    BY <2>2 DEF FirstValue
  <2>3. CASE c.fn = "addr_walk_own"
    BY <2>3 DEF FirstValue
  <2>4. CASE c.fn \notin {"movinv32", "movinvr", "addr_walk_own"}
    BY <2>4 DEF FirstValue
  <2> QED BY <2>1, <2>2, <2>3, <2>4
<1> HIDE DEF first
<1> QED BY <1>1, <1>2, Zenon DEF Value

-----------------------------------------------------------------------------
(* What a step of a sweep does *)

\* The comparison of the current word fails.
Bad(c, s) == s.check # "none" /\ Checks(c) /\ Load(mem, fault, p) # Value(c, s.check, start_p, p)

\* Every word the sweep is for has been visited.
SweepOver(c, s) ==
  \/ Failed(c)
  \/ \A a \in Slice : (s.which = "nth" => (a - start_p) % MOD_SZ = c.off) => Visited(s, p, a)

\* The edge of the chunk that comes next.
Span(c) == IF Chunked(c) THEN SPINSZ ELSE cnt
NextEdge(c, s) ==
  IF s.down THEN (IF pe - Span(c) <= start_p THEN start_p ELSE pe - Span(c))
            ELSE (IF pe + Span(c) >= end THEN end ELSE pe + Span(c))

Quiet(c, s) ==
  /\ UNCHANGED <<mem, call, sweep, p, k, pat, ret>>
  /\ \/ /\ pc = "chunk" /\ ~done /\ pc' = "words" /\ pe' = NextEdge(c, s)
        /\ done' = (NextEdge(c, s) = Edge(s))
     \/ pc = "words" /\ ~InChunk(s) /\ pc' = "chunk" /\ UNCHANGED <<pe, done>>
Visits(c, s) ==
  /\ pc = "words" /\ pc' = pc /\ p \in Slice /\ InChunk(s) /\ UNCHANGED <<call, sweep, pe, done>>
  /\ Bad(c, s) => ~StopsAtOnce(c)
  /\ ret' = IF Bad(c, s) THEN ERR_FAIL ELSE ret
  /\ mem' = IF s.write = "none" \/ Skipped(c, s) THEN mem
            ELSE Store(mem, fault, p, Value(c, s.write, start_p, p))
  /\ p' = IF s.down THEN p - 1 ELSE IF s.which = "nth" THEN p + MOD_SZ ELSE p + 1
  /\ IF s.which = "rest" THEN k' = (k + 1) % MOD_SZ /\ UNCHANGED pat ELSE NextPattern(c, s)
Detects(c, s) == p \in Slice /\ Bad(c, s) /\ StopsAtOnce(c) /\ Return(ERR_FAIL) /\ mem' = mem
Forgets(c, s) ==
  /\ pc = "words" /\ p \in Slice /\ Bad(c, s) /\ Unchecked(c) /\ ret' = ERR_FAIL
  /\ UNCHANGED <<mem, call, sweep, p, pe, k, pat>> /\ pc' = "chunk" /\ done' = TRUE
NextSweep(c, s) ==
  /\ sweep < Sweeps(c) /\ StartSweep(call, sweep + 1) /\ mem' = mem /\ SweepOver(c, s)
  /\ ret' = IF c.fn = "march_c" THEN ERR_SUCCESS ELSE ret
NextCall(c, s) ==
  /\ sweep = Sweeps(c) /\ ret = ERR_SUCCESS /\ call < Calls
  /\ StartSweep(call + 1, 1) /\ mem' = mem /\ ret' = ret /\ SweepOver(c, s)
Ends(c, s) ==
  /\ Return(ret) /\ mem' = mem
  /\ ret # ERR_SUCCESS \/ (sweep = Sweeps(c) /\ call = Calls /\ SweepOver(c, s))

PatternCase(c, s) ==
  \/ Quiet(c, s) \/ Visits(c, s) \/ Detects(c, s) \/ Forgets(c, s)
  \/ NextSweep(c, s) \/ NextCall(c, s) \/ Ends(c, s)

\* The word that is visited is a word of the slice.
LEMMA InSlice ==
  ASSUME SliceRight, item \in PatternItems, call \in 1 .. Calls, sweep \in 1 .. Sweeps(Current),
         Place(Current, CurrentSweep), pc = "words", InChunk(CurrentSweep)
  PROVE  p \in Slice
<1> DEFINE c == Current
           s == CurrentSweep
<1>1. /\ start_p \in Nat /\ cnt \in Nat /\ end = start_p + cnt /\ s.down \in BOOLEAN
      /\ s.which # "all" => ~s.down
  BY CurrentFacts
<1> HIDE DEF c, s
<1>2. Place(c, s) /\ InChunk(s)
  BY DEF c, s
<1>3. CASE s.down
  BY <1>1, <1>2, <1>3 DEF Place, DownPlace, InChunk, Slice
<1>4. CASE ~s.down
  BY <1>1, <1>2, <1>4 DEF Place, UpPlace, NthPlace, InChunk, Slice
<1> QED BY <1>1, <1>3, <1>4

\* A sweep is over when its last chunk is, or no chunk is left for the next word.
LEMMA OverWhenDone ==
  ASSUME SliceRight, item \in PatternItems, call \in 1 .. Calls, sweep \in 1 .. Sweeps(Current),
         Place(Current, CurrentSweep), pc = "chunk",
         done \/ (Chunked(Current) /\ p = NextEdge(Current, CurrentSweep))
  PROVE  SweepOver(Current, CurrentSweep)
<1> DEFINE c == Current
           s == CurrentSweep
           span == Span(c)
           next == NextEdge(c, s)
<1>1. /\ start_p \in Nat /\ cnt \in Nat /\ cnt > 2 /\ end = start_p + cnt /\ s.down \in BOOLEAN
      /\ s.which # "all" => ~s.down
      /\ cnt % PageWords = 0
  BY CurrentFacts
<1>2. Place(c, s)
  OBVIOUS
<1>3. /\ PageWords \in Nat \ {0} /\ PageWords > 2 /\ SPINSZ \in Nat \ {0} /\ SPINSZ >= PageWords
      /\ MOD_SZ \in Nat \ {0} /\ MOD_SZ <= SPINSZ
  BY ModSmall, SweepAssumption, AddressAssumption, PatternAssumption
<1>4. next = IF s.down THEN (IF pe - span <= start_p THEN start_p ELSE pe - span)
             ELSE (IF pe + span >= end THEN end ELSE pe + span)
  BY Zenon DEF NextEdge
<1>5. Chunked(c) => span = SPINSZ
  BY DEF Span
<1>7. done \/ (Chunked(c) /\ p = next)
  OBVIOUS
<1> HIDE DEF c, s, span, next
<1>6. pe \in start_p .. end /\ p \in Int /\ (done => pe = Edge(s)) /\ (~done => pe # Edge(s))
  BY <1>2 DEF Place
<1>8. ASSUME s.down PROVE SweepOver(c, s)
  <2>1. /\ p = pe - 1 \/ (p = pe /\ pe = end - 1) \/ Failed(c)
        /\ pe = start_p \/ (pe - start_p + 1) % PageWords = 0
    BY <1>1, <1>2, <1>6, <1>8 DEF Place, DownPlace
  <2>2. CASE done
    <3>1. pe = start_p
      BY <1>6, <1>8, <2>2 DEF Edge
    <3>2. p = pe - 1 \/ Failed(c)
      BY <1>1, <2>1, <3>1
    <3>3. p = pe - 1 => \A a \in Slice : Visited(s, p, a)
      BY <1>1, <1>6, <1>8, <3>1 DEF Slice, Visited
    <3> QED BY <3>2, <3>3 DEF SweepOver
  <2>3. CASE ~done
    <3>1. Chunked(c) /\ p = next /\ pe > start_p
      BY <1>1, <1>6, <1>7, <1>8, <2>3 DEF Edge
    <3>2. p = pe - 1 => FALSE
      <4>1. SUFFICES ASSUME p = pe - 1 PROVE FALSE
        OBVIOUS
      <4>2. pe = start_p + 1
        BY <1>1, <1>3, <1>4, <1>5, <1>6, <1>8, <3>1, <4>1
      <4>3. (pe - start_p + 1) % PageWords = 0 /\ pe - start_p + 1 = 2
        BY <1>1, <2>1, <4>2
      <4>4. 2 % PageWords = 2
        <5>1. 2 \in Int /\ 2 \in 0 .. (PageWords - 1)
          BY <1>3
        <5> QED BY <1>3, <5>1, ModFacts
      <4> QED BY <4>3, <4>4
    <3>3. p = pe /\ pe = end - 1 => FALSE
      BY <1>1, <1>3, <1>4, <1>5, <1>6, <1>8, <3>1
    <3> QED BY <2>1, <3>2, <3>3 DEF SweepOver
  <2> QED BY <2>2, <2>3
<1>9. ASSUME ~s.down /\ s.which # "nth" PROVE SweepOver(c, s)
  <2>1. p = pe /\ p >= start_p
    BY <1>2, <1>9 DEF Place, UpPlace
  <2>2. pe = end
    BY <1>1, <1>3, <1>4, <1>5, <1>6, <1>7, <1>9, <2>1 DEF Edge
  <2>3. \A a \in Slice : Visited(s, p, a)
    BY <1>1, <1>9, <2>1, <2>2 DEF Slice, Visited
  <2> QED BY <2>3 DEF SweepOver
<1>10. ASSUME s.which = "nth" PROVE SweepOver(c, s)
  <2>0. ~s.down
    BY <1>1, <1>10
  <2>1. p >= pe /\ p < pe + MOD_SZ
    BY <1>2, <1>10 DEF Place, NthPlace
  <2>2. p >= end
    BY <1>1, <1>3, <1>4, <1>5, <1>6, <1>7, <2>0, <2>1 DEF Edge
  <2>3. \A a \in Slice : Visited(s, p, a)
    BY <1>1, <1>6, <2>0, <2>2 DEF Slice, Visited
  <2> QED BY <2>3 DEF SweepOver
<1> QED BY <1>1, <1>8, <1>9, <1>10 DEF c, s

\* What a step of a pattern test does, by what it finds.
LEMMA PatternCases ==
  ASSUME SliceRight, PatternState, PatternNext
  PROVE  /\ item \in PatternItems /\ ~Returned /\ UNCHANGED arguments
         /\ PatternCase(Current, CurrentSweep)
<1> DEFINE c == Current
           s == CurrentSweep
<1>1. item \in PatternItems /\ ~Returned /\ UNCHANGED arguments
  BY DEF PatternNext, NextChunk, VisitWord, EndChunk, Returned
<1>2. /\ call \in 1 .. Calls /\ sweep \in 1 .. Sweeps(Current)
      /\ Place(Current, CurrentSweep) /\ Carried(Current, CurrentSweep) /\ RetSoFar(Current)
  BY <1>1 DEF PatternState
<1>3. /\ CallRight(c) /\ call \in Nat /\ sweep \in Nat /\ Calls \in Nat /\ Sweeps(c) \in Nat
      /\ start_p \in Nat /\ cnt \in Nat \ {0}
  BY <1>1, <1>2, CurrentFacts
<1>4. ASSUME NextChunk PROVE PatternCase(c, s)
  <2> DEFINE next == NextEdge(c, s)
  <2>1. /\ pc = "chunk" /\ mem' = mem
        /\ IF done \/ (Chunked(c) /\ p = next) THEN EndSweep
           ELSE /\ pc' = "words" /\ pe' = next /\ done' = (next = Edge(s))
                /\ UNCHANGED <<call, sweep, p, k, pat, mask, ret>>
    BY <1>4, Zenon DEF NextChunk, Current, CurrentSweep, NextEdge, Span, Edge
  <2>4. CASE done \/ (Chunked(c) /\ p = next)
    <3>1. SweepOver(c, s)
      BY <1>1, <1>2, <2>1, <2>4, OverWhenDone
    <3>2. EndSweep
      BY <2>1, <2>4
    <3> DEFINE n == Sweeps(c)
    <3>3. /\ sweep < n => StartSweep(call, sweep + 1) /\ ret' = IF c.fn = "march_c" THEN ERR_SUCCESS ELSE ret
          /\ sweep = n /\ ret = ERR_SUCCESS /\ call < Calls => StartSweep(call + 1, 1) /\ ret' = ret
          /\ ~(sweep < n) /\ ~(sweep = n /\ ret = ERR_SUCCESS /\ call < Calls) => Return(ret)
      <4>1. CASE sweep < n
        <5>1. ~(sweep = n)
          BY <1>3, <4>1
        <5>2. Sweeps(Call(call)) = n /\ Call(call) = c
          BY DEF Current
        <5> HIDE DEF n, c
        <5>3. StartSweep(call, sweep + 1) /\ ret' = IF c.fn = "march_c" THEN ERR_SUCCESS ELSE ret
          BY <3>2, <4>1, <5>1, <5>2, Zenon DEF EndSweep
        <5> QED BY <4>1, <5>1, <5>3
      <4>2. CASE ~(sweep < n)
        BY <3>2, <4>2, Zenon DEF EndSweep, Current
      <4> QED BY <4>1, <4>2
    <3>4. sweep < n \/ sweep = n
      BY <1>2, <1>3
    <3>5. call < Calls \/ call = Calls
      BY <1>2, <1>3
    <3> HIDE DEF c, s
    <3> QED BY <2>1, <3>1, <3>3, <3>4, <3>5, <1>1 DEF PatternCase, NextSweep, NextCall, Ends
  <2>5. CASE ~(done \/ (Chunked(c) /\ p = next))
    <3> HIDE DEF c, s
    <3>1. Quiet(c, s)
      BY <2>1, <2>5 DEF Quiet
    <3> QED BY <3>1 DEF PatternCase
  <2> QED BY <2>4, <2>5
<1>5. ASSUME VisitWord PROVE PatternCase(c, s)
  <2>1. pc = "words" /\ InChunk(s)
    BY <1>5 DEF VisitWord, Current, CurrentSweep
  <2>2. p \in Slice
    BY <1>1, <1>2, <2>1, InSlice
  <2>3. Pattern(c, s.check) = Value(c, s.check, start_p, p) /\ Pattern(c, s.write) = Value(c, s.write, start_p, p)
    BY <1>2, <1>3, PatternIsValue
  <2> DEFINE bad == s.check # "none" /\ Checks(c) /\ Load(mem, fault, p) # Pattern(c, s.check)
  <2>4. CASE bad /\ Unchecked(c)
           /\ pc' = "chunk" /\ done' = TRUE /\ ret' = ERR_FAIL
           /\ UNCHANGED <<mem, call, sweep, p, pe, k, pat, mask>>
    <3> HIDE DEF c, s
    <3> QED BY <1>1, <2>1, <2>2, <2>3, <2>4 DEF PatternCase, Forgets, Bad
  <2>5. CASE bad /\ StopsAtOnce(c) /\ Return(ERR_FAIL) /\ mem' = mem
    <3> HIDE DEF c, s
    <3> QED BY <1>1, <2>2, <2>3, <2>5 DEF PatternCase, Detects, Bad
  <2>6. CASE /\ ~(bad /\ Unchecked(c)) /\ ~(bad /\ StopsAtOnce(c) /\ ~Unchecked(c))
             /\ ret' = IF bad THEN ERR_FAIL ELSE ret
             /\ mem' = IF s.write = "none" \/ Skipped(c, s) THEN mem
                       ELSE Store(mem, fault, p, Pattern(c, s.write))
             /\ p' = IF s.down THEN p - 1 ELSE IF s.which = "nth" THEN p + MOD_SZ ELSE p + 1
             /\ IF s.which = "rest" THEN k' = (k + 1) % MOD_SZ /\ UNCHANGED pat ELSE NextPattern(c, s)
             /\ UNCHANGED <<pc, call, sweep, pe, done, mask>>
    <3>1. bad => ~StopsAtOnce(c)
      BY <2>6
    <3>2. bad <=> Bad(c, s)
      BY <2>3 DEF Bad
    <3> HIDE DEF c, s, bad
    <3>3. Visits(c, s)
      <4>1. ret' = IF Bad(c, s) THEN ERR_FAIL ELSE ret
        BY <2>6, <3>2
      <4>2. mem' = IF s.write = "none" \/ Skipped(c, s) THEN mem
                   ELSE Store(mem, fault, p, Value(c, s.write, start_p, p))
        BY <2>3, <2>6
      <4> QED BY <2>1, <2>2, <2>6, <3>1, <3>2, <4>1, <4>2 DEF Visits
    <3> QED BY <1>1, <3>3 DEF PatternCase
  <2> QED
    <3>1. \/ /\ bad /\ Unchecked(c)
             /\ pc' = "chunk" /\ done' = TRUE /\ ret' = ERR_FAIL
             /\ UNCHANGED <<mem, call, sweep, p, pe, k, pat, mask>>
          \/ bad /\ StopsAtOnce(c) /\ Return(ERR_FAIL) /\ mem' = mem
          \/ /\ ~(bad /\ Unchecked(c)) /\ ~(bad /\ StopsAtOnce(c) /\ ~Unchecked(c))
             /\ ret' = IF bad THEN ERR_FAIL ELSE ret
             /\ mem' = IF s.write = "none" \/ Skipped(c, s) THEN mem
                       ELSE Store(mem, fault, p, Pattern(c, s.write))
             /\ p' = IF s.down THEN p - 1 ELSE IF s.which = "nth" THEN p + MOD_SZ ELSE p + 1
             /\ IF s.which = "rest" THEN k' = (k + 1) % MOD_SZ /\ UNCHANGED pat ELSE NextPattern(c, s)
             /\ UNCHANGED <<pc, call, sweep, pe, done, mask>>
      BY <1>5, Zenon DEF VisitWord, Current, CurrentSweep
    <3> HIDE DEF c, s, bad
    <3> QED BY <2>4, <2>5, <2>6, <3>1
<1>6. ASSUME EndChunk PROVE PatternCase(c, s)
  <2>1. /\ pc = "words" /\ ~InChunk(s) /\ mem' = mem
        /\ \/ Return(ret) /\ ret # ERR_SUCCESS
           \/ pc' = "chunk" /\ UNCHANGED <<call, sweep, p, pe, done, k, pat, mask, ret>>
    BY <1>6 DEF EndChunk, Current, CurrentSweep
  <2> HIDE DEF c, s
  <2> QED BY <2>1 DEF PatternCase, Quiet, Ends
<1> QED BY <1>1, <1>4, <1>5, <1>6 DEF PatternNext

-----------------------------------------------------------------------------
(* Where the sweeps go *)

\* A number below the modulus is its own remainder.
LEMMA ModOfSmall ==
  ASSUME NEW n \in Nat \ {0}, NEW x \in 0 .. (n - 1)
  PROVE  x % n = x
BY ModFacts

\* A pattern that is rotated.
LEMMA Rotations ==
  ASSUME NEW c, c.sval \in {0, 1}, NEW j \in 0 .. (UL_SIZE - 1)
  PROVE  /\ ShiftLeft(Rot(c, 0), j, c.sval) = Rot(c, j)
         /\ j + 1 < UL_SIZE => ShiftLeft(Rot(c, j), 1, c.sval) = Rot(c, j + 1)
         /\ j > 0 => ShiftRight(Rot(c, j), c.sval) = Rot(c, j - 1)
<1>1. UL_SIZE \in Nat \ {0}
  BY WordAssumption
<1>2. ASSUME NEW i \in 0 .. (UL_SIZE - 1), NEW n \in Nat, i + n < UL_SIZE
      PROVE  ShiftLeft(Rot(c, i), n, c.sval) = Rot(c, i + n)
  <2>1. \A b \in Bits : (IF b < n THEN c.sval ELSE Rot(c, i)[b - n]) = (IF b = i + n THEN 1 - c.sval ELSE c.sval)
    <3>1. SUFFICES ASSUME NEW b \in Bits
                   PROVE  (IF b < n THEN c.sval ELSE Rot(c, i)[b - n]) = (IF b = i + n THEN 1 - c.sval ELSE c.sval)
      OBVIOUS
    <3>2. b \in Int /\ 0 <= b /\ b <= UL_SIZE - 1
      BY <1>1 DEF Bits
    <3>3. ~(b < n) => b - n \in Bits
      BY <1>1, <3>2 DEF Bits
    <3>4. ~(b < n) => Rot(c, i)[b - n] = IF b - n = i THEN 1 - c.sval ELSE c.sval
      BY <3>3 DEF Rot
    <3> QED BY <3>2, <3>4
  <2> QED BY <2>1, Zenon DEF ShiftLeft, Rot
<1>3. ASSUME j > 0 PROVE ShiftRight(Rot(c, j), c.sval) = Rot(c, j - 1)
  <2>1. \A b \in Bits :
          (IF b = UL_SIZE - 1 THEN c.sval ELSE Rot(c, j)[b + 1]) = (IF b = j - 1 THEN 1 - c.sval ELSE c.sval)
    <3>1. SUFFICES ASSUME NEW b \in Bits
                   PROVE  (IF b = UL_SIZE - 1 THEN c.sval ELSE Rot(c, j)[b + 1])
                            = (IF b = j - 1 THEN 1 - c.sval ELSE c.sval)
      OBVIOUS
    <3>2. b \in Int /\ 0 <= b /\ b <= UL_SIZE - 1
      BY <1>1 DEF Bits
    <3>3. b # UL_SIZE - 1 => b + 1 \in Bits
      BY <1>1, <3>2 DEF Bits
    <3>4. b # UL_SIZE - 1 => Rot(c, j)[b + 1] = IF b + 1 = j THEN 1 - c.sval ELSE c.sval
      BY <3>3 DEF Rot
    <3> QED BY <1>3, <3>2, <3>4
  <2> QED BY <2>1, Zenon DEF ShiftRight, Rot
<1>4. 0 \in 0 .. (UL_SIZE - 1) /\ 0 + j = j /\ j \in Nat
  BY <1>1
<1>5. ShiftLeft(Rot(c, 0), j, c.sval) = Rot(c, j)
  <2>1. 0 + j < UL_SIZE
    BY <1>1
  <2> QED BY <1>2, <1>4, <2>1
<1> QED BY <1>2, <1>3, <1>4, <1>5

\* A sweep begins before its first word.
LEMMA SweepBegins ==
  ASSUME SliceRight, item \in PatternItems, UNCHANGED arguments,
         NEW n \in 1 .. Calls, NEW t \in 1 .. Sweeps(Call(n)), StartSweep(n, t),
         ret' \in {ERR_SUCCESS, ERR_FAIL}, Call(n).fn \notin {"movinv1", "movinv32"} => ret' = ERR_SUCCESS,
         Sweep(Call(n), t).down /\ Call(n).fn = "movinv32" => k = (Call(n).off + cnt) % UL_SIZE
  PROVE  /\ PatternState'
         /\ Current' = Call(n) /\ CurrentSweep' = Sweep(Call(n), t) /\ pc' = "chunk"
         /\ Sweep(Call(n), t).which # "rest" =>
              \A a \in Slice : (Sweep(Call(n), t).which = "nth" => (a - start_p) % MOD_SZ = Call(n).off) =>
                                 ~Visited(Sweep(Call(n), t), p', a)
<1> DEFINE c == Call(n)
           s == Sweep(Call(n), t)
<1>1. item' = item /\ start_p' = start_p /\ cnt' = cnt /\ end' = end
  BY DEF arguments, end
<1>2. call' = n /\ sweep' = t /\ pc' = "chunk" /\ done' = FALSE
  BY DEF StartSweep
<1>3. Calls' = Calls
  BY <1>1, Zenon DEF Calls, Iter
<1>4. Current' = c /\ CurrentSweep' = s
  BY <1>1, <1>2, CallSame DEF Current, CurrentSweep
<1>30. c' = c /\ s' = s
  BY <1>1, CallSame
<1>5. CallRight(c)
  BY CallFacts
<1>6. /\ s.down \in BOOLEAN /\ s.which \in {"all", "nth", "rest"} /\ (s.which # "all" => c.fn = "modtst" /\ ~s.down)
  BY <1>5, SweepKinds
<1>7. /\ start_p \in Nat /\ cnt \in Nat /\ cnt > 2 /\ cnt % PageWords = 0 /\ end = start_p + cnt
  <2>1. start_p \in Nat /\ cnt \in Nat \ {0} /\ cnt % PageWords = 0
    BY DEF SliceRight
  <2> QED BY <2>1, ModSmall, SweepAssumption, AddressAssumption DEF end
<1>8. p' = (CASE s.down -> end - 1 [] s.which = "nth" -> start_p + c.off [] OTHER -> start_p)
  BY DEF StartSweep
<1>9. pe' = IF s.down THEN end - 1 ELSE start_p
  BY DEF StartSweep
<1>10. RestartPattern(c, t)
  BY DEF StartSweep
<1> DEFINE U == UL_SIZE
<1>11. UL_SIZE \in Nat \ {0} /\ MOD_SZ \in Nat \ {0}
  BY WordAssumption, PatternAssumption
<1>12. IF s.down THEN k' = ((k - 1) % UL_SIZE) + 1 /\ pat' = ShiftLeft(c.lb, (k - 1) % UL_SIZE, c.sval)
       ELSE k' = (IF c.fn = "movinv32" THEN c.off ELSE 0) /\ pat' = c.p1
  BY <1>10, Zenon DEF RestartPattern
<1>13. /\ c.fn \in Functions /\ c.off \in Nat /\ c.sval \in {0, 1}
       /\ c.fn = "movinv32" => c.off < UL_SIZE /\ c.p1 = Rot(c, c.off) /\ c.lb = Rot(c, 0)
       /\ c.fn = "modtst" => c.off < MOD_SZ
  BY <1>5 DEF CallRight
<1>14. s.down /\ c.fn = "movinv32" => k = (c.off + cnt) % UL_SIZE
  OBVIOUS
<1>15. c.fn \notin {"movinv1", "movinv32"} => ret' = ERR_SUCCESS
  OBVIOUS
<1>16. n \in 1 .. Calls /\ t \in 1 .. Sweeps(c)
  OBVIOUS
<1> HIDE DEF c, s
<1>17. p' = IF s.down THEN end - 1 ELSE IF s.which = "nth" THEN start_p + c.off ELSE start_p
  BY <1>6, <1>8
<1>18. pe' \in start_p .. end /\ p' \in Int /\ pe' = (IF s.down THEN end - 1 ELSE start_p)
       /\ pe' # (IF s.down THEN start_p ELSE end)
  BY <1>6, <1>7, <1>9, <1>13, <1>17
<1>19. (pe' = Edge(s)') = FALSE /\ pe' = FirstEdge(s)'
  BY <1>1, <1>18, <1>30 DEF Edge, FirstEdge
<1>20. ~Failed(c)'
  BY <1>15, <1>30 DEF Failed, Unchecked
<1>21. s.down => DownPlace(c)'
  BY <1>1, <1>7, <1>17, <1>18 DEF DownPlace
<1>22. s.which = "nth" => NthPlace(c)'
  <2>1. SUFFICES ASSUME s.which = "nth" PROVE NthPlace(c)'
    OBVIOUS
  <2>2. p' = start_p + c.off /\ pe' = start_p /\ c.off \in 0 .. (MOD_SZ - 1)
    BY <1>6, <1>11, <1>13, <1>17, <1>18, <2>1
  <2>3. c.off % MOD_SZ = c.off
    BY <1>11, <2>2, ModOfSmall
  <2>4. p' - start_p = c.off
    BY <1>7, <1>13, <2>2
  <2> QED BY <1>1, <1>7, <1>11, <1>30, <2>2, <2>3, <2>4 DEF NthPlace
<1>23. ~s.down /\ s.which # "nth" => UpPlace'
  BY <1>1, <1>7, <1>17, <1>18 DEF UpPlace
<1>24. s.which = "rest" => k' = (p' - start_p') % MOD_SZ
  <2>1. s.which = "rest" => k' = 0 /\ p' = start_p
    BY <1>6, <1>12, <1>17
  <2>2. 0 % MOD_SZ = 0 /\ start_p - start_p = 0
    BY <1>7, <1>11
  <2> QED BY <1>1, <2>1, <2>2
<1>25. Place(c, s)'
  BY <1>1, <1>2, <1>6, <1>18, <1>19, <1>20, <1>21, <1>22, <1>23, <1>24, <1>30 DEF Place
<1>26. Carried(c, s)'
  <2>1. SUFFICES ASSUME c.fn = "movinv32"
                 PROVE  /\ k' = ((c.off + p' - start_p) % UL_SIZE) + (IF s.down THEN 1 ELSE 0)
                        /\ pat' = Rot(c, (c.off + p' - start_p) % UL_SIZE)
    BY <1>1, <1>30 DEF Carried
  <2>2. s.which # "nth"
    BY <1>6, <2>1
  <2>3. CASE s.down
    <3> DEFINE x == c.off + cnt
    <3>1. x \in Int /\ c.off + p' - start_p = x - 1 /\ k = x % UL_SIZE
      BY <1>7, <1>13, <1>14, <1>17, <2>1, <2>3
    <3> HIDE DEF x
    <3>2. (k - 1) % UL_SIZE = (x - 1) % UL_SIZE
      BY <1>11, <3>1, ModFacts
    <3>3. (x - 1) % UL_SIZE \in 0 .. (UL_SIZE - 1)
      <4>1. x - 1 \in Int
        BY <3>1
      <4> QED BY <1>11, <4>1, ModStep
    <3>4. pat' = Rot(c, (x - 1) % UL_SIZE)
      BY <1>12, <1>13, <2>1, <2>3, <3>2, <3>3, Rotations
    <3> QED BY <1>12, <2>3, <3>1, <3>2, <3>4
  <2>4. CASE ~s.down
    <3>1. c.off + p' - start_p = c.off /\ c.off \in 0 .. (UL_SIZE - 1)
      BY <1>7, <1>11, <1>13, <1>17, <2>1, <2>2, <2>4
    <3>2. c.off % UL_SIZE = c.off
      BY <1>11, <3>1, ModOfSmall
    <3> QED BY <1>12, <1>13, <2>1, <2>4, <3>1, <3>2
  <2> QED BY <2>3, <2>4
<1>27. RetSoFar(c)'
  BY <1>15, <1>30 DEF RetSoFar
<1>28. PatternState'
  BY <1>2, <1>3, <1>4, <1>16, <1>25, <1>26, <1>27, <1>30 DEF PatternState
<1>29. s.which # "rest" =>
         \A a \in Slice : (s.which = "nth" => (a - start_p) % MOD_SZ = c.off) => ~Visited(s, p', a)
  <2>1. SUFFICES ASSUME s.which # "rest", NEW a \in Slice, s.which = "nth" => (a - start_p) % MOD_SZ = c.off
                 PROVE  ~Visited(s, p', a)
    OBVIOUS
  <2>2. a \in Int /\ start_p <= a /\ a <= end - 1
    BY <1>7 DEF Slice
  <2>3. s.which = "nth" => a >= start_p + c.off
    <3>1. a - start_p \in Nat
      BY <1>7, <2>2
    <3>2. a - start_p < MOD_SZ => (a - start_p) % MOD_SZ = a - start_p
      <4>1. a - start_p < MOD_SZ => a - start_p \in 0 .. (MOD_SZ - 1)
        BY <1>11, <3>1
      <4> QED BY <1>11, <4>1, ModOfSmall
    <3> QED BY <1>6, <1>7, <1>11, <1>13, <2>1, <2>2, <3>1, <3>2
  <2> QED BY <1>6, <1>7, <1>17, <2>2, <2>3 DEF Visited
<1> QED BY <1>2, <1>4, <1>28, <1>29 DEF c, s

\* A call has a sweep that fills and one that checks.
LEMMA SweepsCount ==
  ASSUME NEW c, CallRight(c)
  PROVE  Sweeps(c) \in Nat \ {0, 1}
BY DEF CallRight, Sweeps, Functions

\* The remainder of the next number.
LEMMA ModNext ==
  ASSUME NEW n \in Nat \ {0}, NEW x \in Int
  PROVE  ((x % n) + 1) % n = (x + 1) % n
<1>1. x % n \in 0 .. (n - 1) /\ (x + 1) % n = (IF x % n = n - 1 THEN 0 ELSE (x % n) + 1)
  BY ModStep
<1> DEFINE r == x % n
<1>2. r \in Int /\ r % n = r
  BY <1>1, ModOfSmall
<1> HIDE DEF r
<1>3. (r + 1) % n = (IF r = n - 1 THEN 0 ELSE r + 1)
  BY <1>2, ModStep
<1> QED BY <1>1, <1>3 DEF r

\* Within a sweep, what does not move stays right.
LEMMA SweepStays ==
  ASSUME PatternState, item \in PatternItems, ~Returned, UNCHANGED arguments, UNCHANGED <<call, sweep>>,
         pc' \in {"chunk", "words"}, Place(Current, CurrentSweep)', Carried(Current, CurrentSweep)',
         RetSoFar(Current)'
  PROVE  PatternState'
<1>1. item' = item
  BY DEF arguments
<1>2. Calls' = Calls /\ Current' = Current
  BY <1>1, CallSame, Zenon DEF Calls, Iter, Current
<1> QED BY <1>1, <1>2 DEF PatternState

\* The pattern is that of the next word.
LEMMA CarriedOn ==
  ASSUME NEW c, CallRight(c), NEW s, NEW t, s.down \in BOOLEAN, Carried(c, s), NextPattern(c, s), start_p' = start_p,
         start_p \in Nat, p \in Int, p' = IF s.down THEN p - 1 ELSE p + 1
  PROVE  c.fn = "movinv32" =>
           /\ k' = ((c.off + p' - start_p') % UL_SIZE) + (IF s.down THEN 1 ELSE 0)
           /\ pat' = Rot(c, (c.off + p' - start_p') % UL_SIZE)
<1> SUFFICES ASSUME c.fn = "movinv32"
             PROVE  /\ k' = ((c.off + p' - start_p') % UL_SIZE) + (IF s.down THEN 1 ELSE 0)
                    /\ pat' = Rot(c, (c.off + p' - start_p') % UL_SIZE)
  OBVIOUS
<1> DEFINE x == c.off + p - start_p
           j == x % UL_SIZE
<1>1. /\ UL_SIZE \in Nat \ {0} /\ c.off \in Nat /\ c.sval \in {0, 1}
      /\ c.lb = Rot(c, 0) /\ c.hb = Rot(c, UL_SIZE - 1)
  BY WordAssumption DEF CallRight
<1>2. x \in Int /\ c.off + p' - start_p' = IF s.down THEN x - 1 ELSE x + 1
  BY <1>1
<1>3. k = j + (IF s.down THEN 1 ELSE 0) /\ pat = Rot(c, j)
  BY DEF Carried
<1> HIDE DEF x
<1>4. /\ j \in 0 .. (UL_SIZE - 1)
      /\ (x + 1) % UL_SIZE = (IF j = UL_SIZE - 1 THEN 0 ELSE j + 1)
      /\ (x - 1) % UL_SIZE = (IF j = 0 THEN UL_SIZE - 1 ELSE j - 1)
  BY <1>1, <1>2, ModStep
<1> HIDE DEF j
<1>5. /\ j + 1 < UL_SIZE => ShiftLeft(Rot(c, j), 1, c.sval) = Rot(c, j + 1)
      /\ j > 0 => ShiftRight(Rot(c, j), c.sval) = Rot(c, j - 1)
  BY <1>1, <1>4, Rotations
<1>6. IF s.down
        THEN IF k - 1 <= 0 THEN k' = UL_SIZE /\ pat' = c.hb ELSE k' = k - 1 /\ pat' = ShiftRight(pat, c.sval)
        ELSE IF k + 1 >= UL_SIZE THEN k' = 0 /\ pat' = c.lb ELSE k' = k + 1 /\ pat' = ShiftLeft(pat, 1, c.sval)
  BY DEF NextPattern
<1>7. CASE s.down
  <2>1. CASE j = 0
    BY <1>1, <1>2, <1>3, <1>4, <1>6, <1>7, <2>1
  <2>2. CASE j # 0
    BY <1>1, <1>2, <1>3, <1>4, <1>5, <1>6, <1>7, <2>2
  <2> QED BY <2>1, <2>2
<1>8. CASE ~s.down
  <2>1. CASE j = UL_SIZE - 1
    BY <1>1, <1>2, <1>3, <1>4, <1>6, <1>8, <2>1
  <2>2. CASE j # UL_SIZE - 1
    BY <1>1, <1>2, <1>3, <1>4, <1>5, <1>6, <1>8, <2>2
  <2> QED BY <2>1, <2>2
<1> QED BY <1>7, <1>8

\* Every step of a pattern test keeps its place.
LEMMA PatternGoesOn ==
  ASSUME SliceRight, PatternState, PatternNext
  PROVE  PatternState'
<1> DEFINE c == Current
           s == CurrentSweep
<1>1. item \in PatternItems /\ ~Returned /\ UNCHANGED arguments /\ PatternCase(c, s)
  BY PatternCases
<1>2. /\ call \in 1 .. Calls /\ sweep \in 1 .. Sweeps(Current) /\ pc \in {"chunk", "words"}
      /\ Place(c, s) /\ Carried(c, s) /\ RetSoFar(c)
  BY <1>1 DEF PatternState
<1>3. /\ CallRight(c) /\ call \in Nat /\ sweep \in Nat \ {0} /\ Calls \in Nat \ {0} /\ Sweeps(c) \in Nat \ {0, 1}
      /\ s.down \in BOOLEAN /\ s.which \in {"all", "nth", "rest"}
      /\ s.which # "all" => c.fn = "modtst" /\ ~s.down
      /\ Unchecked(c) => s.down /\ s.check = "p1" /\ s.write = "none"
      /\ start_p \in Nat /\ cnt \in Nat /\ cnt > 2 /\ cnt % PageWords = 0 /\ end = start_p + cnt
  BY <1>1, <1>2, CurrentFacts
<1>4. item' = item /\ start_p' = start_p /\ cnt' = cnt /\ end' = end
  BY <1>1 DEF arguments, end
<1>5. /\ PageWords \in Nat \ {0} /\ PageWords > 2 /\ SPINSZ \in Nat \ {0} /\ SPINSZ % PageWords = 0
      /\ MOD_SZ \in Nat \ {0}
  BY SweepAssumption, AddressAssumption, PatternAssumption
<1>6. UNCHANGED <<call, sweep>> => c' = c /\ s' = s
  BY <1>4, CallSame DEF Current, CurrentSweep
<1>7. s = Sweep(c, sweep)
  BY DEF Current, CurrentSweep
<1>8. Unchecked(c) => c.fn = "march_c" /\ StopsAtOnce(c) /\ ~Chunked(c)
  BY DEF Unchecked, StopsAtOnce, Chunked
<1>9. /\ c.fn = "movinv32" => c.fn \notin {"modtst", "march_c"}
      /\ ~StopsAtOnce(c) => c.fn \in {"movinv1", "movinv32"}
  BY DEF StopsAtOnce
<1>10. Place(c, s)' /\ Carried(c, s)' /\ RetSoFar(c)' /\ UNCHANGED <<call, sweep>> /\ pc' \in {"chunk", "words"}
         => PatternState'
  BY <1>1, SweepStays
<1> HIDE DEF c, s
<1>11. CASE Quiet(c, s) /\ pc = "chunk"
  <2>1. /\ UNCHANGED <<call, sweep, p, k, pat, ret>> /\ ~done /\ pc' = "words"
        /\ pe' = NextEdge(c, s) /\ done' = (NextEdge(c, s) = Edge(s))
    BY <1>11 DEF Quiet
  <2>2. c' = c /\ s' = s
    BY <1>6, <2>1
  <2>3. ~Failed(c) /\ ~Failed(c)'
    BY <1>2, <2>1, <2>2 DEF Place, Failed, Unchecked
  <2>4. /\ pe \in start_p .. end /\ p \in Int /\ pe # Edge(s)
        /\ ~Chunked(c) => pe = FirstEdge(s)
        /\ s.down => DownPlace(c) /\ s.which = "all"
        /\ s.which = "nth" => NthPlace(c) /\ ~s.down
        /\ ~s.down /\ s.which # "nth" => UpPlace
        /\ s.which = "rest" => k = (p - start_p) % MOD_SZ
    BY <1>2, <1>3, <2>1 DEF Place
  <2> DEFINE next == NextEdge(c, s)
             span == Span(c)
  <2>5. next = IF s.down THEN (IF pe - span <= start_p THEN start_p ELSE pe - span)
               ELSE (IF pe + span >= end THEN end ELSE pe + span)
    BY Zenon DEF NextEdge
  <2>6. span \in Nat \ {0} /\ (~Chunked(c) => span = cnt) /\ (Chunked(c) => span = SPINSZ)
    BY <1>3, <1>5 DEF Span
  <2> HIDE DEF next, span
  <2>7. /\ next \in start_p .. end
        /\ s.down => next < pe /\ pe > start_p
        /\ ~s.down => next > pe
        /\ ~Chunked(c) => next = Edge(s)
    BY <1>3, <2>4, <2>5, <2>6 DEF Edge, FirstEdge
  <2>8. s.down => (next = start_p \/ (next - start_p + 1) % PageWords = 0)
    <3>1. SUFFICES ASSUME s.down, next # start_p PROVE (next - start_p + 1) % PageWords = 0
      OBVIOUS
    <3>2. next = pe - span /\ (pe - start_p + 1) % PageWords = 0
      BY <1>3, <2>4, <2>5, <2>7, <3>1 DEF DownPlace
    <3>3. span % PageWords = 0
      BY <1>3, <1>5, <2>6
    <3> DEFINE x == pe - start_p + 1
    <3>4. x \in Int /\ span \in Int /\ next - start_p + 1 = x - span
      BY <1>3, <2>4, <2>6, <3>2
    <3>5. x % PageWords = 0
      BY <3>2
    <3> HIDE DEF x
    <3> QED BY <1>5, <3>3, <3>4, <3>5, ModMinus
  <2>9. s.down => DownPlace(c)'
    BY <1>3, <1>4, <2>1, <2>3, <2>4, <2>7, <2>8 DEF DownPlace, next
  <2>10. s.which = "nth" => NthPlace(c)'
    BY <1>3, <1>4, <1>5, <2>1, <2>2, <2>4, <2>7 DEF NthPlace, next
  <2>11. ~s.down /\ s.which # "nth" => UpPlace'
    BY <1>3, <1>4, <2>1, <2>4, <2>7 DEF UpPlace, next
  <2>12. pe' \in start_p' .. end' /\ p' \in Int /\ done' \in BOOLEAN /\ (done' <=> pe' = Edge(s)')
    <3>1. Edge(s)' = Edge(s)
      BY <1>4, <2>2 DEF Edge
    <3> QED BY <1>4, <2>1, <2>4, <2>7, <3>1 DEF next
  <2>13. ~Chunked(c) => done'
    BY <2>1, <2>7 DEF next
  <2>14. Place(c, s)'
    BY <1>4, <2>1, <2>2, <2>3, <2>4, <2>9, <2>10, <2>11, <2>12, <2>13 DEF Place
  <2>15. Carried(c, s)' /\ RetSoFar(c)'
    BY <1>2, <1>4, <2>1, <2>2, <2>3 DEF Carried, RetSoFar, Failed, Unchecked
  <2> QED BY <1>10, <2>1, <2>14, <2>15
<1>12. CASE Quiet(c, s) /\ pc = "words"
  <2>1. UNCHANGED <<call, sweep, p, k, pat, ret, pe, done>> /\ pc' = "chunk" /\ ~InChunk(s)
    BY <1>12 DEF Quiet
  <2>2. c' = c /\ s' = s
    BY <1>6, <2>1
  <2>3. ~Failed(c) /\ ~Failed(c)'
    BY <1>2, <1>12, <2>1, <2>2 DEF Place, Failed, Unchecked
  <2>4. s.down => DownPlace(c)'
    BY <1>2, <1>3, <1>4, <2>1 DEF Place, DownPlace, InChunk
  <2>5. s.which = "nth" => NthPlace(c)'
    BY <1>2, <1>3, <1>4, <2>1, <2>2 DEF Place, NthPlace, InChunk
  <2>6. ~s.down /\ s.which # "nth" => UpPlace'
    BY <1>2, <1>3, <1>4, <2>1 DEF Place, UpPlace, InChunk
  <2>7. ~Chunked(c) => done'
    BY <1>2, <1>12, <2>1 DEF Place
  <2>8. Place(c, s)'
    BY <1>2, <1>4, <2>1, <2>2, <2>3, <2>4, <2>5, <2>6, <2>7 DEF Place, Edge
  <2>9. Carried(c, s)' /\ RetSoFar(c)'
    BY <1>2, <1>4, <2>1, <2>2, <2>3 DEF Carried, RetSoFar, Failed, Unchecked
  <2> QED BY <1>10, <2>1, <2>8, <2>9
<1>13. CASE Visits(c, s)
  <2>1. /\ UNCHANGED <<call, sweep, pe, done, pc>> /\ pc = "words" /\ InChunk(s) /\ (Bad(c, s) => ~StopsAtOnce(c))
        /\ ret' = IF Bad(c, s) THEN ERR_FAIL ELSE ret
        /\ p' = IF s.down THEN p - 1 ELSE IF s.which = "nth" THEN p + MOD_SZ ELSE p + 1
        /\ IF s.which = "rest" THEN k' = (k + 1) % MOD_SZ /\ UNCHANGED pat ELSE NextPattern(c, s)
    BY <1>13 DEF Visits
  <2>2. c' = c /\ s' = s
    BY <1>6, <2>1
  <2>3. ~Failed(c) /\ ~Failed(c)'
    <3>1. ~Failed(c)
      BY <1>2, <2>1 DEF Place
    <3>2. Unchecked(c)' <=> Unchecked(c)
      BY <2>1, <2>2 DEF Unchecked
    <3> QED BY <1>8, <2>1, <3>1, <3>2 DEF Failed
  <2>4. s.down => DownPlace(c)'
    BY <1>2, <1>3, <1>4, <2>1 DEF Place, DownPlace, InChunk
  <2>5. s.which = "nth" => NthPlace(c)'
    <3>1. SUFFICES ASSUME s.which = "nth" PROVE NthPlace(c)'
      OBVIOUS
    <3>2. ~s.down /\ p < pe /\ p \in Int /\ p >= start_p /\ (p - start_p) % MOD_SZ = c.off /\ pe \in Int
      BY <1>2, <1>3, <2>1, <3>1 DEF Place, NthPlace, InChunk
    <3>3. p' = p + MOD_SZ /\ p' - start_p' = (p - start_p) + MOD_SZ
      BY <1>3, <1>4, <1>5, <2>1, <3>1, <3>2
    <3>4. (p' - start_p') % MOD_SZ = c.off
      <4>1. p - start_p \in Int
        BY <1>3, <3>2
      <4> QED BY <1>5, <3>2, <3>3, <4>1, ModFacts
    <3> QED BY <1>3, <1>4, <1>5, <2>1, <2>2, <3>2, <3>3, <3>4 DEF NthPlace
  <2>6. ~s.down /\ s.which # "nth" => UpPlace'
    BY <1>2, <1>3, <1>4, <2>1 DEF Place, UpPlace, InChunk
  <2>7. ~Chunked(c) => done'
    BY <1>2, <2>1 DEF Place
  <2>8. s.which = "rest" => k' = (p' - start_p') % MOD_SZ
    <3>1. SUFFICES ASSUME s.which = "rest" PROVE k' = (p' - start_p') % MOD_SZ
      OBVIOUS
    <3>2. ~s.down /\ p' = p + 1 /\ k' = (k + 1) % MOD_SZ /\ k = (p - start_p) % MOD_SZ /\ p \in Int
      BY <1>2, <1>3, <2>1, <3>1 DEF Place
    <3> DEFINE x == p - start_p
    <3>3. x \in Int /\ p' - start_p' = x + 1
      BY <1>3, <1>4, <3>2
    <3> HIDE DEF x
    <3>4. ((x % MOD_SZ) + 1) % MOD_SZ = (x + 1) % MOD_SZ
      BY <1>5, <3>3, ModNext
    <3> QED BY <3>2, <3>3, <3>4 DEF x
  <2>9. p' \in Int
    BY <1>2, <1>5, <2>1 DEF Place
  <2>10. Place(c, s)'
    BY <1>2, <1>4, <2>1, <2>2, <2>3, <2>4, <2>5, <2>6, <2>7, <2>8, <2>9 DEF Place, Edge
  <2>11. Carried(c, s)'
    <3>1. SUFFICES ASSUME c.fn = "movinv32"
                   PROVE  /\ k' = ((c.off + p' - start_p') % UL_SIZE) + (IF s.down THEN 1 ELSE 0)
                          /\ pat' = Rot(c, (c.off + p' - start_p') % UL_SIZE)
      BY <2>2 DEF Carried
    <3>2. s.which = "all" /\ p' = (IF s.down THEN p - 1 ELSE p + 1) /\ NextPattern(c, s) /\ p \in Int
      BY <1>2, <1>3, <1>9, <2>1, <3>1 DEF Place
    <3> QED BY <1>2, <1>3, <1>4, <3>1, <3>2, CarriedOn
  <2>12. RetSoFar(c)'
    BY <1>2, <1>9, <2>1, <2>2, <2>3 DEF RetSoFar, Failed, Unchecked
  <2> QED BY <1>10, <2>1, <2>10, <2>11, <2>12
<1>14. CASE Forgets(c, s)
  <2>1. /\ Unchecked(c) /\ ret' = ERR_FAIL /\ UNCHANGED <<call, sweep, p, pe, k, pat>> /\ pc' = "chunk" /\ done' = TRUE
        /\ pc = "words"
    BY <1>2, <1>14 DEF Forgets
  <2>2. c' = c /\ s' = s
    BY <1>6, <2>1
  <2>3. done /\ s.down /\ c.fn = "march_c"
    BY <1>2, <1>3, <1>8, <2>1 DEF Place
  <2>4. Failed(c)'
    BY <2>1, <2>2 DEF Failed, Unchecked, ERR_FAIL, ERR_SUCCESS
  <2>5. DownPlace(c)'
    BY <1>2, <1>3, <1>4, <2>1, <2>3, <2>4 DEF Place, DownPlace
  <2>6. Place(c, s)'
    <3>1. s.which = "all"
      BY <1>3, <2>3
    <3> QED BY <1>2, <1>4, <2>1, <2>2, <2>3, <2>5, <3>1 DEF Place, Edge
  <2>7. Carried(c, s)' /\ RetSoFar(c)'
    BY <1>2, <1>4, <2>1, <2>2, <2>3, <2>4 DEF Carried, RetSoFar
  <2> QED BY <1>10, <2>1, <2>6, <2>7
<1>15. CASE NextSweep(c, s)
  <2>1. /\ sweep < Sweeps(c) /\ StartSweep(call, sweep + 1) /\ SweepOver(c, s)
        /\ ret' = IF c.fn = "march_c" THEN ERR_SUCCESS ELSE ret
    BY <1>15 DEF NextSweep
  <2> DEFINE t == sweep + 1
  <2>2. t \in 1 .. Sweeps(c) /\ t > 1 /\ t - 1 = sweep
    BY <1>3, <2>1
  <2> HIDE DEF t
  <2>3. ret' \in {ERR_SUCCESS, ERR_FAIL} /\ (c.fn \notin {"movinv1", "movinv32"} => ret' = ERR_SUCCESS)
    BY <1>2, <1>8, <2>1 DEF RetSoFar, Failed
  <2>4. Sweep(c, t).down /\ c.fn = "movinv32" => k = (c.off + cnt) % UL_SIZE
    <3>1. SUFFICES ASSUME Sweep(c, t).down, c.fn = "movinv32" PROVE k = (c.off + cnt) % UL_SIZE
      OBVIOUS
    <3>2. ~s.down /\ s.which # "nth"
      BY <1>3, <1>7, <1>9, <2>2, <3>1, SweepsFollow
    <3>3. ~Failed(c)
      BY <1>8, <1>9, <3>1 DEF Failed
    <3>4. \A a \in Slice : a < p
      BY <2>1, <3>2, <3>3 DEF SweepOver, Visited
    <3>5. p \in Int /\ p <= pe /\ pe \in start_p .. end
      BY <1>2, <3>2 DEF Place, UpPlace
    <3>6. end - 1 \in Slice
      BY <1>3 DEF Slice
    <3>7. p = end /\ c.off \in Nat
      BY <1>3, <3>4, <3>5, <3>6 DEF CallRight
    <3>8. c.off + p - start_p = c.off + cnt
      BY <1>3, <3>7
    <3>9. (c.off + p - start_p) % UL_SIZE \in Int
      BY <1>3, <3>7, WordAssumption
    <3> QED BY <1>2, <3>1, <3>2, <3>8, <3>9 DEF Carried
  <2>5. StartSweep(call, t) /\ Call(call) = c
    BY <2>1 DEF t, c, Current
  <2>6. PICK n \in 1 .. Calls : n = call
    BY <1>2
  <2>7. PICK u \in 1 .. Sweeps(c) : u = t
    BY <2>2
  <2>8. /\ Call(n) = c /\ StartSweep(n, u) /\ u \in 1 .. Sweeps(Call(n))
        /\ Call(n).fn \notin {"movinv1", "movinv32"} => ret' = ERR_SUCCESS
        /\ Sweep(Call(n), u).down /\ Call(n).fn = "movinv32" => k = (Call(n).off + cnt) % UL_SIZE
    BY <2>3, <2>4, <2>5, <2>6, <2>7
  <2> QED BY <1>1, <2>3, <2>8, SweepBegins
<1>16. CASE NextCall(c, s)
  <2>1. ret = ERR_SUCCESS /\ ret' = ret /\ call < Calls /\ StartSweep(call + 1, 1)
    BY <1>16 DEF NextCall
  <2>2. PICK n \in 1 .. Calls : n = call + 1
    BY <1>3, <2>1
  <2>3. CallRight(Call(n))
    BY <1>1, CallFacts
  <2>4. Sweeps(Call(n)) \in Nat \ {0, 1}
    BY <2>3, SweepsCount
  <2>5. 1 \in 1 .. Sweeps(Call(n))
    BY <2>4
  <2>6. Call(n).fn = "movinv32" => ~Sweep(Call(n), 1).down
    BY <2>3, <2>5, SweepsFollow
  <2>7. StartSweep(n, 1) /\ ret' = ERR_SUCCESS
    BY <2>1, <2>2
  <2> QED BY <1>1, <2>5, <2>6, <2>7, SweepBegins
<1>17. CASE Detects(c, s) \/ Ends(c, s)
  BY <1>17 DEF Detects, Ends, Return, PatternState, Returned
<1> QED
  <2>1. Quiet(c, s) => pc = "chunk" \/ pc = "words"
    BY DEF Quiet
  <2> QED BY <1>1, <1>11, <1>12, <1>13, <1>14, <1>15, <1>16, <1>17, <2>1 DEF PatternCase

\* A pattern test begins at its first word.
LEMMA PatternBegins ==
  ASSUME Init
  PROVE  PatternState
<1> SUFFICES ASSUME item \in PatternItems PROVE PatternState
  BY DEF PatternState
<1> DEFINE c == Call(1)
           s == Sweep(Call(1), 1)
<1>1. SliceRight
  BY MemInit DEF MemIInv
<1>2. CallRight(c) /\ 1 \in 1 .. Calls /\ c.fn = FunctionOf(item)
  <2>1. Calls \in Nat \ {0}
    <3>1. Calls \in Nat \ {0} \/ ~(1 \in 1 .. Calls)
      BY CallFacts
    <3>2. item \in 1 .. 11
      BY DEF PatternItems, MEM_ADD_OWN_ADDRESS, MEM_MOVE_INVER_ONES_ZERO, MEM_MOVE_INVER_8BIT,
             MEM_MOVE_INVER_RANDOM, MEM_MOVE_INVER_32BIT, MEM_RANDOM_NUM_SEQUENCE, MEM_MODULO,
             MEM_MARCH_C_TEST, MEM_BIT_FADE_TEST
    <3>3. Iter \in Nat \ {0}
      BY <3>2, IterationAssumption DEF Iter, Items, MEM_ADD_WALK_ONES, MEM_BIT_FADE_TEST
    <3>4. 2 * BYTE_BITS \in Nat \ {0} /\ 2 * UL_SIZE \in Nat \ {0} /\ 2 * MOD_SZ * Iter \in Nat \ {0}
      BY <3>3, WordAssumption, PatternAssumption
    <3> QED BY <3>3, <3>4 DEF Calls, PatternItems
  <2> QED BY <2>1, CallFacts
<1>3. 1 \in 1 .. Sweeps(c) /\ Sweeps(c) \in Nat \ {0, 1}
  BY <1>2, SweepsCount
<1>4. /\ call = 1 /\ sweep = 1 /\ pc = "chunk" /\ pat = c.p1
      /\ p = start_p + (IF s.which = "nth" THEN c.off ELSE 0)
      /\ k = (IF item = MEM_MOVE_INVER_32BIT THEN c.off ELSE 0)
      /\ pe = start_p /\ done = FALSE /\ ret = ERR_SUCCESS
  <2>1. Started /\ pe = start_p /\ done = FALSE /\ ret = ERR_SUCCESS
    BY DEF Init
  <2>2. item \notin {MEM_ADD_WALK_ONES, MEM_RANDOM_ADDRESS, MEM_BLOCK_MOVE} \cup CacheItems
    BY ItemsApart
  <2>3. /\ call = 1 /\ sweep = 1 /\ pc = "chunk" /\ pat = Call(1).p1
        /\ p = start_p + (IF Sweep(Call(1), 1).which = "nth" THEN Call(1).off ELSE 0)
        /\ k = (IF item = MEM_MOVE_INVER_32BIT THEN Call(1).off ELSE 0)
    BY <2>1, ItemsApart, Zenon DEF Started
  <2> QED BY <2>1, <2>3
<1>5. /\ c.fn \in Functions /\ c.off \in Nat
      /\ c.fn = "movinv32" => c.off < UL_SIZE /\ c.p1 = Rot(c, c.off)
      /\ c.fn = "modtst" => c.off < MOD_SZ
      /\ c.fn = "movinv32" => item = MEM_MOVE_INVER_32BIT
      /\ c.fn = "modtst" => item # MEM_MOVE_INVER_32BIT
      /\ item = MEM_MOVE_INVER_32BIT => c.fn = "movinv32"
  <2>1. /\ c.fn = "movinv32" => item = MEM_MOVE_INVER_32BIT
        /\ item = MEM_MOVE_INVER_32BIT => c.fn = "movinv32"
    BY <1>2 DEF FunctionOf, MEM_ADD_OWN_ADDRESS, MEM_MOVE_INVER_ONES_ZERO, MEM_MOVE_INVER_8BIT,
             MEM_MOVE_INVER_RANDOM, MEM_MOVE_INVER_32BIT, MEM_RANDOM_NUM_SEQUENCE, MEM_MODULO,
             MEM_MARCH_C_TEST, MEM_BIT_FADE_TEST
  <2> QED BY <1>2, <2>1 DEF CallRight
<1>6. /\ ~s.down /\ (s.which = "all" \/ (s.which = "nth" /\ c.fn = "modtst"))
  <2>1. c.fn # "modtst" => ~s.down /\ s.which = "all"
    BY <1>2, <1>3, SweepsFollow
  <2>2. c.fn = "modtst" => s = Nth("none", "p1")
    BY <1>2, <1>3, SweepsFollow
  <2> QED BY <2>1, <2>2, Shapes
<1>7. start_p \in Nat /\ cnt \in Nat \ {0} /\ end = start_p + cnt
      /\ MOD_SZ \in Nat \ {0} /\ UL_SIZE \in Nat \ {0}
  BY <1>1, PatternAssumption, WordAssumption DEF SliceRight, end
<1>8. Current = c /\ CurrentSweep = s
  BY <1>4 DEF Current, CurrentSweep
<1> HIDE DEF c, s
<1>9. Place(c, s)
  <2>1. pe # end /\ pe \in start_p .. end /\ p \in Int /\ pe = FirstEdge(s) /\ Edge(s) = end
    BY <1>4, <1>5, <1>6, <1>7 DEF FirstEdge, Edge
  <2>2. s.which = "nth" => NthPlace(c)
    <3>1. s.which = "nth" => c.off \in 0 .. (MOD_SZ - 1) /\ p - start_p = c.off
      BY <1>4, <1>5, <1>6, <1>7
    <3>2. s.which = "nth" => c.off % MOD_SZ = c.off
      BY <1>7, <3>1, ModOfSmall
    <3> QED BY <1>4, <1>5, <1>7, <3>1, <3>2 DEF NthPlace
  <2>3. s.which # "nth" => UpPlace
    BY <1>4, <1>7 DEF UpPlace
  <2> QED BY <1>4, <1>6, <2>1, <2>2, <2>3 DEF Place, Failed
<1>10. Carried(c, s)
  <2>1. SUFFICES ASSUME c.fn = "movinv32" PROVE Carried(c, s)
    BY DEF Carried
  <2>2. p = start_p /\ k = c.off /\ c.off \in 0 .. (UL_SIZE - 1)
    BY <1>4, <1>5, <1>6, <1>7, <2>1
  <2>3. c.off + p - start_p = c.off /\ c.off % UL_SIZE = c.off
    BY <1>7, <2>2, ModOfSmall
  <2> QED BY <1>4, <1>5, <1>6, <2>1, <2>2, <2>3 DEF Carried
<1>11. RetSoFar(c)
  BY <1>4 DEF RetSoFar
<1> QED BY <1>2, <1>3, <1>4, <1>8, <1>9, <1>10, <1>11 DEF PatternState
-----------------------------------------------------------------------------
(* A good memory: the sweeps *)

\* Every word has what the sweep before left there, or what this one does.
GoodWords(m, c, s, q) ==
  \A a \in Slice :
    LET name == IF Visited(s, q, a) THEN Left(s) ELSE s.check IN
    name # "none" => m[a] = Value(c, name, start_p, a)

\* modtst() has its pattern in each MOD_SZ-th word.
GoodModulo(m, c, t, q) ==
  \A a \in Slice : (a - start_p) % MOD_SZ = c.off /\ (t > 1 \/ a < q) => m[a] = c.p1

GoodPattern ==
  item \in PatternItems /\ fault = NoFault =>
    /\ ret = ERR_SUCCESS
    /\ ~Returned => IF Current.fn = "modtst" THEN GoodModulo(mem, Current, sweep, p)
                                             ELSE GoodWords(mem, Current, CurrentSweep, p)

\* A good memory keeps what is stored.
LEMMA GoodMemory ==
  ASSUME fault = NoFault, NEW m, NEW a
  PROVE  /\ Load(m, fault, a) = m[a] /\ \A w : Store(m, fault, a, w) = [m EXCEPT ![a] = w]
         /\ CellOf(fault, a) = a
<1>1. /\ fault.kind # "line" /\ fault.kind # "stuck" /\ fault.kind # "transition" /\ fault.kind # "coupling"
  BY DEF NoFault
<1>2. CellOf(fault, a) = a
  BY <1>1 DEF CellOf
<1>3. Load(m, fault, a) = m[a]
  BY <1>1, <1>2, Zenon DEF Load
<1>4. ASSUME NEW w PROVE Store(m, fault, a, w) = [m EXCEPT ![a] = w]
  <2>1. Kept(m, fault, a, w) = w /\ ~Disturbs(m, fault, a, w)
    BY <1>1 DEF Kept, Disturbs
  <2> QED BY <1>2, <2>1, Zenon DEF Store
<1> QED BY <1>2, <1>3, <1>4

\* A sweep finds what the one before it left, and so on.
LEMMA GoodPatternStep ==
  ASSUME SliceRight, PatternState, GoodPattern, PatternNext
  PROVE  GoodPattern'
<1> DEFINE c == Current
           s == CurrentSweep
<1>1. item \in PatternItems /\ ~Returned /\ UNCHANGED arguments /\ PatternCase(c, s)
  BY PatternCases
<1>2. /\ call \in 1 .. Calls /\ sweep \in 1 .. Sweeps(Current) /\ Place(c, s)
  BY <1>1 DEF PatternState
<1>3. /\ CallRight(c) /\ call \in Nat /\ sweep \in Nat \ {0} /\ Calls \in Nat \ {0} /\ Sweeps(c) \in Nat \ {0, 1}
      /\ s.down \in BOOLEAN /\ s.which \in {"all", "nth", "rest"}
      /\ s.which # "all" => c.fn = "modtst" /\ ~s.down
      /\ c.fn = "modtst" => s.which # "all"
      /\ start_p \in Nat /\ cnt \in Nat /\ end = start_p + cnt
  BY <1>1, <1>2, CurrentFacts
<1>4. item' = item /\ start_p' = start_p /\ fault' = fault /\ Slice' = Slice
  BY <1>1 DEF arguments, end, Slice
<1> SUFFICES ASSUME fault = NoFault PROVE GoodPattern'
  BY <1>4 DEF GoodPattern
<1>5. /\ ret = ERR_SUCCESS
      /\ IF c.fn = "modtst" THEN GoodModulo(mem, c, sweep, p) ELSE GoodWords(mem, c, s, p)
  BY <1>1 DEF GoodPattern
<1>6. UNCHANGED <<call, sweep>> => Current' = c /\ CurrentSweep' = s
  BY <1>4, CallSame DEF Current, CurrentSweep
<1>7. s = Sweep(c, sweep)
  BY DEF Current, CurrentSweep
<1>8. c.fn # "modtst" => s.which = "all" /\ Left(s) \in {"p1", "p2"} /\ s.check \in Names
  BY <1>2, <1>3, <1>7, SweepsFollow DEF Current
<1>9. c.fn = "modtst" => s = IF sweep = 1 THEN Nth("none", "p1")
                              ELSE IF sweep < Sweeps(c) THEN Rest("none", "p2") ELSE Nth("p1", "none")
  BY <1>2, <1>3, <1>7, SweepsFollow DEF Current
<1>10. /\ Load(mem, fault, p) = mem[p]
       /\ \A w : Store(mem, fault, p, w) = [mem EXCEPT ![p] = w]
  BY GoodMemory
<1>11. DOMAIN mem = Addresses /\ Slice \subseteq Addresses /\ (\A a \in Slice : a \in Int)
  BY <1>3 DEF SliceRight, Slice
<1>12. p \in Int /\ (s.which = "nth" => (p - start_p) % MOD_SZ = c.off)
       /\ (s.which = "rest" => k = (p - start_p) % MOD_SZ)
  BY <1>2 DEF Place, NthPlace
<1>13. ret' = ERR_SUCCESS /\ ~Returned' /\ (IF Current.fn = "modtst" THEN GoodModulo(mem, Current, sweep, p)
                                             ELSE GoodWords(mem, Current, CurrentSweep, p))' => GoodPattern'
  BY DEF GoodPattern
<1>14. ret' = ERR_SUCCESS /\ Returned' => GoodPattern'
  BY DEF GoodPattern
<1>15. c = Current /\ s = CurrentSweep
  OBVIOUS
<1>16. sweep \in 1 .. Sweeps(c) /\ c = Call(call)
  BY <1>2 DEF Current
<1> HIDE DEF c, s
<1>17. p \in Slice => ~Bad(c, s)
  <2>1. SUFFICES ASSUME p \in Slice, s.check # "none" PROVE mem[p] = Value(c, s.check, start_p, p)
    BY <1>10 DEF Bad
  <2>2. CASE c.fn = "modtst"
    <3>1. s = Nth("p1", "none") /\ sweep > 1
      BY <1>2, <1>3, <1>9, <2>1, <2>2, Shapes
    <3>2. s.which = "nth" /\ s.check = "p1"
      BY <3>1, Shapes
    <3>3. mem[p] = c.p1
      BY <1>5, <1>12, <2>1, <2>2, <3>1, <3>2 DEF GoodModulo
    <3> QED BY <2>2, <3>2, <3>3 DEF Value, FirstValue
  <2>3. CASE c.fn # "modtst"
    <3>1. ~Visited(s, p, p)
      BY <1>12 DEF Visited
    <3>2. GoodWords(mem, c, s, p)
      BY <1>5, <2>3
    <3> QED BY <2>1, <3>1, <3>2, Zenon DEF GoodWords
  <2> QED BY <2>2, <2>3
<1>18. CASE Quiet(c, s)
  <2>1. UNCHANGED <<mem, call, sweep, p, ret>> /\ ~Returned'
    BY <1>18 DEF Quiet, Returned
  <2> QED BY <1>4, <1>5, <1>6, <1>13, <1>15, <2>1 DEF GoodModulo, GoodWords
<1>19. CASE Visits(c, s)
  <2>1. /\ p \in Slice /\ UNCHANGED <<call, sweep>> /\ ret' = ERR_SUCCESS /\ ~Returned'
        /\ mem' = IF s.write = "none" \/ Skipped(c, s) THEN mem
                  ELSE [mem EXCEPT ![p] = Value(c, s.write, start_p, p)]
        /\ p' = IF s.down THEN p - 1 ELSE IF s.which = "nth" THEN p + MOD_SZ ELSE p + 1
    BY <1>5, <1>10, <1>17, <1>19 DEF Visits, Returned
  <2>2. Current' = c /\ CurrentSweep' = s
    BY <1>6, <2>1
  <2>3. \A a \in Slice : a # p => mem'[a] = mem[a]
    BY <1>11, <2>1
  <2>4. CASE c.fn = "modtst"
    <3>1. SUFFICES ASSUME NEW a \in Slice, (a - start_p) % MOD_SZ = c.off, sweep > 1 \/ a < p' PROVE mem'[a] = c.p1
      BY <1>4, <1>13, <1>15, <2>1, <2>2, <2>4 DEF GoodModulo
    <3>2. GoodModulo(mem, c, sweep, p)
      BY <1>5, <2>4
    <3>3. CASE sweep = 1
      <4>1. s.which = "nth" /\ s.write = "p1" /\ ~s.down
        BY <1>9, <2>4, <3>3, Shapes
      <4>2. a < p + MOD_SZ
        BY <2>1, <3>1, <3>3, <4>1
      <4>3. mem'[p] = c.p1
        <5>1. ~Skipped(c, s)
          BY <4>1 DEF Skipped
        <5>2. Value(c, s.write, start_p, p) = c.p1
          BY <2>4, <4>1 DEF Value, FirstValue
        <5> QED BY <1>11, <2>1, <4>1, <5>1, <5>2
      <4>4. a < p \/ a = p
        <5>1. SUFFICES ASSUME a > p PROVE FALSE
          BY <1>11, <1>12
        <5>2. MOD_SZ \in Nat \ {0} /\ a - p \in 1 .. (MOD_SZ - 1)
          BY <1>11, <1>12, <4>2, <5>1, PatternAssumption
        <5> DEFINE x == a - start_p
                   y == p - start_p
        <5>3. x \in Int /\ y \in Int /\ x % MOD_SZ = c.off /\ y % MOD_SZ = c.off /\ x - y = a - p
          BY <1>3, <1>11, <1>12, <3>1, <4>1
        <5> HIDE DEF x, y
        <5>4. x = MOD_SZ * (x \div MOD_SZ) + c.off /\ y = MOD_SZ * (y \div MOD_SZ) + c.off
              /\ x \div MOD_SZ \in Int /\ y \div MOD_SZ \in Int
          BY <5>2, <5>3, IntDivMod
        <5> DEFINE d == (x \div MOD_SZ) - (y \div MOD_SZ)
        <5>5. d \in Int /\ x - y = MOD_SZ * d + 0
          <6> DEFINE u == x \div MOD_SZ
                     v == y \div MOD_SZ
          <6>1. u \in Int /\ v \in Int /\ x = MOD_SZ * u + c.off /\ y = MOD_SZ * v + c.off /\ c.off \in Int
            BY <1>3, <5>4 DEF CallRight
          <6> HIDE DEF u, v
          <6>2. x - y = MOD_SZ * (u - v)
            BY <5>2, <6>1
          <6>3. MOD_SZ * (u - v) \in Int
            BY <5>2, <6>1
          <6> QED BY <6>1, <6>2, <6>3 DEF u, v
        <5>6. (x - y) % MOD_SZ = 0
          BY <5>2, <5>5, IntQuotient
        <5>7. (x - y) % MOD_SZ = x - y
          BY <5>2, <5>3, ModOfSmall
        <5> QED BY <5>2, <5>3, <5>6, <5>7
      <4> QED BY <2>3, <3>1, <3>2, <4>3, <4>4 DEF GoodModulo
    <3>4. CASE sweep # 1
      <4>1. sweep > 1
        BY <1>3, <3>4
      <4>2. mem[a] = c.p1
        BY <3>1, <3>2, <4>1 DEF GoodModulo
      <4>3. a = p => mem' = mem
        <5>1. s = Rest("none", "p2") \/ s = Nth("p1", "none")
          BY <1>9, <2>4, <3>4
        <5>2. s.write = "none" \/ s.which = "rest"
          BY <5>1, Shapes
        <5>3. a = p /\ s.which = "rest" => Skipped(c, s)
          BY <1>12, <3>1 DEF Skipped
        <5> QED BY <2>1, <5>2, <5>3
      <4> QED BY <2>3, <4>2, <4>3
    <3> QED BY <3>3, <3>4
  <2>5. CASE c.fn # "modtst"
    <3>1. s.which = "all" /\ ~Skipped(c, s) /\ p' = IF s.down THEN p - 1 ELSE p + 1
      BY <1>8, <2>1, <2>5 DEF Skipped
    <3>2. GoodWords(mem, c, s, p)
      BY <1>5, <2>5
    <3>3. GoodWords(mem', c, s, p')
      <4>1. SUFFICES ASSUME NEW a \in Slice,
                            (IF Visited(s, p', a) THEN Left(s) ELSE s.check) # "none"
                     PROVE  mem'[a] = Value(c, IF Visited(s, p', a) THEN Left(s) ELSE s.check, start_p, a)
        BY Zenon DEF GoodWords
      <4>2. CASE a # p
        <5>1. Visited(s, p', a) <=> Visited(s, p, a)
          BY <1>3, <1>11, <1>12, <3>1, <4>2 DEF Visited
        <5>2. mem[a] = Value(c, IF Visited(s, p, a) THEN Left(s) ELSE s.check, start_p, a)
          BY <3>2, <4>1, <5>1, Zenon DEF GoodWords
        <5> QED BY <2>3, <4>2, <5>1, <5>2
      <4>3. CASE a = p
        <5>1. Visited(s, p', p) /\ ~Visited(s, p, p)
          BY <1>3, <1>12, <3>1 DEF Visited
        <5>2. mem'[p] = Value(c, Left(s), start_p, p)
          <6>1. CASE s.write = "none"
            <7>1. Left(s) = s.check /\ s.check # "none" /\ mem' = mem
              BY <1>8, <2>1, <2>5, <6>1 DEF Left
            <7>2. mem[p] = Value(c, s.check, start_p, p)
              BY <2>1, <3>2, <5>1, <7>1, Zenon DEF GoodWords
            <7> QED BY <7>1, <7>2
          <6>2. CASE s.write # "none"
            BY <1>11, <2>1, <3>1, <6>2 DEF Left
          <6> QED BY <6>1, <6>2
        <5> QED BY <4>3, <5>1, <5>2
      <4> QED BY <4>2, <4>3
    <3> QED BY <1>4, <1>13, <1>15, <2>1, <2>2, <2>5, <3>3 DEF GoodWords
  <2> QED BY <2>4, <2>5
<1>20. CASE Detects(c, s) \/ Forgets(c, s)
  BY <1>17, <1>20 DEF Detects, Forgets
<1>21. CASE NextSweep(c, s)
  <2>1. /\ sweep < Sweeps(c) /\ StartSweep(call, sweep + 1) /\ SweepOver(c, s) /\ mem' = mem
        /\ ret' = IF c.fn = "march_c" THEN ERR_SUCCESS ELSE ret
    BY <1>21 DEF NextSweep
  <2> DEFINE t == sweep + 1
             new == Sweep(c, t)
  <2>2. t \in 1 .. Sweeps(c) /\ t > 1 /\ t - 1 = sweep
    BY <1>3, <2>1
  <2> HIDE DEF t
  <2>3. ~Failed(c)
    BY <1>5 DEF Failed
  <2>4. StartSweep(call, t)
    BY <2>1 DEF t
  <2>5. call' = call /\ sweep' = t /\ pc' = "chunk"
    BY <2>4 DEF StartSweep
  <2>6. Current' = c /\ CurrentSweep' = new
    <3>1. Call(call)' = Call(call)
      BY <1>4, <2>5, CallSame
    <3> QED BY <1>15, <1>16, <2>5, <3>1 DEF Current, CurrentSweep
  <2>7. c.fn # "modtst" => new.check = Left(s)
    BY <1>3, <1>7, <2>2, SweepsFollow
  <2>8. c.fn # "modtst" => \A a \in Slice : ~Visited(new, p', a) /\ Visited(s, p, a)
    <3>1. SUFFICES ASSUME c.fn # "modtst", NEW a \in Slice PROVE ~Visited(new, p', a) /\ Visited(s, p, a)
      OBVIOUS
    <3>2. Visited(s, p, a)
      BY <1>8, <2>1, <2>3, <3>1 DEF SweepOver
    <3>3. new.which = "all" /\ new.down \in BOOLEAN
      BY <1>3, <2>2, <3>1, SweepKinds, SweepsFollow
    <3>4. p' = (CASE new.down -> end - 1 [] new.which = "nth" -> start_p + c.off [] OTHER -> start_p)
      BY <1>16, <2>4 DEF StartSweep
    <3> HIDE DEF new
    <3>5. p' = IF new.down THEN end - 1 ELSE start_p
      BY <3>3, <3>4
    <3> QED BY <1>3, <3>1, <3>2, <3>3, <3>5 DEF Visited, Slice
  <2> HIDE DEF new
  <2>9. CASE c.fn = "modtst"
    <3>1. GoodModulo(mem, c, sweep, p)
      BY <1>5, <2>9
    <3>2. sweep = 1 => \A a \in Slice : (a - start_p) % MOD_SZ = c.off => a < p
      <4>1. sweep = 1 => s.which = "nth" /\ ~s.down
        BY <1>9, <2>9, Shapes
      <4> QED BY <2>1, <2>3, <4>1 DEF SweepOver, Visited
    <3>3. GoodModulo(mem', c, t, p')
      BY <1>3, <2>1, <2>2, <3>1, <3>2 DEF GoodModulo
    <3> QED BY <1>4, <1>5, <1>13, <1>15, <2>1, <2>5, <2>6, <2>9, <3>3 DEF GoodModulo, Returned
  <2>10. CASE c.fn # "modtst"
    <3>1. GoodWords(mem, c, s, p)
      BY <1>5, <2>10
    <3>2. GoodWords(mem', c, new, p')
      <4>1. SUFFICES ASSUME NEW a \in Slice,
                            (IF Visited(new, p', a) THEN Left(new) ELSE new.check) # "none"
                     PROVE  mem'[a] = Value(c, IF Visited(new, p', a) THEN Left(new) ELSE new.check, start_p, a)
        BY Zenon DEF GoodWords
      <4>2. ~Visited(new, p', a) /\ Visited(s, p, a) /\ new.check = Left(s)
        BY <2>7, <2>8, <2>10
      <4>3. mem[a] = Value(c, Left(s), start_p, a)
        BY <3>1, <4>1, <4>2, Zenon DEF GoodWords
      <4> QED BY <2>1, <4>2, <4>3
    <3> QED BY <1>4, <1>5, <1>13, <1>15, <2>1, <2>5, <2>6, <2>10, <3>2 DEF GoodWords, Returned
  <2> QED BY <2>9, <2>10
<1>22. CASE NextCall(c, s)
  <2>1. ret' = ret /\ call < Calls /\ StartSweep(call + 1, 1)
    BY <1>22 DEF NextCall
  <2>2. PICK n \in 1 .. Calls : n = call + 1
    BY <1>3, <2>1
  <2> DEFINE d == Call(n)
             new == Sweep(Call(n), 1)
  <2>3. CallRight(d)
    BY <1>1, CallFacts
  <2>4. 1 \in 1 .. Sweeps(d)
    BY <2>3, SweepsCount
  <2>5. d.fn # "modtst" => ~new.down /\ new.check = "none" /\ new.which = "all"
    BY <2>3, <2>4, SweepsFollow
  <2>6. d.fn = "modtst" => new.which = "nth" /\ ~new.down
    <3>1. d.fn = "modtst" => new = Nth("none", "p1")
      BY <2>3, <2>4, SweepsFollow
    <3> QED BY <3>1, Shapes
  <2>7. StartSweep(n, 1) /\ ret' \in {ERR_SUCCESS, ERR_FAIL} /\ ret' = ERR_SUCCESS
    BY <1>5, <2>1, <2>2
  <2>8. /\ Current' = d /\ CurrentSweep' = new /\ pc' = "chunk" /\ sweep' = 1
        /\ \A a \in Slice : (new.which = "nth" => (a - start_p) % MOD_SZ = d.off) => ~Visited(new, p', a)
    <3>1. new.which # "rest"
      BY <2>5, <2>6
    <3>2. new.down /\ d.fn = "movinv32" => k = (d.off + cnt) % UL_SIZE
      BY <2>5
    <3>3. sweep' = 1
      BY <2>7 DEF StartSweep
    <3> QED BY <1>1, <2>4, <2>7, <3>1, <3>2, <3>3, SweepBegins
  <2> HIDE DEF d, new
  <2>9. CASE d.fn = "modtst"
    <3>1. GoodModulo(mem', d, 1, p')
      BY <2>6, <2>8, <2>9 DEF GoodModulo, Visited
    <3> QED BY <1>4, <1>13, <2>7, <2>8, <2>9, <3>1 DEF GoodModulo, Returned
  <2>10. CASE d.fn # "modtst"
    <3>1. GoodWords(mem', d, new, p')
      BY <2>5, <2>8, <2>10 DEF GoodWords
    <3> QED BY <1>4, <1>13, <2>7, <2>8, <2>10, <3>1 DEF GoodWords, Returned
  <2> QED BY <2>9, <2>10
<1>23. CASE Ends(c, s)
  <2>1. ret' = ret /\ Returned'
    BY <1>23 DEF Ends, Return, Returned
  <2> QED BY <1>5, <1>14, <2>1
<1> QED BY <1>1, <1>15, <1>18, <1>19, <1>20, <1>21, <1>22, <1>23 DEF PatternCase, c, s

-----------------------------------------------------------------------------
(* Types *)

Places == {"chunk", "words", "walk", "bank", "fillup", "flip", "verify", "blocks", "move",
           "check", "memset", "carry", "rdwr_fill", "rdwr", "rand_fill", "comp", "returned"}
Results == ERR_SUCCESS .. (IF item \in CacheItems THEN ERR_CACHE_RAND_DATA ELSE ERR_FAIL)

\* The carry of the block move is a bit, the cache tests work over zeros and over ones.
Locals ==
  /\ mem \in Memories /\ pc \in Places /\ ret \in Results /\ pat \in Words /\ done \in BOOLEAN
  /\ call \in Nat /\ sweep \in Nat /\ k \in Nat /\ mask \in Nat /\ p \in Int /\ pe \in Int
  /\ item = MEM_BLOCK_MOVE => mask \in {0, 1}
  /\ item \in {CPU_CACHE_WALKING, CPU_CACHE_STUCK} => call \in {1, 2}

MemTypes == fault \in Faults /\ no_comp \in NoComps /\ Locals

\* The type invariant follows from the types and the slice.
LEMMA TypesFollow == SliceRight /\ MemTypes => TypeOK
BY DEF SliceRight, MemTypes, Locals, TypeOK, Memories, Places, Results

\* A load of a word of the slice, and a store of a word anywhere.
LEMMA SliceLoad ==
  ASSUME SliceRight, fault \in Faults, NEW m \in Memories, NEW a \in Slice
  PROVE  CellOf(fault, a) \in Addresses /\ Load(m, fault, a) \in Words
<1>1. CellOf(fault, a) \in Addresses
  BY DEF SliceRight, SliceFaults
<1> QED BY <1>1, LoadTyped

\* What complementing a word leaves, if there is no such cell: nothing.
LEMMA ComplementTyped ==
  ASSUME fault \in Faults, NEW m \in Memories, NEW a
  PROVE  Store(m, fault, a, Not(Load(m, fault, a))) \in Memories
<1> DEFINE c == CellOf(fault, a)
           w == Not(Load(m, fault, a))
<1>1. CASE c \in Addresses
  <2>1. w \in Words
    BY <1>1, LoadTyped, WordFacts
  <2> QED BY <2>1, StoreTyped
<1>2. CASE c \notin Addresses
  <2>1. ~Disturbs(m, fault, c, w)
    BY <1>2, FaultKinds DEF Disturbs
  <2>2. Store(m, fault, a, w) = [m EXCEPT ![c] = Kept(m, fault, c, w)]
    BY <2>1, Zenon DEF Store
  <2> HIDE DEF c
  <2>3. [m EXCEPT ![c] = Kept(m, fault, c, w)] = m
    BY <1>2 DEF Memories
  <2> QED BY <2>2, <2>3
<1> QED BY <1>1, <1>2

\* The patterns of a call are words.
LEMMA ValueTyped ==
  ASSUME NEW c, CallRight(c), NEW b \in Int, NEW a \in Addresses, NEW name
  PROVE  Value(c, name, b, a) \in Words
<1>1. a \in Int
  BY WordAssumption
<1>2. FirstValue(c, b, a) \in Words
  <2>1. rand_function(a - b) \in Words
    BY <1>1, WordFacts
  <2>2. AddressWord(a) \in Words
    BY FaultAssumption
  <2> QED BY <2>1, <2>2, RotIsWord DEF CallRight, FirstValue
<1> QED BY <1>2, WordFacts DEF Value

\* A pattern of random data: its bytes are bytes of the patterns in store.
LEMMA RandomDataTyped ==
  ASSUME NEW n \in 0 .. (Len(g_pat) - 1)
  PROVE  rand_function_a(n) \in Words
<1> DEFINE B == BYTE_BITS
           W == UL_SIZE \div BYTE_BITS
           L == Len(g_pat)
<1>1. B \in Nat \ {0} /\ UL_SIZE \in Nat \ {0} /\ UL_SIZE % B = 0 /\ B <= UL_SIZE
  BY PatternAssumption, WordAssumption, CacheAssumption
<1>2. W \in Nat /\ UL_SIZE = B * W
  <2>1. UL_SIZE \in Int
    BY <1>1
  <2>2. UL_SIZE = BYTE_BITS * (UL_SIZE \div BYTE_BITS) + (UL_SIZE % BYTE_BITS)
    <3>1. BYTE_BITS \in Nat \ {0}
      BY <1>1
    <3>2. \A d \in Nat \ {0}, x \in Int : x = d * (x \div d) + (x % d)
      BY IntDivMod, Zenon
    <3> QED BY <2>1, <3>1, <3>2, Zenon
  <2>3. UL_SIZE \div BYTE_BITS \in Nat
    BY <1>1
  <2> QED BY <1>1, <2>2, <2>3
<1>3. g_pat \in Seq(Words) /\ L \in Nat /\ n \in Nat /\ n <= L - 1
  BY CacheAssumption
<1>4. \A b \in Bits : g_pat[1 + (n + b \div B) \div W][((n + b \div B) % W) * B + (b % B)] \in {0, 1}
  <2>1. SUFFICES ASSUME NEW b \in Bits
                 PROVE  g_pat[1 + (n + b \div B) \div W][((n + b \div B) % W) * B + (b % B)] \in {0, 1}
    OBVIOUS
  <2> HIDE DEF B, W, L
  <2>2. W # 0
    BY <1>1, <1>2
  <2> DEFINE q == b \div B
             r == b % B
  <2>3. b \in Nat /\ b < UL_SIZE /\ q \in Nat /\ r \in 0 .. (B - 1) /\ b = B * q + r
    <3>1. b \in Nat /\ b < UL_SIZE
      BY <1>1 DEF Bits
    <3>2. b \in Int /\ B \in Nat \ {0}
      BY <1>1, <3>1
    <3>4. q \in Int /\ r \in 0 .. (B - 1) /\ b = B * q + r
      BY <3>2, IntDivMod
    <3>3. q \in Nat
      BY <1>1, <3>1
    <3> QED BY <3>1, <3>4, <3>3
  <2> HIDE DEF q, r
  <2>4. q <= W - 1
    <3>1. SUFFICES ASSUME q >= W PROVE FALSE
      BY <1>2, <2>3
    <3>2. B * q >= B * W
      BY <1>1, <1>2, <2>3, <3>1
    <3> QED BY <1>1, <1>2, <2>3, <3>2
  <2> DEFINE x == n + q
             u == x \div W
             v == x % W
  <2>5. x \in Nat /\ u \in Nat /\ v \in 0 .. (W - 1) /\ x = W * u + v
    <3>1. x \in Nat
      BY <1>3, <2>3
    <3>4. x \in Int /\ W \in Nat \ {0}
      BY <1>2, <2>2, <3>1
    <3> HIDE DEF x
    <3>2. u \in Int /\ v \in 0 .. (W - 1) /\ x = W * u + v
      BY <3>4, IntDivMod
    <3>3. u \in Nat
      BY <1>2, <2>2, <3>1
    <3> QED BY <3>1, <3>2, <3>3
  <2>6. x <= L - 1 + W - 1
    BY <1>2, <1>3, <2>3, <2>4
  <2> HIDE DEF x, u, v
  <2>7. u <= L - 1
    <3>1. SUFFICES ASSUME u >= L PROVE FALSE
      BY <1>3, <2>5
    <3>2. W * u >= W * L
      BY <1>2, <1>3, <2>5, <3>1
    <3> DEFINE d == L - 1
               e == W - 1
    <3>3. d \in Nat /\ e \in Nat /\ L = d + 1 /\ W = e + 1
      BY <1>2, <1>3, <2>2
    <3> HIDE DEF d, e
    <3>4. W * L = e * d + e + d + 1 /\ e * d \in Nat
      BY <3>3
    <3>5. W * u \in Nat
      BY <1>2, <2>5
    <3> QED BY <1>2, <1>3, <2>5, <2>6, <3>2, <3>3, <3>4, <3>5
  <2>8. v * B + r \in Bits
    <3>1. v * B + r \in Nat
      BY <1>1, <1>2, <2>3, <2>5
    <3>2. v * B <= (W - 1) * B
      BY <1>1, <1>2, <2>5
    <3>3. (W - 1) * B = B * W - B
      BY <1>1, <1>2
    <3>4. v * B \in Nat /\ B * W \in Nat
      BY <1>1, <1>2, <2>5
    <3> QED BY <1>1, <1>2, <2>3, <3>1, <3>2, <3>3, <3>4 DEF Bits
  <2>9. g_pat[1 + u] \in Words
    BY <1>3, <2>5, <2>7 DEF L
  <2>10. g_pat[1 + u][v * B + r] \in {0, 1}
    BY <2>8, <2>9 DEF Words
  <2> QED BY <2>10 DEF u, v, x, q, r
<1>5. rand_function_a(n) =
        [b \in Bits |-> g_pat[1 + (n + b \div BYTE_BITS) \div (UL_SIZE \div BYTE_BITS)]
                             [((n + b \div BYTE_BITS) % (UL_SIZE \div BYTE_BITS)) * BYTE_BITS + (b % BYTE_BITS)]]
  BY Zenon DEF rand_function_a, WordBytes
<1> QED BY <1>4, <1>5 DEF Words
-----------------------------------------------------------------------------
\* The types hold initially.
LEMMA TypesBegin == Init => MemTypes
<1> SUFFICES ASSUME Init PROVE MemTypes
  OBVIOUS
<1>1. item \in Items \cup CacheItems /\ fault \in Faults /\ Started /\ SliceRight
  BY MemInit DEF Init, MemIInv
<1>2. mem \in Memories
  BY FaultAssumption DEF Init, Memories
<1>3. no_comp \in NoComps
  BY FaultAssumption DEF Init
<1>4. start_p \in Nat
  BY <1>1 DEF SliceRight
<1>5. pe = start_p /\ done = FALSE /\ mask = 0 /\ ret = ERR_SUCCESS
  BY DEF Init
<1>6. ret \in Results
  BY <1>5 DEF Results, ERR_SUCCESS, ERR_FAIL, ERR_CACHE_RAND_DATA
<1>7. call = 1 /\ sweep \in {0, 1} /\ pc \in Places /\ p \in Int /\ k \in Nat /\ pat \in Words
  <2>1. CASE item \in PatternItems
    <3>1. PatternState
      BY PatternBegins
    <3>2. /\ call = 1 /\ sweep = 1 /\ pc = "chunk" /\ pat = Call(1).p1
          /\ k = (IF item = MEM_MOVE_INVER_32BIT THEN Call(1).off ELSE 0)
      BY <1>1, <2>1, ItemsApart, Zenon DEF Started
    <3>3. 1 \in 1 .. Calls /\ p \in Int
      BY <2>1, <3>1, <3>2 DEF PatternState, Place, Returned
    <3>4. CallRight(Call(1))
      BY <2>1, <3>3, CallFacts
    <3> QED BY <3>2, <3>3, <3>4 DEF CallRight, Places
  <2>2. CASE item = MEM_ADD_WALK_ONES
    <3>1. call = 1 /\ sweep = 0 /\ pc = "bank" /\ p = start_p /\ k = 0 /\ pat = Filled(1)
      BY <1>1, <2>2, ItemsApart, Zenon DEF Started
    <3> QED BY <1>4, <3>1, WordFacts DEF Places
  <2>3. CASE item = MEM_RANDOM_ADDRESS
    <3>1. call = 1 /\ sweep = 0 /\ pc = "fillup" /\ p = start_p /\ k = 0 /\ pat = Filled(0)
      BY <1>1, <2>3, ItemsApart, Zenon DEF Started
    <3> QED BY <1>4, <3>1, WordFacts DEF Places
  <2>4. CASE item = MEM_BLOCK_MOVE
    <3>1. call = 1 /\ sweep = 0 /\ pc = "blocks" /\ p = start_p /\ k = 0 /\ pat = Filled(0)
      BY <1>1, <2>4, ItemsApart, Zenon DEF Started
    <3> QED BY <1>4, <3>1, WordFacts DEF Places
  <2>5. CASE item \in CacheItems
    <3>1. /\ call = 1 /\ sweep = 0 /\ p = start_p /\ k = 0 /\ pat = Filled(0)
          /\ pc = (CASE item = CPU_CACHE_RDWR -> "rdwr_fill"
                     [] item = CPU_CACHE_RANDOM_DATA -> "rand_fill"
                     [] OTHER -> "memset")
      BY <1>1, <2>5, ItemsApart, Zenon DEF Started
    <3>2. pc \in {"rdwr_fill", "rand_fill", "memset"}
      BY <3>1
    <3> QED BY <1>4, <3>1, <3>2, WordFacts DEF Places
  <2> QED BY <1>1, <2>1, <2>2, <2>3, <2>4, <2>5
    DEF Items, PatternItems, MEM_ADD_WALK_ONES, MEM_ADD_OWN_ADDRESS, MEM_RANDOM_ADDRESS, MEM_MOVE_INVER_ONES_ZERO,
       MEM_MOVE_INVER_8BIT, MEM_MOVE_INVER_RANDOM, MEM_BLOCK_MOVE, MEM_MOVE_INVER_32BIT,
       MEM_RANDOM_NUM_SEQUENCE, MEM_MODULO, MEM_MARCH_C_TEST, MEM_BIT_FADE_TEST
<1>8. item = MEM_BLOCK_MOVE => mask \in {0, 1}
  BY <1>5
<1>9. item \in {CPU_CACHE_WALKING, CPU_CACHE_STUCK} => call \in {1, 2}
  BY <1>7
<1>11. done \in BOOLEAN
  BY <1>5, Zenon
<1>10. sweep \in Nat /\ call \in Nat /\ mask \in Nat /\ pe \in Int
  BY <1>4, <1>5, <1>7
<1> QED BY <1>1, <1>2, <1>3, <1>6, <1>7, <1>8, <1>9, <1>10, <1>11, Zenon DEF MemTypes, Locals

-----------------------------------------------------------------------------
(* Types: the steps *)

\* A function that returns keeps its variables.
LEMMA ReturnTyped ==
  ASSUME MemTypes, UNCHANGED arguments, mem' \in Memories, NEW r \in Results, Return(r)
  PROVE  MemTypes'
<1>1. item' = item /\ fault' = fault /\ no_comp' = no_comp
  BY DEF arguments
<1>2. pc' = "returned" /\ ret' = r /\ UNCHANGED <<call, sweep, p, pe, done, k, pat, mask>>
  BY DEF Return
<1>3. Results' = Results
  BY <1>1 DEF Results
<1>4. pc' \in Places /\ ret' \in Results'
  BY <1>2, <1>3 DEF Places
<1>5. /\ pat \in Words /\ done \in BOOLEAN
      /\ call \in Nat /\ sweep \in Nat /\ k \in Nat /\ mask \in Nat /\ p \in Int /\ pe \in Int
      /\ item = MEM_BLOCK_MOVE => mask \in {0, 1}
      /\ item \in {CPU_CACHE_WALKING, CPU_CACHE_STUCK} => call \in {1, 2}
      /\ fault \in Faults /\ no_comp \in NoComps
  BY DEF MemTypes, Locals
<1>6. /\ pat' \in Words /\ done' \in BOOLEAN
      /\ call' \in Nat /\ sweep' \in Nat /\ k' \in Nat /\ mask' \in Nat /\ p' \in Int /\ pe' \in Int
      /\ item' = MEM_BLOCK_MOVE => mask' \in {0, 1}
      /\ item' \in {CPU_CACHE_WALKING, CPU_CACHE_STUCK} => call' \in {1, 2}
      /\ fault' \in Faults /\ no_comp' \in NoComps
  BY <1>1, <1>2, <1>5
<1> QED BY <1>4, <1>6, Zenon DEF MemTypes, Locals, Memories

\* The steps of the pattern tests keep the types.
LEMMA PatternTyped ==
  ASSUME SliceRight, PatternState, MemTypes, PatternNext
  PROVE  MemTypes'
<1> DEFINE c == Current
           s == CurrentSweep
<1>1. item \in PatternItems /\ ~Returned /\ UNCHANGED arguments /\ PatternCase(c, s)
  BY PatternCases
<1>2. /\ call \in 1 .. Calls /\ sweep \in 1 .. Sweeps(Current) /\ Carried(c, s)
  BY <1>1 DEF PatternState
<1>3. CallRight(c) /\ s.down \in BOOLEAN /\ start_p \in Nat
  BY <1>1, <1>2, CurrentFacts
<1>4. /\ item' = item /\ fault' = fault /\ no_comp' = no_comp /\ start_p' = start_p
      /\ mask' = mask
  <2>1. mask' = mask
    BY <1>1 DEF PatternNext, NextChunk, VisitWord, EndChunk, EndSweep, StartSweep, Return
  <2> QED BY <1>1, <2>1 DEF arguments
<1>5. item \notin CacheItems /\ item # MEM_BLOCK_MOVE /\ item \notin {CPU_CACHE_WALKING, CPU_CACHE_STUCK}
  BY <1>1, ItemsApart
<1>6. Results = {ERR_SUCCESS, ERR_FAIL} /\ Results' = Results
  BY <1>4, <1>5 DEF Results, ERR_SUCCESS, ERR_FAIL
<1>7. /\ fault \in Faults /\ no_comp \in NoComps /\ mem \in Memories /\ pat \in Words
      /\ k \in Nat /\ mask \in Nat /\ ret \in Results
  BY DEF MemTypes, Locals
<1>8. PatternState'
  BY PatternGoesOn
<1>9. pc' # "returned" =>
        /\ call' \in Nat /\ sweep' \in Nat /\ pc' \in Places /\ p' \in Int /\ pe' \in Int
        /\ done' \in BOOLEAN /\ ret' \in Results'
  <2>1. SUFFICES ASSUME pc' # "returned"
                 PROVE  /\ call' \in Nat /\ sweep' \in Nat /\ pc' \in Places /\ p' \in Int /\ pe' \in Int
                        /\ done' \in BOOLEAN /\ ret' \in Results'
    OBVIOUS
  <2>2. /\ call' \in 1 .. Calls' /\ sweep' \in 1 .. Sweeps(Current)' /\ pc' \in {"chunk", "words"}
        /\ Place(Current, CurrentSweep)' /\ RetSoFar(Current)'
    BY <1>1, <1>4, <1>8, <2>1 DEF PatternState, Returned
  <2>3. call' \in Nat /\ sweep' \in Nat
    <3>1. Calls' = Calls /\ Calls \in Nat
      BY <1>1, <1>2, <1>4, CallFacts, Zenon DEF Calls, Iter
    <3>2. call' \in 1 .. Calls
      BY <2>2, <3>1
    <3>3. CallRight(Call(call'))
      BY <1>1, <3>2, CallFacts
    <3>4. Current' = Call(call')
      <4>1. Call(call)' = Call(call')
        BY <1>4, CallSame
      <4> QED BY <4>1 DEF Current
    <3>5. Sweeps(Call(call')) \in Nat
      BY <3>3, SweepsCount
    <3>6. Sweeps(Current)' = Sweeps(Current')
      BY Zenon DEF Sweeps
    <3>7. sweep' \in 1 .. Sweeps(Call(call'))
      BY <2>2, <3>4, <3>6
    <3> QED BY <3>1, <3>2, <3>5, <3>7
  <2>4. pe' \in start_p' .. end' /\ p' \in Int /\ done' \in BOOLEAN
    BY <2>2 DEF Place
  <2>5. pe' \in Int
    BY <2>4
  <2>6. ret' \in Results'
    BY <1>6, <2>2 DEF RetSoFar
  <2> QED BY <2>2, <2>3, <2>4, <2>5, <2>6 DEF Places
<1>10. pc' # "returned" /\ mem' \in Memories /\ k' \in Nat /\ pat' \in Words => MemTypes'
  BY <1>4, <1>5, <1>7, <1>9, Zenon DEF MemTypes, Locals, Memories
<1>11. (\E r \in Results : Return(r)) /\ mem' = mem => MemTypes'
  BY <1>1, <1>7, ReturnTyped
<1>12. ASSUME pc' = "chunk", NEW n \in 1 .. Calls, NEW t, StartSweep(n, t), mem' = mem PROVE MemTypes'
  <2> DEFINE d == Call(n)
  <2>1. CallRight(d)
    BY <1>1, CallFacts
  <2>2. RestartPattern(d, t)
    BY <1>12 DEF StartSweep
  <2> HIDE DEF d
  <2>3. \/ k' = ((k - 1) % UL_SIZE) + 1 /\ pat' = ShiftLeft(d.lb, (k - 1) % UL_SIZE, d.sval)
        \/ k' = (IF d.fn = "movinv32" THEN d.off ELSE 0) /\ pat' = d.p1
    BY <2>2, Zenon DEF RestartPattern
  <2>4. (k - 1) % UL_SIZE \in Nat
    BY <1>7, WordAssumption
  <2>5. k' \in Nat /\ pat' \in Words
    <3> DEFINE j == (k - 1) % UL_SIZE
    <3>1. d.off \in Nat /\ d.p1 \in Words /\ d.lb \in Words /\ d.sval \in {0, 1}
      BY <2>1 DEF CallRight
    <3> HIDE DEF j
    <3>2. ShiftLeft(d.lb, j, d.sval) \in Words
      BY <2>4, <3>1, WordFacts DEF j
    <3>3. j \in Nat
      BY <2>4 DEF j
    <3> QED BY <2>3, <3>1, <3>2, <3>3 DEF j
  <2> QED BY <1>7, <1>10, <1>12, <2>5
<1>13. s = CurrentSweep /\ c = Current /\ pc' # "returned" /\ UNCHANGED <<call, sweep>> =>
         (c.fn = "movinv32" => k' \in Nat /\ pat' \in Words)
  <2>1. SUFFICES ASSUME pc' # "returned", UNCHANGED <<call, sweep>>, c.fn = "movinv32" PROVE k' \in Nat /\ pat' \in Words
    OBVIOUS
  <2>2. Current' = c /\ CurrentSweep' = s
    BY <1>4, <2>1, CallSame DEF Current, CurrentSweep
  <2>3. Carried(Current, CurrentSweep)' /\ p' \in Int
    <3>1. Carried(Current, CurrentSweep)'
      BY <1>1, <1>4, <1>8, <2>1 DEF PatternState, Returned
    <3> QED BY <1>9, <2>1, <3>1
  <2>4. start_p \in Nat /\ c.off \in Nat /\ c.sval \in {0, 1}
    BY <1>3 DEF CallRight
  <2> HIDE DEF c, s
  <2> DEFINE x == (c.off + p' - start_p) % UL_SIZE
  <2>5. k' = x + (IF s.down THEN 1 ELSE 0) /\ pat' = Rot(c, x)
    BY <1>4, <2>1, <2>2, <2>3 DEF Carried
  <2>6. x \in Nat
    BY <2>3, <2>4, WordAssumption
  <2> HIDE DEF x
  <2> QED BY <2>4, <2>5, <2>6, RotIsWord
<1>14. p \in Slice => \A name : Value(c, name, start_p, p) \in Words
  <2>1. Slice \subseteq Addresses /\ start_p \in Int
    BY <1>3 DEF SliceRight
  <2> QED BY <1>3, <2>1, ValueTyped
<1> HIDE DEF c, s
<1>15. CASE Quiet(c, s) \/ Forgets(c, s)
  <2>1. mem' = mem /\ k' = k /\ pat' = pat /\ pc' # "returned"
    BY <1>15 DEF Quiet, Forgets
  <2> QED BY <1>7, <1>10, <2>1
<1>16. CASE Visits(c, s)
  <2>1. /\ pc' # "returned" /\ p \in Slice /\ UNCHANGED <<call, sweep>>
        /\ mem' = mem \/ mem' = Store(mem, fault, p, Value(c, s.write, start_p, p))
        /\ IF s.which = "rest" THEN k' = (k + 1) % MOD_SZ /\ pat' = pat ELSE NextPattern(c, s)
    BY <1>16 DEF Visits
  <2>2. mem' \in Memories
    BY <1>7, <1>14, <2>1, StoreTyped
  <2>3. k' \in Nat /\ pat' \in Words
    <3>1. CASE s.which = "rest"
      BY <1>7, <2>1, <3>1, PatternAssumption
    <3>2. CASE s.which # "rest" /\ c.fn # "movinv32"
      BY <1>7, <2>1, <3>2 DEF NextPattern
    <3>3. CASE c.fn = "movinv32"
      BY <1>13, <2>1, <3>3 DEF c, s
    <3> QED BY <3>1, <3>2, <3>3
  <2> QED BY <1>10, <2>1, <2>2, <2>3
<1>17. CASE Detects(c, s)
  BY <1>6, <1>11, <1>17 DEF Detects
<1>18. CASE NextSweep(c, s)
  BY <1>2, <1>12, <1>18 DEF NextSweep, StartSweep
<1>19. CASE NextCall(c, s)
  <2>1. call + 1 \in 1 .. Calls
    <3>1. Calls \in Nat
      BY <1>1, <1>2, CallFacts
    <3> QED BY <1>2, <1>19, <3>1 DEF NextCall
  <2> QED BY <1>12, <1>19, <2>1 DEF NextCall, StartSweep
<1>20. CASE Ends(c, s)
  BY <1>7, <1>11, <1>20 DEF Ends
<1> QED BY <1>1, <1>15, <1>16, <1>17, <1>18, <1>19, <1>20 DEF PatternCase, c, s

\* The types, conjunct by conjunct.
LEMMA LocalsAre ==
  ASSUME MemTypes
  PROVE  /\ fault \in Faults /\ no_comp \in NoComps /\ mem \in Memories /\ pc \in Places /\ ret \in Results
         /\ pat \in Words /\ done \in BOOLEAN
         /\ call \in Nat /\ sweep \in Nat /\ k \in Nat /\ mask \in Nat /\ p \in Int /\ pe \in Int
         /\ item = MEM_BLOCK_MOVE => mask \in {0, 1}
         /\ item \in {CPU_CACHE_WALKING, CPU_CACHE_STUCK} => call \in {1, 2}
BY DEF MemTypes, Locals

\* A step that leaves most variables alone.
LEMMA StillTyped ==
  ASSUME MemTypes, UNCHANGED arguments, mem' \in Memories, pc' \in Places, ret' \in Results, pat' \in Words,
         UNCHANGED done, call' \in Nat, sweep' \in Nat, k' \in Nat, mask' \in Nat, p' \in Int, pe' \in Int,
         item = MEM_BLOCK_MOVE => mask' \in {0, 1},
         item \in {CPU_CACHE_WALKING, CPU_CACHE_STUCK} => call' \in {1, 2}
  PROVE  MemTypes'
<1>1. item' = item /\ fault' = fault /\ no_comp' = no_comp
  BY DEF arguments
<1>2. Results' = Results
  BY <1>1 DEF Results
<1>3. fault \in Faults /\ no_comp \in NoComps /\ done' \in BOOLEAN
  BY LocalsAre
<1> QED BY <1>1, <1>2, <1>3, Zenon DEF MemTypes, Locals, Memories

\* Those of the walking ones keep them.
LEMMA WalkTyped ==
  ASSUME SliceRight, MemTypes, WalkPosition, SkipLine \/ WalkLine \/ EndWalk \/ EndBanks
  PROVE  MemTypes'
<1>1. item = MEM_ADD_WALK_ONES /\ UNCHANGED arguments
  BY DEF SkipLine, WalkLine, EndWalk, EndBanks, Continue
<1>2. item # MEM_BLOCK_MOVE /\ item \notin {CPU_CACHE_WALKING, CPU_CACHE_STUCK} /\ item \notin CacheItems
  BY <1>1, ItemsApart
<1>3. ERR_FAIL \in Results /\ ERR_SUCCESS \in Results
  BY <1>2 DEF Results, ERR_SUCCESS, ERR_FAIL
<1>4. /\ fault \in Faults /\ mem \in Memories /\ pc \in Places /\ ret \in Results /\ pat \in Words
      /\ call \in Nat /\ sweep \in Nat /\ k \in Nat /\ mask \in Nat /\ p \in Int /\ pe \in Int
  BY LocalsAre
<1>5. start_p \in Nat /\ Rounds \in Nat /\ UL_BYTES * BankWords \in Nat
  BY AddressAssumption DEF SliceRight
<1>6. \A a, w : w \in Words => Store(mem, fault, a, w) \in Memories
  BY <1>4, StoreTyped
<1>7. \A w \in Words : Not(w) \in Words
  BY WordFacts
<1>8. "bank" \in Places /\ "walk" \in Places
  BY DEF Places
<1>9. ASSUME UNCHANGED <<call, pe, done, ret>>, NEW a \in Int, NEW w \in Words, WatchWord(a, w), sweep' \in Nat
      PROVE  MemTypes'
  BY <1>1, <1>2, <1>4, <1>6, <1>7, <1>8, <1>9, StillTyped DEF WatchWord
<1>10. ASSUME UNCHANGED <<call, pe, done, ret>>, pc' \in Places, p' \in Int, pat' \in Words, k' \in Nat, mask' \in Nat,
              sweep' \in Nat, mem' = mem
       PROVE  MemTypes'
  BY <1>1, <1>2, <1>4, <1>10, StillTyped
<1>11. ASSUME UNCHANGED <<call, pe, done, ret>>, NEW s \in Nat, NEW w \in Words, WalkPass(s, w)
       PROVE  MemTypes'
  <2> DEFINE unit == IF s <= 2 THEN PageWords ELSE BankWords
             first == RoundUp(start_p, unit)
  <2>1. first \in Int
    <3>1. unit \in Nat \ {0}
      BY AddressAssumption
    <3> QED BY <1>5, <3>1, RoundUpFacts
  <2>2. /\ sweep' = s
        /\ WatchWord(first, w) \/ (pc' = "bank" /\ p' = first /\ pat' = w /\ UNCHANGED <<mem, k, mask>>)
    BY <1>11, Zenon DEF WalkPass
  <2> HIDE DEF first
  <2>3. CASE WatchWord(first, w)
    BY <1>9, <1>11, <2>1, <2>2, <2>3
  <2>4. CASE pc' = "bank" /\ p' = first /\ pat' = w /\ UNCHANGED <<mem, k, mask>>
    BY <1>4, <1>8, <1>10, <1>11, <2>1, <2>2, <2>4
  <2> QED BY <2>2, <2>3, <2>4
<1>12. CASE SkipLine
  <2>1. 2 * mask \in Nat
    BY <1>4
  <2> QED BY <1>4, <1>10, <1>12, <2>1 DEF SkipLine
<1>13. CASE WalkLine
  <2>1. /\ mem' = Store(mem, fault, p + mask, pat) /\ mask' = 2 * mask
        /\ ret' \in {ERR_FAIL, ret} /\ k' \in {Rounds, k}
        /\ UNCHANGED <<pc, call, sweep, p, pe, done, pat>>
    BY <1>13 DEF WalkLine
  <2>2. 2 * mask \in Nat /\ mem' \in Memories /\ ret' \in Results /\ k' \in Nat
    BY <1>3, <1>4, <1>5, <1>6, <2>1
  <2> QED BY <1>1, <1>2, <1>4, <2>1, <2>2, StillTyped
<1>14. CASE EndWalk
  <2> DEFINE next == p + UL_BYTES * BankWords
  <2>1. next \in Int
    BY <1>4, <1>5
  <2>2. /\ UNCHANGED <<call, pe, done>>
        /\ \/ k' = k + 1 /\ mask' = 1 /\ UNCHANGED <<mem, pc, sweep, p, pat, ret>>
           \/ Return(ret) /\ mem' = mem
           \/ WalkPass(2, pat) /\ ret' = ret
           \/ WalkPass(3, Filled(0)) /\ ret' = ret
           \/ WatchWord(next, Not(pat)) /\ UNCHANGED <<sweep, ret>>
           \/ pc' = "bank" /\ p' = next /\ pat' = Not(pat) /\ UNCHANGED <<mem, sweep, k, mask, ret>>
    BY <1>14, Zenon DEF EndWalk, Continue
  <2> HIDE DEF next
  <2>3. Filled(0) \in Words
    BY WordFacts
  <2>4. CASE k' = k + 1 /\ mask' = 1 /\ UNCHANGED <<mem, pc, sweep, p, pat, ret>>
    BY <1>4, <1>10, <2>2, <2>4
  <2>5. CASE Return(ret) /\ mem' = mem
    BY <1>1, <1>4, <2>5, ReturnTyped
  <2>6. CASE WalkPass(2, pat) /\ ret' = ret
    BY <1>4, <1>11, <2>2, <2>6
  <2>7. CASE WalkPass(3, Filled(0)) /\ ret' = ret
    BY <1>11, <2>2, <2>3, <2>7
  <2>8. CASE WatchWord(next, Not(pat)) /\ UNCHANGED <<sweep, ret>>
    BY <1>4, <1>7, <1>9, <2>1, <2>2, <2>8
  <2>9. CASE pc' = "bank" /\ p' = next /\ pat' = Not(pat) /\ UNCHANGED <<mem, sweep, k, mask, ret>>
    BY <1>4, <1>7, <1>8, <1>10, <2>1, <2>2, <2>9
  <2> QED BY <2>2, <2>4, <2>5, <2>6, <2>7, <2>8, <2>9
<1>15. CASE EndBanks
  <2>1. UNCHANGED <<call, pe, done>> /\ ((Return(ret) /\ mem' = mem) \/ (WalkPass(sweep + 1, Not(pat)) /\ ret' = ret))
    BY <1>15 DEF EndBanks, Continue
  <2>2. CASE Return(ret) /\ mem' = mem
    BY <1>1, <1>4, <2>2, ReturnTyped
  <2>3. CASE WalkPass(sweep + 1, Not(pat)) /\ ret' = ret
    BY <1>4, <1>7, <1>11, <2>1, <2>3
  <2> QED BY <2>1, <2>2, <2>3
<1> QED BY <1>12, <1>13, <1>14, <1>15

\* Those of the random address test keep them.
LEMMA RandomTyped ==
  ASSUME SliceRight, MemTypes, RandomPosition, randaddr_fillup \/ randaddr_test \/ EndRandBank \/ randaddr_verify
  PROVE  MemTypes'
<1>1. item = MEM_RANDOM_ADDRESS /\ UNCHANGED arguments
  BY DEF randaddr_fillup, randaddr_test, EndRandBank, randaddr_verify
<1>2. item # MEM_BLOCK_MOVE /\ item \notin {CPU_CACHE_WALKING, CPU_CACHE_STUCK} /\ item \notin CacheItems
  BY <1>1, ItemsApart
<1>3. ERR_FAIL \in Results /\ ERR_SUCCESS \in Results
  BY <1>2 DEF Results, ERR_SUCCESS, ERR_FAIL
<1>4. /\ fault \in Faults /\ mem \in Memories /\ pc \in Places /\ ret \in Results /\ pat \in Words
      /\ call \in Nat /\ sweep \in Nat /\ k \in Nat /\ mask \in Nat /\ p \in Int /\ pe \in Int
  BY LocalsAre
<1>5. start_p \in Nat /\ cnt \in Nat \ {0}
  BY DEF SliceRight
<1>6. {"fillup", "flip", "verify"} \subseteq Places
  BY DEF Places
<1>7. ASSUME UNCHANGED <<call, pe, done, pat, mask, ret>>, mem' \in Memories, pc' \in Places, p' \in Int,
             sweep' \in Nat, k' \in Nat
      PROVE  MemTypes'
  BY <1>1, <1>2, <1>4, <1>7, StillTyped
<1>8. CASE randaddr_fillup
  <2>1. pc = "fillup" /\ p \in start_p .. end /\ UNCHANGED <<call, pe, done, pat, mask, ret>>
    BY <1>1, <1>8 DEF randaddr_fillup, RandomPosition
  <2>2. CASE p < end /\ mem' = Store(mem, fault, p, mix_random[p]) /\ p' = p + 1 /\ UNCHANGED <<pc, sweep, k>>
    <3>1. p \in Addresses
      BY <1>5, <2>1, <2>2 DEF Slice, end, SliceRight
    <3>2. mix_random[p] \in Words
      BY <3>1, AddressAssumption
    <3>3. mem' \in Memories
      BY <1>4, <2>2, <3>2, StoreTyped
    <3> QED BY <1>4, <1>7, <2>1, <2>2, <3>3
  <2>3. CASE pc' = "flip" /\ p' = start_p /\ sweep' = 1 /\ k' = 0 /\ mem' = mem
    BY <1>4, <1>5, <1>6, <1>7, <2>1, <2>3
  <2> QED BY <1>8, <2>2, <2>3 DEF randaddr_fillup
<1>9. CASE randaddr_test
  <2>1. UNCHANGED <<pc, call, sweep, p, pe, done, pat, mask, ret>> /\ k' = k + 1
    BY <1>9 DEF randaddr_test
  <2>2. PICK rand_val \in 0 .. BankSize :
          mem' = Store(mem, fault, p + rand_val, Not(Load(mem, fault, p + rand_val)))
    BY <1>9 DEF randaddr_test
  <2>3. mem' \in Memories
    BY <1>4, <2>2, ComplementTyped
  <2> QED BY <1>4, <1>7, <2>1, <2>3
<1>10. CASE EndRandBank
  <2>1. /\ UNCHANGED <<mem, call, pe, done, pat, mask, ret>>
        /\ \/ sweep' = sweep + 1 /\ p' = p + RandBankWords /\ k' = 0 /\ pc' = pc
           \/ pc' = "verify" /\ p' = start_p /\ UNCHANGED <<sweep, k>>
    BY <1>10 DEF EndRandBank
  <2>2. p + RandBankWords \in Int /\ sweep + 1 \in Nat
    BY <1>4, AddressAssumption
  <2> QED BY <1>4, <1>5, <1>6, <1>7, <2>1, <2>2
<1>11. CASE randaddr_verify
  <2>1. /\ mem' = mem
        /\ \/ p' = p + 1 /\ UNCHANGED <<pc, call, sweep, pe, done, k, pat, mask, ret>>
           \/ Return(ERR_FAIL) \/ Return(ERR_SUCCESS)
    BY <1>11 DEF randaddr_verify
  <2>2. CASE Return(ERR_FAIL) \/ Return(ERR_SUCCESS)
    BY <1>1, <1>3, <1>4, <2>1, <2>2, ReturnTyped
  <2> QED BY <1>4, <1>7, <2>1, <2>2
<1> QED BY <1>8, <1>9, <1>10, <1>11

\* A chunk has two halves, whole blocks each, and words are moved within the chunk.
LEMMA HalfFacts ==
  ASSUME SliceRight, MovePosition, item = MEM_BLOCK_MOVE, pc = "move"
  PROVE  /\ Half \in Nat /\ Half >= 8 /\ p + 2 * Half = pe /\ Half % 8 = 0
         /\ p \in Nat /\ k \in Nat /\ sweep \in {1, 2} /\ p >= start_p /\ pe <= end
         /\ start_p \in Nat /\ pe \in Nat /\ end \in Nat
<1>1. /\ start_p \in Nat /\ cnt \in Nat \ {0} /\ sweep \in {1, 2} /\ k \in Nat
      /\ p \in start_p .. end /\ pe \in start_p .. end /\ p < pe
      /\ (p - start_p) % 16 = 0 /\ (pe - start_p) % 16 = 0
  BY DEF SliceRight, MovePosition, BlockWords
<1>2. pe - p \in Nat /\ pe - p >= 16 /\ (pe - p) % 16 = 0
  <2>1. (pe - p) % 16 = 0
    BY <1>1
  <2> QED BY <1>1, <2>1
<1>3. end \in Nat
  BY <1>1 DEF end
<1> DEFINE d == pe - p
<1>4. d \in Nat /\ d >= 16 /\ d % 16 = 0 /\ Half = d \div 2
  BY <1>2 DEF Half
<1> HIDE DEF d
<1>5. Half \in Nat /\ Half >= 8 /\ 2 * Half = d /\ Half % 8 = 0
  BY <1>4
<1>6. p + 2 * Half = pe
  BY <1>1, <1>5 DEF d
<1> QED BY <1>1, <1>3, <1>5, <1>6

\* A word that is moved is a word of the slice.
LEMMA SourceFacts ==
  ASSUME SliceRight, MovePosition, item = MEM_BLOCK_MOVE, pc = "move", k < Half
  PROVE  Source \in Slice
BY HalfFacts DEF Source, Slice

\* The steps of the block move keep the types.
LEMMA MoveTyped ==
  ASSUME SliceRight, MemTypes, MovePosition, BlockMoveNext
  PROVE  MemTypes'
<1>1. item = MEM_BLOCK_MOVE /\ UNCHANGED arguments
  BY DEF BlockMoveNext, FillBlockWord, StartMoving, MoveWord, EndMove, CheckBlock
<1>2. item \notin {CPU_CACHE_WALKING, CPU_CACHE_STUCK} /\ item \notin CacheItems
  BY <1>1, ItemsApart
<1>3. ERR_FAIL \in Results /\ ERR_SUCCESS \in Results
  BY <1>2 DEF Results, ERR_SUCCESS, ERR_FAIL
<1>4. /\ fault \in Faults /\ mem \in Memories /\ pc \in Places /\ ret \in Results /\ pat \in Words
      /\ call \in Nat /\ sweep \in Nat /\ k \in Nat /\ mask \in {0, 1} /\ p \in Int /\ pe \in Int
  BY <1>1, LocalsAre
<1>5. start_p \in Nat /\ cnt \in Nat \ {0} /\ end \in Nat
  BY DEF SliceRight, end
<1>6. {"blocks", "move", "check"} \subseteq Places
  BY DEF Places
<1>7. ASSUME UNCHANGED <<done, ret>>, mem' \in Memories, pc' \in Places, p' \in Int, pe' \in Int, call' \in Nat,
             sweep' \in Nat, k' \in Nat, pat' \in Words, mask' \in {0, 1}
      PROVE  MemTypes'
  <2>1. mask' \in Nat
    BY <1>7
  <2> QED BY <1>1, <1>2, <1>4, <1>7, <2>1, StillTyped
<1>8. \A a \in Int : ChunkEnd(a) \in Int
  BY <1>5, AddressAssumption DEF ChunkEnd
<1>9. CASE FillBlockWord
  <2> DEFINE w == IF p = pe THEN OneBit(0) ELSE pat
             last == k = BlockWords - 1
  <2>1. PICK carry \in IF p = pe THEN {0, 1} ELSE {mask} :
          /\ mem' = Store(mem, fault, p, BlockWord(w, k))
          /\ pat' = IF last THEN ShiftLeft(w, 1, carry) ELSE w
          /\ mask' = IF last THEN w[UL_SIZE - 1] ELSE carry
    BY <1>9, Zenon DEF FillBlockWord
  <2>2. w \in Words /\ carry \in {0, 1}
    BY <1>4, WordFacts
  <2>3. UL_SIZE - 1 \in Bits
    BY WordAssumption DEF Bits
  <2> HIDE DEF w
  <2>4. w[UL_SIZE - 1] \in {0, 1} /\ ShiftLeft(w, 1, carry) \in Words /\ BlockWord(w, k) \in Words
    BY <2>2, <2>3, WordFacts DEF Words, BlockWord
  <2>5. pat' \in Words /\ mask' \in {0, 1} /\ mem' \in Memories
    BY <1>4, <2>1, <2>2, <2>4, StoreTyped
  <2>6. /\ p' = p + 1 /\ k' = (k + 1) % BlockWords /\ pe' = IF p = pe THEN ChunkEnd(p) ELSE pe
        /\ UNCHANGED <<pc, call, sweep, done, ret>>
    BY <1>9 DEF FillBlockWord
  <2>7. p' \in Int /\ k' \in Nat /\ pe' \in Int
    BY <1>4, <1>8, <2>6 DEF BlockWords
  <2> QED BY <1>4, <1>7, <2>5, <2>6, <2>7
<1>10. CASE StartMoving
  <2>1. /\ pc' = "move" /\ p' = start_p /\ pe' = ChunkEnd(start_p) /\ call' = 1 /\ sweep' = 1 /\ k' = 0
        /\ UNCHANGED <<mem, done, pat, mask, ret>>
    BY <1>10 DEF StartMoving
  <2> QED BY <1>4, <1>5, <1>6, <1>7, <1>8, <2>1
<1>11. CASE MoveWord
  <2>1. /\ pc = "move" /\ k < Half /\ mem' = Store(mem, fault, Dest, Load(mem, fault, Source)) /\ k' = k + 1
        /\ UNCHANGED <<pc, call, sweep, p, pe, done, pat, mask, ret>>
    BY <1>11 DEF MoveWord
  <2>2. Source \in Slice
    BY <1>1, <2>1, SourceFacts
  <2>3. Load(mem, fault, Source) \in Words
    BY <1>4, <2>2, SliceLoad
  <2>4. mem' \in Memories
    BY <1>4, <2>1, <2>3, StoreTyped
  <2> QED BY <1>4, <1>7, <2>1, <2>4
<1>12. CASE EndMove
  <2>1. /\ k' = 0 /\ UNCHANGED <<mem, done, pat, mask, ret>>
        /\ \/ sweep' = 2 /\ UNCHANGED <<pc, call, p, pe>>
           \/ sweep' = 1 /\ call' = call + 1 /\ UNCHANGED <<pc, p, pe>>
           \/ sweep' = 1 /\ call' = 1 /\ p' = pe /\ pe' = ChunkEnd(pe) /\ pc' = pc
           \/ pc' = "check" /\ p' = start_p /\ pe' = ChunkEnd(start_p) /\ UNCHANGED <<sweep, call>>
    BY <1>12, Zenon DEF EndMove
  <2>2. call' \in Nat /\ sweep' \in Nat /\ p' \in Int /\ pe' \in Int /\ pc' \in Places
    BY <1>4, <1>5, <1>6, <1>8, <2>1
  <2> QED BY <1>4, <1>7, <2>1, <2>2
<1>13. CASE CheckBlock
  <2>1. /\ mem' = mem
        /\ \/ Return(ERR_FAIL) \/ Return(ERR_SUCCESS)
           \/ /\ p' = p + BlockWords /\ pe' = ChunkEnd(pe)
              /\ UNCHANGED <<pc, call, sweep, done, k, pat, mask, ret>>
    BY <1>13 DEF CheckBlock
  <2>2. CASE Return(ERR_FAIL) \/ Return(ERR_SUCCESS)
    BY <1>1, <1>3, <1>4, <2>1, <2>2, ReturnTyped
  <2>3. CASE p' = p + BlockWords /\ pe' = ChunkEnd(pe) /\ UNCHANGED <<pc, call, sweep, done, k, pat, mask, ret>>
    <3>1. p' \in Int /\ pe' \in Int
      BY <1>4, <1>8, <2>3 DEF BlockWords
    <3> QED BY <1>4, <1>7, <2>1, <2>3, <3>1
  <2> QED BY <2>1, <2>2, <2>3
<1> QED BY <1>9, <1>10, <1>11, <1>12, <1>13 DEF BlockMoveNext

\* Those of the walking and the stuck cache test keep them.
LEMMA CarryTyped ==
  ASSUME SliceRight, MemTypes, CarryPosition, CacheMemset \/ CacheCarry \/ CachePhaseEnds
  PROVE  MemTypes'
<1>1. item \in {CPU_CACHE_WALKING, CPU_CACHE_STUCK} /\ UNCHANGED arguments
  BY DEF CacheMemset, CacheCarry, CachePhaseEnds, CacheStay
<1>2. item # MEM_BLOCK_MOVE /\ item \in CacheItems
  BY <1>1, ItemsApart DEF CacheItems, CPU_CACHE_WALKING, CPU_CACHE_STUCK, CPU_CACHE_RANDOM_DATA
<1>3. CacheError \in Results /\ ERR_SUCCESS \in Results
  BY <1>2 DEF Results, CacheError, ERR_SUCCESS, ERR_FAIL, ERR_CACHE_WALK_1, ERR_CACHE_WALK_0, ERR_CACHE_STUCK,
              ERR_CACHE_RAND_DATA
<1>4. /\ fault \in Faults /\ mem \in Memories /\ pc \in Places /\ ret \in Results /\ pat \in Words
      /\ call \in {1, 2} /\ sweep \in Nat /\ k \in Nat /\ mask \in Nat /\ p \in Int /\ pe \in Int
  BY <1>1, LocalsAre
<1>5. start_p \in Nat /\ UL_SIZE \in Nat \ {0}
  BY WordAssumption DEF SliceRight
<1>6. {"memset", "carry"} \subseteq Places
  BY DEF Places
<1>7. Pad \in Words /\ WalkPattern \in Words
  <2>1. call - 1 \in {0, 1}
    BY <1>4
  <2> QED BY <2>1, WordFacts DEF Pad, WalkPattern
<1>8. ASSUME UNCHANGED <<pe, done, pat, ret>>, mem' \in Memories, pc' \in Places, p' \in Int, call' \in {1, 2},
             sweep' \in Nat, k' \in Nat, mask' \in Nat
      PROVE  MemTypes'
  <2>1. call' \in Nat
    BY <1>8
  <2> QED BY <1>1, <1>2, <1>4, <1>8, <2>1, StillTyped
<1>9. CASE CacheMemset
  <2>1. /\ UNCHANGED <<call, pe, done, pat, ret>>
        /\ \/ mem' = Store(mem, fault, p, Pad) /\ p' = p + 1 /\ UNCHANGED <<pc, sweep, k, mask>>
           \/ pc' = "carry" /\ sweep' = 1 /\ k' = 0 /\ mask' = 0 /\ UNCHANGED <<mem, p>>
    BY <1>9 DEF CacheMemset, CacheStay
  <2>2. Store(mem, fault, p, Pad) \in Memories
    BY <1>4, <1>7, StoreTyped
  <2> QED BY <1>4, <1>6, <1>8, <2>1, <2>2
<1>10. CASE CacheCarry
  <2>1. Filled1 \in Memories /\ Store(Filled1, fault, pbank + k, Pad) \in Memories
    <3> DEFINE cleared == IF ~Walking /\ k > 0 THEN Store(mem, fault, pbank + k - 1, Pad) ELSE mem
    <3>1. cleared \in Memories
      BY <1>4, <1>7, StoreTyped
    <3>2. Filled1 = Store(cleared, fault, pbank + k, WalkPattern)
      BY Zenon DEF Filled1
    <3> HIDE DEF cleared
    <3>3. Filled1 \in Memories
      BY <1>4, <1>7, <3>1, <3>2, StoreTyped
    <3> QED BY <1>4, <1>7, <3>3, StoreTyped
  <2>2. CASE Return(CacheError) /\ mem' = Filled1
    BY <1>1, <1>3, <2>1, <2>2, ReturnTyped
  <2>3. CASE /\ mem' = IF Walking THEN Store(Filled1, fault, pbank + k, Pad) ELSE Filled1
             /\ mask' = (mask + 1) % UL_SIZE
             /\ k' = IF mask + 1 < UL_SIZE THEN k ELSE IF k + 1 < cnt_cur THEN k + 1 ELSE 0
             /\ sweep' = IF mask + 1 = UL_SIZE /\ k + 1 = cnt_cur THEN sweep + 1 ELSE sweep
             /\ UNCHANGED <<pc, call, p, pe, done, pat, ret>>
    <3>1. mask' \in Nat /\ k' \in Nat /\ sweep' \in Nat
      BY <1>4, <1>5, <2>3
    <3> QED BY <1>4, <1>8, <2>1, <2>3, <3>1
  <2> QED BY <1>10, <2>2, <2>3 DEF CacheCarry
<1>11. CASE CachePhaseEnds
  <2>1. /\ mem' = mem
        /\ \/ call' = 2 /\ pc' = "memset" /\ p' = start_p /\ UNCHANGED <<sweep, pe, done, k, pat, mask, ret>>
           \/ Return(ERR_SUCCESS)
    BY <1>11 DEF CachePhaseEnds
  <2>2. CASE Return(ERR_SUCCESS)
    BY <1>1, <1>3, <1>4, <2>1, <2>2, ReturnTyped
  <2> QED BY <1>4, <1>5, <1>6, <1>8, <2>1, <2>2
<1> QED BY <1>9, <1>10, <1>11

\* Those of the read and write cache test keep them.
LEMMA RdwrTyped ==
  ASSUME SliceRight, MemTypes, RdwrPosition, RdwrFillup \/ RdwrTest
  PROVE  MemTypes'
<1>1. item = CPU_CACHE_RDWR /\ UNCHANGED arguments
  BY DEF RdwrFillup, RdwrTest, CacheStay
<1>2. item # MEM_BLOCK_MOVE /\ item \in CacheItems /\ item \notin {CPU_CACHE_WALKING, CPU_CACHE_STUCK}
  BY <1>1, ItemsApart DEF CacheItems, CPU_CACHE_WALKING, CPU_CACHE_RDWR, CPU_CACHE_RANDOM_DATA
<1>3. ERR_CACHE_RDWR \in Results /\ ERR_SUCCESS \in Results
  BY <1>2 DEF Results, ERR_SUCCESS, ERR_CACHE_RDWR, ERR_CACHE_RAND_DATA
<1>4. /\ fault \in Faults /\ mem \in Memories /\ pc \in Places /\ ret \in Results /\ pat \in Words
      /\ call \in Nat /\ sweep \in Nat /\ k \in Nat /\ mask \in Nat /\ p \in Int /\ pe \in Int
  BY LocalsAre
<1>5. start_p \in Nat /\ "rdwr" \in Places
  BY DEF SliceRight, Places
<1>6. ASSUME UNCHANGED <<call, sweep, pe, done, k, pat, mask, ret>>, mem' \in Memories, pc' \in Places, p' \in Int
      PROVE  MemTypes'
  BY <1>1, <1>2, <1>4, <1>6, StillTyped
<1>7. p < end /\ pc \in {"rdwr_fill", "rdwr"} => Store(mem, fault, p, MKPAT(p)) \in Memories
  <2>1. SUFFICES ASSUME p < end, pc \in {"rdwr_fill", "rdwr"} PROVE Store(mem, fault, p, MKPAT(p)) \in Memories
    OBVIOUS
  <2>2. p \in Slice
    BY <1>1, <1>5, <2>1 DEF RdwrPosition, Slice, SliceRight, end
  <2>3. AddressWord(p) \in Words
    BY <2>2, FaultAssumption DEF SliceRight
  <2>4. MKPAT(p) \in Words
    BY <2>3, WordFacts DEF MKPAT
  <2> QED BY <1>4, <2>4, StoreTyped
<1>8. p < RdwrEnd /\ pc = "rdwr" => p < end
  <2>1. RdwrEnd <= end
    <3> DEFINE q == cnt \div CNT_PER_STEP
    <3>1. cnt \in Nat /\ CNT_PER_STEP \in Nat \ {0}
      BY CacheAssumption DEF SliceRight
    <3>2. q \in Nat /\ cnt % CNT_PER_STEP \in Nat /\ cnt = CNT_PER_STEP * q + (cnt % CNT_PER_STEP)
      BY <3>1
    <3> HIDE DEF q
    <3>3. q * CNT_PER_STEP <= cnt /\ q * CNT_PER_STEP \in Int
      BY <3>1, <3>2
    <3> QED BY <1>5, <3>1, <3>3 DEF RdwrEnd, end, q
  <2>2. RdwrEnd \in Int /\ end \in Int
    BY <1>5, CacheAssumption DEF RdwrEnd, end, SliceRight
  <2> QED BY <1>4, <2>1, <2>2
<1>9. \/ Return(ERR_CACHE_RDWR) /\ mem' = mem
      \/ Return(ERR_SUCCESS) /\ mem' = mem
      \/ /\ UNCHANGED <<call, sweep, pe, done, k, pat, mask, ret>> /\ pc' \in Places
         /\ (p' = p + 1 \/ p' = start_p)
         /\ mem' = mem \/ (mem' = Store(mem, fault, p, MKPAT(p)) /\ p < end /\ pc \in {"rdwr_fill", "rdwr"})
  <2>1. CASE RdwrFillup
    BY <1>4, <1>5, <2>1 DEF RdwrFillup, CacheStay
  <2>2. CASE RdwrTest
    BY <1>4, <1>8, <2>2 DEF RdwrTest
  <2> QED BY <2>1, <2>2
<1>10. CASE Return(ERR_CACHE_RDWR) /\ mem' = mem
  BY <1>1, <1>3, <1>4, <1>10, ReturnTyped
<1>11. CASE Return(ERR_SUCCESS) /\ mem' = mem
  BY <1>1, <1>3, <1>4, <1>11, ReturnTyped
<1> QED BY <1>4, <1>5, <1>6, <1>7, <1>9, <1>10, <1>11

\* Those of the random data cache test keep them.
LEMMA RandDataTyped ==
  ASSUME SliceRight, MemTypes, RandDataPosition, randdata_fillup \/ comp_long
  PROVE  MemTypes'
<1>1. item = CPU_CACHE_RANDOM_DATA /\ UNCHANGED arguments
  BY DEF randdata_fillup, comp_long, CacheStay
<1>2. item # MEM_BLOCK_MOVE /\ item \in CacheItems /\ item \notin {CPU_CACHE_WALKING, CPU_CACHE_STUCK}
  BY <1>1, ItemsApart DEF CacheItems, CPU_CACHE_WALKING, CPU_CACHE_RANDOM_DATA
<1>3. ERR_CACHE_RAND_DATA \in Results /\ ERR_SUCCESS \in Results
  BY <1>2 DEF Results, ERR_SUCCESS, ERR_CACHE_RAND_DATA
<1>4. /\ fault \in Faults /\ mem \in Memories /\ pc \in Places /\ ret \in Results /\ pat \in Words
      /\ call \in Nat /\ sweep \in Nat /\ k \in Nat /\ mask \in Nat /\ p \in Int /\ pe \in Int
  BY LocalsAre
<1>5. start_p \in Nat /\ cnt \in Nat \ {0} /\ "comp" \in Places
  BY DEF SliceRight, Places
<1>6. ASSUME UNCHANGED <<call, sweep, p, pe, done, pat, mask, ret>>, mem' \in Memories, pc' \in Places, k' \in Nat
      PROVE  MemTypes'
  BY <1>1, <1>2, <1>4, <1>6, StillTyped
<1>7. CASE randdata_fillup
  <2>1. UNCHANGED <<call, sweep, p, pe, done, pat, mask, ret>>
    BY <1>7 DEF randdata_fillup, CacheStay
  <2>2. CASE /\ k < RandHalf /\ k' = k + 1 /\ pc' = pc
             /\ \E n \in 0 .. (Len(g_pat) - 1) :
                  LET m == Store(mem, fault, start_p + k, rand_function_a(n))
                  IN  mem' = Store(m, fault, start_p + RandHalf + k, Load(m, fault, start_p + k))
    <3>1. PICK n \in 0 .. (Len(g_pat) - 1) :
            LET m == Store(mem, fault, start_p + k, rand_function_a(n))
            IN  mem' = Store(m, fault, start_p + RandHalf + k, Load(m, fault, start_p + k))
      BY <2>2
    <3> DEFINE m == Store(mem, fault, start_p + k, rand_function_a(n))
    <3>2. mem' = Store(m, fault, start_p + RandHalf + k, Load(m, fault, start_p + k))
      BY <3>1, Zenon
    <3>3. start_p + k \in Slice
      BY <1>4, <1>5, <2>2 DEF RandHalf, Slice, end
    <3>4. m \in Memories
      BY <1>4, RandomDataTyped, StoreTyped
    <3> HIDE DEF m
    <3>5. mem' \in Memories
      BY <1>4, <3>2, <3>3, <3>4, SliceLoad, StoreTyped
    <3> QED BY <1>4, <1>6, <2>1, <2>2, <3>5
  <2>3. CASE pc' = "comp" /\ k' = 0 /\ mem' = mem
    BY <1>4, <1>5, <1>6, <2>1, <2>3
  <2> QED BY <1>7, <2>2, <2>3, Zenon DEF randdata_fillup
<1>8. CASE comp_long
  <2>1. /\ mem' = mem
        /\ \/ k' = k + 1 /\ UNCHANGED <<pc, call, sweep, p, pe, done, pat, mask, ret>>
           \/ Return(ERR_CACHE_RAND_DATA) \/ Return(ERR_SUCCESS)
    BY <1>8 DEF comp_long
  <2>2. CASE Return(ERR_CACHE_RAND_DATA) \/ Return(ERR_SUCCESS)
    BY <1>1, <1>3, <1>4, <2>1, <2>2, ReturnTyped
  <2> QED BY <1>4, <1>6, <2>1, <2>2
<1> QED BY <1>7, <1>8

\* Every step keeps the types.
LEMMA TypesStep ==
  ASSUME MemIInv, MemTypes, PatternState, Next
  PROVE  MemTypes'
BY PatternTyped, WalkTyped, RandomTyped, MoveTyped, CarryTyped, RdwrTyped, RandDataTyped
DEF Next, AddressNext, CacheNext, MemIInv, Positions

-----------------------------------------------------------------------------
(* A good memory: the loops *)

WalkGood ==
  item = MEM_ADD_WALK_ONES /\ fault = NoFault =>
    /\ ret = ERR_SUCCESS
    /\ pc = "walk" => p \in Slice /\ mem[p] = Not(pat)

RandomGood ==
  item = MEM_RANDOM_ADDRESS /\ fault = NoFault =>
    /\ ret = ERR_SUCCESS
    /\ pc = "fillup" => \A a \in Slice : a < p => mem[a] = mix_random[a]
    /\ pc \in {"flip", "verify"} => \A a \in Slice : mem[a] \in {mix_random[a], Not(mix_random[a])}
    /\ pc = "verify" => p >= start_p

RdwrGood ==
  item = CPU_CACHE_RDWR /\ fault = NoFault =>
    /\ ret = ERR_SUCCESS
    /\ pc = "rdwr_fill" => \A a \in Slice : a < p => mem[a] = MKPAT(a)
    /\ pc = "rdwr" => \A a \in Slice : mem[a] = MKPAT(a)

RandDataGood ==
  item = CPU_CACHE_RANDOM_DATA /\ fault = NoFault =>
    /\ ret = ERR_SUCCESS
    /\ pc = "rand_fill" => \A i \in 0 .. (k - 1) : mem[start_p + i] = mem[start_p + RandHalf + i]
    /\ pc = "comp" => \A i \in 0 .. (RandHalf - 1) : mem[start_p + i] = mem[start_p + RandHalf + i]

\* The walking ones never touch the word they watch.
LEMMA WalkGoodStep ==
  ASSUME SliceRight, MemTypes, WalkPosition, WalkGood, SkipLine \/ WalkLine \/ EndWalk \/ EndBanks
  PROVE  WalkGood'
<1>1. item = MEM_ADD_WALK_ONES /\ UNCHANGED arguments
  BY DEF SkipLine, WalkLine, EndWalk, EndBanks, Continue
<1>2. item' = item /\ start_p' = start_p /\ fault' = fault /\ end' = end /\ Slice' = Slice
  BY <1>1 DEF arguments, Slice, end
<1> SUFFICES ASSUME fault = NoFault PROVE WalkGood'
  BY <1>2 DEF WalkGood
<1>3. ret = ERR_SUCCESS /\ (pc = "walk" => p \in Slice /\ mem[p] = Not(pat))
  BY <1>1 DEF WalkGood
<1>4. /\ mem \in Memories /\ pat \in Words /\ sweep \in Nat
      /\ start_p \in Nat /\ cnt \in Nat \ {0} /\ end = start_p + cnt /\ Slice \subseteq Addresses
  BY LocalsAre DEF SliceRight, end
<1>5. pc = "walk" => p \in Nat /\ p >= start_p /\ mask \in Nat \ {0}
  BY <1>1 DEF WalkPosition
<1>6. \A a, w : Store(mem, fault, a, w) = [mem EXCEPT ![a] = w]
  BY GoodMemory
<1>7. ret' = ret /\ (pc' = "walk" => p' \in Slice /\ mem'[p'] = Not(pat')) => WalkGood'
  BY <1>2, <1>3 DEF WalkGood
<1>8. ASSUME ret' = ret, NEW a \in Slice, NEW w \in Words, WatchWord(a, w) PROVE WalkGood'
  <2>1. p' = a /\ mem' = [mem EXCEPT ![a] = w] /\ pat' = Not(w)
    BY <1>6, <1>8 DEF WatchWord
  <2>2. mem'[a] = w
    BY <1>4, <2>1 DEF Memories
  <2>3. Not(Not(w)) = w
    BY NotFacts
  <2> QED BY <1>7, <1>8, <2>1, <2>2, <2>3
<1>9. ASSUME ret' = ret, NEW s \in Nat, NEW w \in Words, WalkPass(s, w) PROVE WalkGood'
  <2> DEFINE unit == IF s <= 2 THEN PageWords ELSE BankWords
             first == RoundUp(start_p, unit)
  <2>1. start_p % PageWords = 0
    BY DEF SliceRight
  <2>2. first \in Nat /\ first >= start_p /\ (s <= 2 => first = start_p)
    <3>1. unit \in Nat \ {0}
      BY AddressAssumption
    <3> QED BY <1>4, <2>1, <3>1, RoundUpFacts
  <2>3. (WatchWord(first, w) /\ (s <= 2 \/ first < end)) \/ pc' = "bank"
    BY <1>9 DEF WalkPass
  <2> HIDE DEF first
  <2>4. CASE WatchWord(first, w) /\ (s <= 2 \/ first < end)
    <3>1. first \in Slice
      BY <1>4, <1>9, <2>2, <2>4 DEF Slice
    <3> QED BY <1>8, <1>9, <2>4, <3>1
  <2>5. CASE pc' = "bank"
    BY <1>7, <1>9, <2>5
  <2> QED BY <2>3, <2>4, <2>5
<1>10. CASE SkipLine
  BY <1>3, <1>7, <1>10 DEF SkipLine
<1>11. CASE WalkLine
  <2>1. /\ pc = "walk" /\ mem' = [mem EXCEPT ![p + mask] = pat] /\ UNCHANGED <<pc, p, pat>>
    BY <1>6, <1>11 DEF WalkLine
  <2>2. mem'[p] = Not(pat)
    BY <1>3, <1>4, <1>5, <2>1 DEF Memories
  <2>3. Load(mem', fault, p) = mem'[p]
    BY GoodMemory
  <2>4. ret' = ret
    BY <1>11, <2>2, <2>3 DEF WalkLine
  <2> QED BY <1>3, <1>7, <2>1, <2>2, <2>4
<1>12. CASE EndWalk
  <2> DEFINE next == p + UL_BYTES * BankWords
  <2>1. pc = "walk" /\ next \in Nat /\ next >= start_p
    <3>1. UL_BYTES * BankWords \in Nat
      BY AddressAssumption
    <3> QED BY <1>4, <1>5, <1>12, <3>1 DEF EndWalk
  <2>2. Filled(0) \in Words /\ Not(pat) \in Words
    BY <1>4, WordFacts
  <2>3. \/ UNCHANGED <<mem, pc, p, pat, ret>>
        \/ Return(ret)
        \/ WalkPass(2, pat) /\ ret' = ret
        \/ WalkPass(3, Filled(0)) /\ ret' = ret
        \/ next < end /\ WatchWord(next, Not(pat)) /\ ret' = ret
        \/ pc' = "bank" /\ ret' = ret
    BY <1>12, Zenon DEF EndWalk
  <2> HIDE DEF next
  <2>4. CASE UNCHANGED <<mem, pc, p, pat, ret>>
    BY <1>3, <1>7, <2>4
  <2>5. CASE Return(ret)
    BY <1>7, <2>5 DEF Return
  <2>6. CASE WalkPass(2, pat) /\ ret' = ret
    BY <1>4, <1>9, <2>6
  <2>7. CASE WalkPass(3, Filled(0)) /\ ret' = ret
    BY <1>9, <2>2, <2>7
  <2>8. CASE next < end /\ WatchWord(next, Not(pat)) /\ ret' = ret
    <3>1. next \in Slice
      BY <1>4, <2>1, <2>8 DEF Slice
    <3> QED BY <1>8, <2>2, <2>8, <3>1
  <2>9. CASE pc' = "bank" /\ ret' = ret
    BY <1>7, <2>9
  <2> QED BY <2>3, <2>4, <2>5, <2>6, <2>7, <2>8, <2>9
<1>13. CASE EndBanks
  <2>1. Return(ret) \/ (WalkPass(sweep + 1, Not(pat)) /\ ret' = ret)
    BY <1>13 DEF EndBanks
  <2>2. CASE Return(ret)
    BY <1>7, <2>2 DEF Return
  <2>3. CASE WalkPass(sweep + 1, Not(pat)) /\ ret' = ret
    <3>1. Not(pat) \in Words /\ sweep + 1 \in Nat
      BY <1>4, WordFacts
    <3> QED BY <1>9, <2>3, <3>1
  <2> QED BY <2>1, <2>2, <2>3
<1> QED BY <1>10, <1>11, <1>12, <1>13

\* A word is complemented as a whole.
LEMMA RandomGoodStep ==
  ASSUME SliceRight, MemTypes, RandomPosition, RandomGood,
         randaddr_fillup \/ randaddr_test \/ EndRandBank \/ randaddr_verify
  PROVE  RandomGood'
<1>1. item = MEM_RANDOM_ADDRESS /\ UNCHANGED arguments
  BY DEF randaddr_fillup, randaddr_test, EndRandBank, randaddr_verify
<1>2. item' = item /\ start_p' = start_p /\ fault' = fault /\ end' = end /\ Slice' = Slice
  BY <1>1 DEF arguments, Slice, end
<1> SUFFICES ASSUME fault = NoFault PROVE RandomGood'
  BY <1>2 DEF RandomGood
<1>3. /\ ret = ERR_SUCCESS
      /\ pc = "fillup" => \A a \in Slice : a < p => mem[a] = mix_random[a]
      /\ pc \in {"flip", "verify"} => \A a \in Slice : mem[a] \in {mix_random[a], Not(mix_random[a])}
      /\ pc = "verify" => p >= start_p
  BY <1>1 DEF RandomGood
<1>4. /\ mem \in Memories /\ p \in Int /\ start_p \in Nat /\ cnt \in Nat \ {0} /\ end = start_p + cnt
      /\ Slice \subseteq Addresses /\ (\A a \in Slice : a \in Int)
  <2>1. \A a \in Slice : a \in Int
    BY DEF Slice
  <2> QED BY <2>1, LocalsAre DEF SliceRight, end
<1>5. /\ \A a, w : Store(mem, fault, a, w) = [mem EXCEPT ![a] = w]
      /\ \A a : Load(mem, fault, a) = mem[a]
  BY GoodMemory
<1>6. CASE randaddr_fillup
  <2>1. pc = "fillup" /\ ret' = ret /\ p \in start_p .. end
    BY <1>1, <1>6 DEF randaddr_fillup, RandomPosition
  <2>2. CASE p < end /\ mem' = Store(mem, fault, p, mix_random[p]) /\ p' = p + 1 /\ pc' = pc
    <3>1. mem' = [mem EXCEPT ![p] = mix_random[p]] /\ p \in Slice
      BY <1>4, <1>5, <2>1, <2>2 DEF Slice
    <3>2. \A a \in Slice : a < p' => mem'[a] = mix_random[a]
      <4>1. SUFFICES ASSUME NEW a \in Slice, a < p' PROVE mem'[a] = mix_random[a]
        OBVIOUS
      <4>2. a < p \/ a = p
        BY <1>4, <2>2, <4>1
      <4> QED BY <1>3, <1>4, <2>1, <3>1, <4>1, <4>2 DEF Memories
    <3> QED BY <1>2, <1>3, <2>1, <2>2, <3>2 DEF RandomGood
  <2>3. CASE ~(p < end) /\ pc' = "flip" /\ mem' = mem
    <3>1. \A a \in Slice : a < p
      BY <1>4, <2>3 DEF Slice
    <3>2. \A a \in Slice : mem'[a] \in {mix_random[a], Not(mix_random[a])}
      BY <1>3, <2>1, <2>3, <3>1
    <3> QED BY <1>2, <1>3, <2>1, <2>3, <3>2 DEF RandomGood
  <2> QED BY <1>6, <2>2, <2>3 DEF randaddr_fillup
<1>7. CASE randaddr_test
  <2>1. pc = "flip" /\ UNCHANGED <<pc, p, ret>>
    BY <1>7 DEF randaddr_test
  <2>2. PICK rand_val \in 0 .. BankSize :
          mem' = Store(mem, fault, p + rand_val, Not(Load(mem, fault, p + rand_val)))
    BY <1>7 DEF randaddr_test
  <2> DEFINE x == p + rand_val
  <2>3. mem' = [mem EXCEPT ![x] = Not(mem[x])]
    BY <1>5, <2>2
  <2> HIDE DEF x
  <2>4. ASSUME NEW a \in Slice PROVE mem'[a] \in {mix_random[a], Not(mix_random[a])}
    <3>1. mem[a] \in {mix_random[a], Not(mix_random[a])} /\ mix_random[a] \in Words /\ a \in Addresses
      BY <1>3, <1>4, <2>1, AddressAssumption
    <3>2. CASE a # x
      BY <1>4, <2>3, <3>1, <3>2 DEF Memories
    <3>3. CASE a = x
      <4>1. mem'[a] = Not(mem[a])
        BY <1>4, <2>3, <3>1, <3>3 DEF Memories
      <4>2. Not(Not(mix_random[a])) = mix_random[a]
        BY <3>1, NotFacts
      <4> QED BY <3>1, <4>1, <4>2
    <3> QED BY <3>2, <3>3
  <2> QED BY <1>2, <1>3, <2>1, <2>4 DEF RandomGood
<1>8. CASE EndRandBank
  <2>1. pc = "flip" /\ mem' = mem /\ ret' = ret /\ (pc' = pc \/ (pc' = "verify" /\ p' = start_p))
    BY <1>8 DEF EndRandBank
  <2>2. pc' = "verify" => p' >= start_p'
    BY <1>2, <1>4, <2>1
  <2> QED BY <1>2, <1>3, <2>1, <2>2 DEF RandomGood
<1>9. CASE randaddr_verify
  <2>1. pc = "verify" /\ mem' = mem
    BY <1>9 DEF randaddr_verify
  <2>2. p < end => Mixed(p)
    <3>1. p < end => p \in Slice
      BY <1>3, <1>4, <2>1 DEF Slice
    <3> QED BY <1>3, <1>5, <2>1, <3>1 DEF Mixed
  <2>3. CASE p < end
    <3>1. p' = p + 1 /\ UNCHANGED <<pc, ret>>
      BY <1>9, <2>2, <2>3 DEF randaddr_verify
    <3>2. p' >= start_p'
      BY <1>2, <1>3, <1>4, <2>1, <3>1
    <3> QED BY <1>2, <1>3, <2>1, <3>1, <3>2 DEF RandomGood
  <2>4. CASE ~(p < end)
    <3>1. Return(ERR_SUCCESS)
      BY <1>9, <2>4 DEF randaddr_verify
    <3> QED BY <1>2, <3>1 DEF RandomGood, Return
  <2> QED BY <2>3, <2>4
<1> QED BY <1>6, <1>7, <1>8, <1>9

\* Every word keeps the complement of its address.
LEMMA RdwrGoodStep ==
  ASSUME SliceRight, MemTypes, RdwrPosition, RdwrGood, RdwrFillup \/ RdwrTest
  PROVE  RdwrGood'
<1>1. item = CPU_CACHE_RDWR /\ UNCHANGED arguments
  BY DEF RdwrFillup, RdwrTest, CacheStay
<1>2. item' = item /\ start_p' = start_p /\ fault' = fault /\ end' = end /\ Slice' = Slice
  BY <1>1 DEF arguments, Slice, end
<1> SUFFICES ASSUME fault = NoFault PROVE RdwrGood'
  BY <1>2 DEF RdwrGood
<1>3. /\ ret = ERR_SUCCESS
      /\ pc = "rdwr_fill" => \A a \in Slice : a < p => mem[a] = MKPAT(a)
      /\ pc = "rdwr" => \A a \in Slice : mem[a] = MKPAT(a)
  BY <1>1 DEF RdwrGood
<1>4. /\ mem \in Memories /\ p \in Int /\ start_p \in Nat /\ cnt \in Nat \ {0} /\ end = start_p + cnt
      /\ Slice \subseteq Addresses /\ (\A a \in Slice : a \in Int)
  <2>1. \A a \in Slice : a \in Int
    BY DEF Slice
  <2> QED BY <2>1, LocalsAre DEF SliceRight, end
<1>5. /\ \A a, w : Store(mem, fault, a, w) = [mem EXCEPT ![a] = w]
      /\ \A a : Load(mem, fault, a) = mem[a]
  BY GoodMemory
<1>6. pc \in {"rdwr_fill", "rdwr"} => p \in start_p .. end
  BY <1>1 DEF RdwrPosition
<1>7. \A a : MKPAT(a)' = MKPAT(a)
  BY DEF MKPAT, AddressWord, Not
<1>8. CASE RdwrFillup
  <2>1. pc = "rdwr_fill" /\ ret' = ret
    BY <1>8 DEF RdwrFillup
  <2>2. CASE p < end /\ mem' = Store(mem, fault, p, MKPAT(p)) /\ p' = p + 1 /\ pc' = pc
    <3>1. mem' = [mem EXCEPT ![p] = MKPAT(p)] /\ p \in Slice
      BY <1>4, <1>5, <1>6, <2>1, <2>2 DEF Slice
    <3>2. ASSUME NEW a \in Slice, a < p' PROVE mem'[a] = MKPAT(a)
      <4>1. a < p \/ a = p
        BY <1>4, <2>2, <3>2
      <4> QED BY <1>3, <1>4, <2>1, <3>1, <3>2, <4>1 DEF Memories
    <3> QED BY <1>2, <1>3, <2>1, <2>2, <3>2 DEF RdwrGood
  <2>3. CASE ~(p < end) /\ pc' = "rdwr" /\ mem' = mem
    <3>1. \A a \in Slice : a < p
      BY <1>4, <2>3 DEF Slice
    <3> QED BY <1>2, <1>3, <2>1, <2>3, <3>1 DEF RdwrGood
  <2> QED BY <1>8, <2>2, <2>3 DEF RdwrFillup
<1>9. CASE RdwrTest
  <2>1. pc = "rdwr"
    BY <1>9 DEF RdwrTest
  <2>2. RdwrEnd <= end /\ RdwrEnd \in Int
    <3> DEFINE q == cnt \div CNT_PER_STEP
    <3>1. CNT_PER_STEP \in Nat \ {0}
      BY CacheAssumption
    <3>2. q \in Nat /\ cnt % CNT_PER_STEP \in Nat /\ cnt = CNT_PER_STEP * q + (cnt % CNT_PER_STEP)
      BY <1>4, <3>1
    <3> HIDE DEF q
    <3>3. q * CNT_PER_STEP <= cnt /\ q * CNT_PER_STEP \in Int
      BY <1>4, <3>1, <3>2
    <3> QED BY <1>4, <3>1, <3>3 DEF RdwrEnd, q
  <2>3. p < RdwrEnd => p \in Slice
    BY <1>4, <1>6, <2>1, <2>2 DEF Slice
  <2>4. p < RdwrEnd => Load(mem, fault, p) = MKPAT(p)
    BY <1>3, <1>5, <2>1, <2>3
  <2>5. \/ UNCHANGED <<mem, pc, ret>>
        \/ p < RdwrEnd /\ mem' = Store(mem, fault, p, MKPAT(p)) /\ UNCHANGED <<pc, ret>>
        \/ Return(ERR_SUCCESS)
    BY <1>9, <2>4 DEF RdwrTest
  <2>6. CASE UNCHANGED <<mem, pc, ret>>
    BY <1>2, <1>3, <2>1, <2>6 DEF RdwrGood
  <2>7. CASE p < RdwrEnd /\ mem' = Store(mem, fault, p, MKPAT(p)) /\ UNCHANGED <<pc, ret>>
    <3>1. mem' = [mem EXCEPT ![p] = MKPAT(p)] /\ p \in Slice
      BY <1>5, <2>3, <2>7
    <3>2. \A a \in Slice : mem'[a] = MKPAT(a)
      BY <1>3, <1>4, <2>1, <3>1 DEF Memories
    <3> QED BY <1>2, <1>3, <2>1, <2>7, <3>2 DEF RdwrGood
  <2>8. CASE Return(ERR_SUCCESS)
    BY <2>8 DEF RdwrGood, Return
  <2> QED BY <2>5, <2>6, <2>7, <2>8
<1> QED BY <1>8, <1>9

\* The halves of the slice are the same.
LEMMA RandDataGoodStep ==
  ASSUME SliceRight, MemTypes, RandDataPosition, RandDataGood, randdata_fillup \/ comp_long
  PROVE  RandDataGood'
<1>1. item = CPU_CACHE_RANDOM_DATA /\ UNCHANGED arguments
  BY DEF randdata_fillup, comp_long, CacheStay
<1>2. item' = item /\ start_p' = start_p /\ fault' = fault /\ RandHalf' = RandHalf
  BY <1>1 DEF arguments, RandHalf
<1> SUFFICES ASSUME fault = NoFault PROVE RandDataGood'
  BY <1>2 DEF RandDataGood
<1>3. /\ ret = ERR_SUCCESS
      /\ pc = "rand_fill" => \A i \in 0 .. (k - 1) : mem[start_p + i] = mem[start_p + RandHalf + i]
      /\ pc = "comp" => \A i \in 0 .. (RandHalf - 1) : mem[start_p + i] = mem[start_p + RandHalf + i]
  BY <1>1 DEF RandDataGood
<1>4. /\ mem \in Memories /\ k \in Nat /\ start_p \in Nat /\ cnt \in Nat \ {0} /\ end = start_p + cnt
      /\ Slice \subseteq Addresses
  BY LocalsAre DEF SliceRight, end
<1>5. /\ \A m, a, w : Store(m, fault, a, w) = [m EXCEPT ![a] = w]
      /\ \A m, a : Load(m, fault, a) = m[a]
  BY GoodMemory
<1>6. RandHalf \in Nat /\ 2 * RandHalf <= cnt
  BY <1>4 DEF RandHalf
<1>7. CASE randdata_fillup
  <2>1. pc = "rand_fill" /\ ret' = ret
    BY <1>7 DEF randdata_fillup
  <2>2. CASE /\ k < RandHalf /\ k' = k + 1 /\ pc' = pc
             /\ \E n \in 0 .. (Len(g_pat) - 1) :
                  LET m == Store(mem, fault, start_p + k, rand_function_a(n))
                  IN  mem' = Store(m, fault, start_p + RandHalf + k, Load(m, fault, start_p + k))
    <3>1. PICK n \in 0 .. (Len(g_pat) - 1) :
            LET m == Store(mem, fault, start_p + k, rand_function_a(n))
            IN  mem' = Store(m, fault, start_p + RandHalf + k, Load(m, fault, start_p + k))
      BY <2>2
    <3> DEFINE m == Store(mem, fault, start_p + k, rand_function_a(n))
               w == rand_function_a(n)
               x == start_p + k
               y == start_p + RandHalf + k
    <3>2. mem' = [m EXCEPT ![y] = m[x]]
      <4>1. mem' = Store(m, fault, y, Load(m, fault, x))
        BY <3>1, Zenon
      <4> HIDE DEF m, x, y
      <4> QED BY <1>5, <4>1
    <3>3. m = [mem EXCEPT ![x] = w]
      <4>1. m = Store(mem, fault, x, w)
        OBVIOUS
      <4> HIDE DEF m, x, w
      <4> QED BY <1>5, <4>1
    <3>4. x \in Slice /\ y \in Slice /\ x # y
      BY <1>4, <1>6, <2>2 DEF Slice
    <3>5. w \in Words
      BY RandomDataTyped
    <3> HIDE DEF m, w
    <3>6. ASSUME NEW i \in 0 .. (k' - 1) PROVE mem'[start_p + i] = mem'[start_p + RandHalf + i]
      <4>1. i \in 0 .. k
        BY <1>4, <2>2
      <4>2. CASE i = k
        <5>1. mem'[x] = w /\ mem'[y] = w
          <6> HIDE DEF x, y
          <6> QED BY <1>4, <3>2, <3>3, <3>4 DEF Memories
        <5> QED BY <4>2, <5>1
      <4>3. CASE i < k
        <5> DEFINE u == start_p + i
                   v == start_p + RandHalf + i
        <5>1. u \notin {x, y} /\ v \notin {x, y} /\ u \in Slice /\ v \in Slice
          BY <1>4, <1>6, <2>2, <4>1, <4>3 DEF Slice
        <5>2. mem[u] = mem[v]
          <6>1. i \in 0 .. (k - 1)
            BY <1>4, <4>1, <4>3
          <6> QED BY <1>3, <2>1, <6>1
        <5> HIDE DEF u, v, x, y
        <5>3. mem'[u] = mem[u] /\ mem'[v] = mem[v]
          BY <1>4, <3>2, <3>3, <3>4, <5>1 DEF Memories
        <5> QED BY <5>2, <5>3 DEF u, v
      <4> QED BY <1>4, <4>1, <4>2, <4>3
    <3> QED BY <1>2, <1>3, <2>1, <2>2, <3>6 DEF RandDataGood
  <2>3. CASE ~(k < RandHalf) /\ pc' = "comp" /\ mem' = mem
    <3>1. \A i \in 0 .. (RandHalf - 1) : i \in 0 .. (k - 1)
      BY <1>4, <1>6, <2>3
    <3> QED BY <1>2, <1>3, <2>1, <2>3, <3>1 DEF RandDataGood
  <2> QED BY <1>7, <2>2, <2>3, Zenon DEF randdata_fillup
<1>8. CASE comp_long
  <2>1. pc = "comp" /\ mem' = mem
    BY <1>8 DEF comp_long
  <2>2. k < RandHalf => Load(mem, fault, start_p + k) = Load(mem, fault, start_p + RandHalf + k)
    <3>1. k < RandHalf => k \in 0 .. (RandHalf - 1)
      BY <1>4, <1>6
    <3> QED BY <1>3, <1>5, <2>1, <3>1
  <2>3. UNCHANGED <<pc, ret>> \/ Return(ERR_SUCCESS)
    BY <1>8, <2>2 DEF comp_long
  <2>4. CASE UNCHANGED <<pc, ret>>
    BY <1>2, <1>3, <2>1, <2>4 DEF RandDataGood
  <2>5. CASE Return(ERR_SUCCESS)
    BY <2>5 DEF RandDataGood, Return
  <2> QED BY <2>3, <2>4, <2>5
<1> QED BY <1>7, <1>8

\* From bank b on every word has the pad, but for word j and, in the stuck test, the one before.
Padded(m, b, j) ==
  \A a \in Slice : a >= b /\ (~Walking => a \notin {b + j - 1, b + j}) => m[a] = Pad

CarryGood ==
  item \in {CPU_CACHE_WALKING, CPU_CACHE_STUCK} /\ fault = NoFault =>
    /\ ret = ERR_SUCCESS
    /\ pc = "memset" => \A a \in Slice : a < p => mem[a] = Pad
    /\ pc = "carry" => mask \in 0 .. (UL_SIZE - 1) /\ Padded(mem, pbank, k)

\* Half a bank, or half of the two that are taken together.
LEMMA BankFacts ==
  ASSUME item \in {CPU_CACHE_WALKING, CPU_CACHE_STUCK}
  PROVE  /\ cnt_cur \in Nat \ {0} /\ cnt_cur \div 2 \in Nat \ {0} /\ 2 * (cnt_cur \div 2) = cnt_cur
         /\ Watched \in Nat /\ Watched <= cnt_cur \div 2
         /\ ~Walking => cnt_cur = CNT_PER_BANK
<1> DEFINE C == CNT_PER_BANK
<1>1. /\ C \in Nat \ {0} /\ C % 2 = 0
      /\ Watched \in Nat /\ 2 * Watched <= C
  <2>1. WalkWatched \in Nat /\ StuckWatched \in Nat
    BY CacheAssumption
  <2> QED BY <2>1, CacheAssumption DEF Watched
<1>2. cnt_cur = C \/ (Walking /\ cnt_cur = 2 * C)
  BY DEF cnt_cur
<1> HIDE DEF C
<1>3. ~Walking => cnt_cur = C
  BY <1>2
<1> DEFINE d == cnt_cur
<1>4. d \in Nat \ {0} /\ d % 2 = 0 /\ C <= d
  BY <1>1, <1>2
<1> HIDE DEF d
<1>5. d \div 2 \in Nat \ {0} /\ 2 * (d \div 2) = d
  BY <1>4
<1>6. Watched <= d \div 2
  BY <1>1, <1>4, <1>5
<1> QED BY <1>1, <1>3, <1>4, <1>5, <1>6 DEF d, C

\* The stores of a step: the pattern in its word, the pad in all others.
LEMMA FilledGood ==
  ASSUME SliceRight, mem \in Memories, fault = NoFault, sweep \in Nat \ {0}, sweep <= CacheBanks, k \in Nat, k < cnt_cur,
         Padded(mem, pbank, k), item \in {CPU_CACHE_WALKING, CPU_CACHE_STUCK}
  PROVE  /\ Filled1[pbank + k] = WalkPattern
         /\ \A a \in Slice : a >= pbank /\ a # pbank + k => Filled1[a] = Pad
         /\ DOMAIN Filled1 = Addresses
<1> DEFINE x == pbank + k
           y == pbank + k - 1
           cleared == IF ~Walking /\ k > 0 THEN Store(mem, fault, y, Pad) ELSE mem
<1>1. x \in Slice
  BY CurrentBank
<1>2. pbank \in Int /\ Slice \subseteq Addresses /\ (\A a \in Slice : a \in Int)
  <2>1. sweep - 1 \in Nat /\ CNT_PER_BANK \in Nat /\ start_p \in Nat
    BY CacheAssumption DEF SliceRight
  <2> QED BY <2>1 DEF pbank, Slice, SliceRight
<1>3. Filled1 = Store(cleared, fault, x, WalkPattern)
  BY Zenon DEF Filled1
<1>4. /\ \A a, w : Store(mem, fault, a, w) = [mem EXCEPT ![a] = w]
      /\ \A m, a, w : Store(m, fault, a, w) = [m EXCEPT ![a] = w]
  BY GoodMemory
<1>5. DOMAIN mem = Addresses
  BY DEF Memories
<1>6. cleared = IF ~Walking /\ k > 0 THEN [mem EXCEPT ![y] = Pad] ELSE mem
  <2> HIDE DEF y
  <2> QED BY <1>4
<1> HIDE DEF cleared
<1>7. Filled1 = [cleared EXCEPT ![x] = WalkPattern]
  <2> HIDE DEF x
  <2> QED BY <1>3, <1>4
<1>8. DOMAIN cleared = Addresses
  BY <1>5, <1>6
<1>9. ASSUME NEW a \in Slice, a >= pbank, a # x PROVE Filled1[a] = Pad
  <2>1. a \in Addresses /\ Filled1[a] = cleared[a]
    BY <1>2, <1>7, <1>8, <1>9
  <2>2. CASE ~Walking /\ k > 0 /\ a = y
    BY <1>5, <1>6, <2>1, <2>2
  <2>3. CASE ~(~Walking /\ k > 0 /\ a = y)
    <3>1. ~Walking => a \notin {pbank + k - 1, pbank + k}
      BY <1>2, <1>9, <2>3
    <3>2. mem[a] = Pad
      BY <1>9, <3>1 DEF Padded
    <3>3. cleared[a] = mem[a]
      BY <1>5, <1>6, <2>1, <2>3
    <3> QED BY <2>1, <3>2, <3>3
  <2> QED BY <2>2, <2>3
<1>10. Filled1[x] = WalkPattern
  BY <1>1, <1>2, <1>7, <1>8
<1> QED BY <1>7, <1>8, <1>9, <1>10

\* So verify() finds what it looks for.
LEMMA VerifyGood ==
  ASSUME SliceRight, mem \in Memories, fault = NoFault, sweep \in Nat \ {0}, sweep <= CacheBanks, k \in Nat, k < cnt_cur,
         Padded(mem, pbank, k), item \in {CPU_CACHE_WALKING, CPU_CACHE_STUCK}, call \in {1, 2}
  PROVE  verify(Filled1, k, WalkPattern, Pad)
<1> DEFINE half == cnt_cur \div 2
           F == Filled1
<1>1. /\ cnt_cur \in Nat \ {0} /\ half \in Nat \ {0} /\ 2 * half = cnt_cur
      /\ Watched \in Nat /\ Watched <= half
  BY BankFacts
<1>2. /\ F[pbank + k] = WalkPattern
      /\ \A a \in Slice : a >= pbank /\ a # pbank + k => F[a] = Pad
  BY FilledGood
<1>3. \A a : Load(F, fault, a) = F[a]
  BY GoodMemory
<1>4. pbank \in Int
  <2>1. sweep - 1 \in Nat /\ CNT_PER_BANK \in Nat /\ start_p \in Nat
    BY CacheAssumption DEF SliceRight
  <2> QED BY <2>1 DEF pbank
<1>5. Or(Pad, Pad) = Pad
  <2>1. Pad \in Words
    <3>1. call - 1 \in {0, 1}
      OBVIOUS
    <3> QED BY <3>1, WordFacts DEF Pad
  <2>2. \A b \in Bits : Pad[b] = 1 \/ Pad[b] = 0
    BY <2>1 DEF Words
  <2>3. Or(Pad, Pad) = [b \in Bits |-> Pad[b]]
    BY <2>2 DEF Or
  <2> QED BY <2>1, <2>3 DEF Words
<1>6. ASSUME NEW i \in 0 .. (Watched - 1)
      PROVE  LET vpat == Load(F, fault, pbank + i)
                 vpad == Load(F, fault, pbank + i + half) IN
             CASE i = k -> vpat = WalkPattern /\ vpad = Pad
               [] i + half = k -> vpad = WalkPattern /\ vpat = Pad
               [] OTHER -> Or(vpad, vpat) = Pad
  <2> HIDE DEF F, half
  <2> DEFINE u == pbank + i
             v == pbank + i + half
  <2>1. i \in Nat /\ i < half
    BY <1>1
  <2>2. i < cnt_cur /\ i + half \in Nat /\ i + half < cnt_cur
    BY <1>1, <2>1
  <2>3. u \in Slice
    BY <2>1, <2>2, CurrentBank
  <2>4. v \in Slice
    <3>1. pbank + (i + half) \in Slice
      BY <2>2, CurrentBank
    <3>2. pbank + (i + half) = v
      BY <1>1, <1>4, <2>1
    <3> QED BY <3>1, <3>2
  <2>5. u >= pbank /\ v >= pbank /\ (u = pbank + k <=> i = k) /\ (v = pbank + k <=> i + half = k)
    BY <1>1, <1>4, <2>1
  <2>6. F[u] = (IF i = k THEN WalkPattern ELSE Pad) /\ F[v] = (IF i + half = k THEN WalkPattern ELSE Pad)
    BY <1>2, <2>3, <2>4, <2>5
  <2>7. ~(i = k /\ i + half = k)
    BY <1>1, <2>1
  <2> DEFINE vpat == Load(F, fault, u)
             vpad == Load(F, fault, v)
  <2>8. vpat = (IF i = k THEN WalkPattern ELSE Pad) /\ vpad = (IF i + half = k THEN WalkPattern ELSE Pad)
    BY <1>3, <2>6
  <2> HIDE DEF vpat, vpad
  <2>9. (CASE i = k -> vpat = WalkPattern /\ vpad = Pad
           [] i + half = k -> vpad = WalkPattern /\ vpat = Pad
           [] OTHER -> Or(vpad, vpat) = Pad)
    <3>1. CASE i = k
      <4>1. vpat = WalkPattern /\ vpad = Pad
        BY <2>7, <2>8, <3>1
      <4> QED BY <2>7, <3>1, <4>1, Zenon
    <3>2. CASE i # k /\ i + half = k
      <4>1. vpad = WalkPattern /\ vpat = Pad
        BY <2>8, <3>2
      <4> QED BY <3>2, <4>1, Zenon
    <3>3. CASE i # k /\ i + half # k
      <4>1. vpad = Pad /\ vpat = Pad
        BY <2>8, <3>3
      <4>2. Or(vpad, vpat) = Pad
        BY <1>5, <4>1, Zenon
      <4> QED BY <3>3, <4>2, Zenon
    <3> QED BY <3>1, <3>2, <3>3
  <2> QED BY <2>9 DEF vpat, vpad
<1> QED BY <1>6, Zenon DEF verify

\* A walking bit leaves the pad behind.
LEMMA CarryGoodStep ==
  ASSUME SliceRight, MemTypes, CarryPosition, CarryGood, CacheMemset \/ CacheCarry \/ CachePhaseEnds
  PROVE  CarryGood'
<1>1. item \in {CPU_CACHE_WALKING, CPU_CACHE_STUCK} /\ UNCHANGED arguments
  BY DEF CacheMemset, CacheCarry, CachePhaseEnds, CacheStay
<1>2. /\ item' = item /\ start_p' = start_p /\ cnt' = cnt /\ fault' = fault /\ end' = end /\ Slice' = Slice
      /\ Walking' = Walking
  BY <1>1 DEF arguments, Slice, end, Walking
<1> SUFFICES ASSUME fault = NoFault PROVE CarryGood'
  BY <1>2 DEF CarryGood
<1>3. /\ ret = ERR_SUCCESS
      /\ pc = "memset" => \A a \in Slice : a < p => mem[a] = Pad
      /\ pc = "carry" => mask \in 0 .. (UL_SIZE - 1) /\ Padded(mem, pbank, k)
  BY <1>1 DEF CarryGood
<1>4. /\ mem \in Memories /\ k \in Nat /\ p \in Int /\ call \in {1, 2} /\ start_p \in Nat /\ cnt \in Nat \ {0}
      /\ end = start_p + cnt /\ Slice \subseteq Addresses /\ (\A a \in Slice : a \in Int)
      /\ UL_SIZE \in Nat \ {0} /\ CNT_PER_BANK \in Nat \ {0}
  <2>1. \A a \in Slice : a \in Int
    BY DEF Slice
  <2> QED BY <1>1, <2>1, LocalsAre, WordAssumption, CacheAssumption DEF SliceRight, end
<1>5. \A m, a, w : Store(m, fault, a, w) = [m EXCEPT ![a] = w]
  BY GoodMemory
<1>6. call' = call => Pad' = Pad
  BY DEF Pad
<1>7. CASE CacheMemset
  <2>1. pc = "memset" /\ UNCHANGED <<call, ret>> /\ p \in start_p .. end
    BY <1>1, <1>7 DEF CacheMemset, CacheStay, CarryPosition
  <2>2. CASE p < end /\ mem' = Store(mem, fault, p, Pad) /\ p' = p + 1 /\ pc' = pc
    <3>1. p \in Slice /\ mem' = [mem EXCEPT ![p] = Pad]
      BY <1>4, <1>5, <2>1, <2>2 DEF Slice
    <3>2. ASSUME NEW a \in Slice, a < p' PROVE mem'[a] = Pad
      <4>1. a < p \/ a = p
        BY <1>4, <2>2, <3>2
      <4> QED BY <1>3, <1>4, <2>1, <3>1, <3>2, <4>1 DEF Memories
    <3> QED BY <1>2, <1>3, <1>6, <2>1, <2>2, <3>2 DEF CarryGood
  <2>3. CASE ~(p < end) /\ pc' = "carry" /\ sweep' = 1 /\ k' = 0 /\ mask' = 0 /\ mem' = mem
    <3>1. \A a \in Slice : a < p
      BY <1>4, <2>3 DEF Slice
    <3>2. Padded(mem, pbank, k)'
      BY <1>2, <1>3, <1>6, <2>1, <2>3, <3>1 DEF Padded
    <3>3. mask' \in 0 .. (UL_SIZE - 1)
      BY <1>4, <2>3
    <3> QED BY <1>3, <2>1, <2>3, <3>2, <3>3 DEF CarryGood
  <2> QED BY <1>7, <2>2, <2>3 DEF CacheMemset
<1>8. CASE CacheCarry
  <2>1. /\ pc = "carry" /\ sweep \in Nat \ {0} /\ sweep <= CacheBanks /\ k < cnt_cur
        /\ mask \in 0 .. (UL_SIZE - 1) /\ Padded(mem, pbank, k)
    BY <1>1, <1>3, <1>8 DEF CacheCarry, CarryPosition
  <2>2. verify(Filled1, k, WalkPattern, Pad)
    BY <1>1, <1>4, <2>1, VerifyGood
  <2> DEFINE x == pbank + k
  <2>3. /\ \A a \in Slice : a >= pbank /\ a # x => Filled1[a] = Pad
        /\ DOMAIN Filled1 = Addresses
    BY <1>1, <1>4, <2>1, FilledGood
  <2>4. /\ mem' = IF Walking THEN Store(Filled1, fault, x, Pad) ELSE Filled1
        /\ mask' = (mask + 1) % UL_SIZE
        /\ k' = IF mask + 1 < UL_SIZE THEN k ELSE IF k + 1 < cnt_cur THEN k + 1 ELSE 0
        /\ sweep' = IF mask + 1 = UL_SIZE /\ k + 1 = cnt_cur THEN sweep + 1 ELSE sweep
        /\ UNCHANGED <<pc, call, ret>>
    BY <1>8, <2>2 DEF CacheCarry
  <2>5. mask' \in 0 .. (UL_SIZE - 1)
    BY <1>4, <2>1, <2>4
  <2>6. pbank \in Int /\ x \in Int
    <3>1. sweep - 1 \in Nat
      BY <2>1
    <3> QED BY <1>4, <3>1 DEF pbank
  <2>7. \A a \in Slice : a >= pbank /\ (~Walking => a # x) => mem'[a] = Pad
    <3> HIDE DEF x
    <3>1. mem' = IF Walking THEN [Filled1 EXCEPT ![x] = Pad] ELSE Filled1
      BY <1>5, <2>4
    <3> QED BY <1>4, <2>3, <3>1
  <2>8. cnt_cur \in Nat \ {0} /\ (~Walking => cnt_cur = CNT_PER_BANK)
    BY <1>1, BankFacts
  <2>9. Padded(mem, pbank, k)'
    <3>1. SUFFICES ASSUME NEW a \in Slice, a >= pbank', ~Walking => a \notin {pbank' + k' - 1, pbank' + k'}
                   PROVE  mem'[a] = Pad
      BY <1>2, <1>6, <2>4 DEF Padded
    <3>2. CASE mask + 1 = UL_SIZE /\ k + 1 = cnt_cur
      <4>1. pbank' = pbank + CNT_PER_BANK
        <5>1. sweep' - 1 = sweep
          BY <2>1, <2>4, <3>2
        <5>2. (sweep' - 1) * CNT_PER_BANK = sweep * CNT_PER_BANK
          BY <5>1, Zenon
        <5>3. /\ (sweep - 1) * CNT_PER_BANK \in Int
              /\ sweep * CNT_PER_BANK = (sweep - 1) * CNT_PER_BANK + CNT_PER_BANK
          BY <1>4, <2>1
        <5>4. (sweep' - 1) * CNT_PER_BANK = (sweep - 1) * CNT_PER_BANK + CNT_PER_BANK
          BY <5>2, <5>3, Zenon
        <5> DEFINE o == (sweep - 1) * CNT_PER_BANK
        <5>5. pbank = start_p + o /\ pbank' = start_p + (o + CNT_PER_BANK)
          BY <1>2, <5>4 DEF pbank
        <5> HIDE DEF o
        <5>6. o \in Int
          BY <5>3 DEF o
        <5> QED BY <1>4, <5>5, <5>6
      <4>2. a >= pbank
        BY <1>4, <2>6, <3>1, <4>1
      <4>3. ~Walking => x < pbank'
        BY <1>4, <2>6, <2>8, <3>2, <4>1
      <4>4. ~Walking => a # x
        BY <1>4, <2>6, <3>1, <4>1, <4>3
      <4> QED BY <2>7, <4>2, <4>4
    <3>3. CASE ~(mask + 1 = UL_SIZE /\ k + 1 = cnt_cur)
      <4>1. pbank' = pbank
        BY <1>2, <2>4, <3>3 DEF pbank
      <4>2. k' = k \/ k' = k + 1
        BY <1>4, <2>1, <2>4, <2>8, <3>3
      <4>3. ~Walking => a # x
        BY <1>4, <2>6, <3>1, <4>1, <4>2
      <4> QED BY <2>7, <3>1, <4>1, <4>3
    <3> QED BY <3>2, <3>3
  <2> QED BY <1>3, <2>1, <2>4, <2>5, <2>9 DEF CarryGood
<1>9. CASE CachePhaseEnds
  <2>1. \/ pc' = "memset" /\ p' = start_p /\ ret' = ret
        \/ Return(ERR_SUCCESS)
    BY <1>9 DEF CachePhaseEnds
  <2>2. CASE pc' = "memset" /\ p' = start_p /\ ret' = ret
    <3>1. \A a \in Slice : ~(a < p')
      BY <1>4, <2>2 DEF Slice
    <3> QED BY <1>2, <1>3, <2>2, <3>1 DEF CarryGood
  <2>3. CASE Return(ERR_SUCCESS)
    BY <2>3 DEF CarryGood, Return
  <2> QED BY <2>1, <2>2, <2>3
<1> QED BY <1>7, <1>8, <1>9

-----------------------------------------------------------------------------
(* A good memory: the block move *)

\* Half of the first chunk, and where word n of block j is in a half whose blocks
\* begin o words behind its start, and go around its end.
HalfChunk == (ChunkEnd(start_p) - start_p) \div 2
Around(h, o, j, n) == LET i == 8 * j + o + n IN IF i >= h THEN i - h ELSE i

InBlocks(m, base, h, o) ==
  \A j \in 0 .. (h \div 8 - 1), n \in 0 .. 7 :
    m[base + Around(h, o, j, n)] = BlockWord(m[base + Around(h, o, j, 0)], n)

\* Where a word of the upper half goes on the way back.
Turned(h, i) == IF i < h - 4 THEN i + 4 ELSE i - (h - 4)

\* A word of a block is one of its half.
LEMMA AroundFacts ==
  ASSUME NEW h \in Nat, h >= 8, h % 8 = 0, NEW o \in {0, 4}, NEW j \in 0 .. (h \div 8 - 1), NEW n \in 0 .. 7
  PROVE  /\ Around(h, o, j, n) \in 0 .. (h - 1)
         /\ 8 * j + n \in 0 .. (h - 1) /\ Around(h, 0, j, n) = 8 * j + n
<1> DEFINE q == h \div 8
<1>1. q \in Nat /\ h = 8 * q
  OBVIOUS
<1>2. j \in 0 .. (q - 1)
  OBVIOUS
<1> HIDE DEF q
<1>3. j \in Nat /\ 8 * j + 8 <= h
  BY <1>1, <1>2
<1> QED BY <1>3 DEF Around

\* Turning is a permutation of the half.
LEMMA TurnedFacts ==
  ASSUME NEW h \in Nat, h >= 8, h % 8 = 0
  PROVE  /\ \A i \in 0 .. (h - 1) : Turned(h, i) \in 0 .. (h - 1)
         /\ \A i, x \in 0 .. (h - 1) : Turned(h, i) = Turned(h, x) => i = x
BY DEF Turned

\* The blocks of a half that has been turned around.
LEMMA TurnedAround ==
  ASSUME NEW h \in Nat, h >= 8, h % 8 = 0, NEW j \in 0 .. (h \div 8 - 1), NEW n \in 0 .. 7
  PROVE  /\ Turned(h, Around(h, 0, j, n)) = Around(h, 4, j, n)
         /\ LET next == IF j = h \div 8 - 1 THEN 0 ELSE j + 1 IN
            Turned(h, Around(h, 4, j, n)) = Around(h, 0, next, n)
<1> DEFINE q == h \div 8
           next == IF j = q - 1 THEN 0 ELSE j + 1
<1>1. q \in Nat /\ h = 8 * q
  OBVIOUS
<1>2. j \in 0 .. (q - 1)
  OBVIOUS
<1> HIDE DEF q
<1>3. j \in Nat /\ 8 * j + 8 <= h /\ (j # q - 1 => 8 * j + 16 <= h) /\ (j = q - 1 => 8 * j + 8 = h)
  BY <1>1, <1>2
<1>4. Turned(h, Around(h, 0, j, n)) = Around(h, 4, j, n)
  BY <1>3 DEF Turned, Around
<1>5. Turned(h, Around(h, 4, j, n)) = Around(h, 0, next, n)
  <2>1. CASE j = q - 1
    BY <1>3, <2>1 DEF Turned, Around
  <2>2. CASE j # q - 1
    BY <1>3, <2>2 DEF Turned, Around
  <2> QED BY <2>1, <2>2
<1> QED BY <1>4, <1>5 DEF q

\* A half that keeps its words, the other half after the copy, and a half the words
\* of the upper one are moved back to, half a block further.
LEMMA BlocksStay ==
  ASSUME NEW m, NEW m2, NEW base \in Int, NEW base2 \in Int, NEW h \in Nat, h >= 8, h % 8 = 0, NEW o \in {0, 4},
         InBlocks(m, base, h, o), \A i \in 0 .. (h - 1) : m2[base2 + i] = m[base + i]
  PROVE  InBlocks(m2, base2, h, o)
<1> SUFFICES ASSUME NEW j \in 0 .. (h \div 8 - 1), NEW n \in 0 .. 7
             PROVE  m2[base2 + Around(h, o, j, n)] = BlockWord(m2[base2 + Around(h, o, j, 0)], n)
  BY DEF InBlocks
<1>1. Around(h, o, j, n) \in 0 .. (h - 1) /\ Around(h, o, j, 0) \in 0 .. (h - 1)
  BY AroundFacts
<1>2. m[base + Around(h, o, j, n)] = BlockWord(m[base + Around(h, o, j, 0)], n)
  BY DEF InBlocks
<1> QED BY <1>1, <1>2

\* The half the words are moved back to has its blocks half a block further.
LEMMA BlocksTurn ==
  ASSUME NEW m, NEW base \in Int, NEW h \in Nat, h >= 8, h % 8 = 0, NEW o \in {0, 4},
         InBlocks(m, base + h, h, o), \A i \in 0 .. (h - 1) : m[base + Turned(h, i)] = m[base + h + i]
  PROVE  InBlocks(m, base, h, 4 - o)
<1> DEFINE q == h \div 8
<1>1. q \in Nat /\ q >= 1
  OBVIOUS
<1> SUFFICES ASSUME NEW j \in 0 .. (q - 1), NEW n \in 0 .. 7
             PROVE  m[base + Around(h, 4 - o, j, n)] = BlockWord(m[base + Around(h, 4 - o, j, 0)], n)
  BY DEF InBlocks
<1>2. ASSUME NEW x \in 0 .. (q - 1), Turned(h, Around(h, o, x, n)) = Around(h, 4 - o, j, n),
             Turned(h, Around(h, o, x, 0)) = Around(h, 4 - o, j, 0)
      PROVE  m[base + Around(h, 4 - o, j, n)] = BlockWord(m[base + Around(h, 4 - o, j, 0)], n)
  <2>1. Around(h, o, x, n) \in 0 .. (h - 1) /\ Around(h, o, x, 0) \in 0 .. (h - 1)
    BY AroundFacts
  <2>2. m[base + h + Around(h, o, x, n)] = BlockWord(m[base + h + Around(h, o, x, 0)], n)
    BY DEF InBlocks
  <2> QED BY <1>2, <2>1, <2>2
<1>3. CASE o = 0
  <2>1. Turned(h, Around(h, 0, j, n)) = Around(h, 4, j, n) /\ Turned(h, Around(h, 0, j, 0)) = Around(h, 4, j, 0)
    BY TurnedAround
  <2>2. 4 - o = 4
    BY <1>3
  <2> QED BY <1>2, <1>3, <2>1, <2>2
<1>4. CASE o = 4
  <2> DEFINE x == IF j = 0 THEN q - 1 ELSE j - 1
  <2>1. x \in 0 .. (q - 1) /\ (IF x = q - 1 THEN 0 ELSE x + 1) = j
    BY <1>1
  <2> HIDE DEF x
  <2>2. /\ Turned(h, Around(h, 4, x, n)) = Around(h, 0, j, n)
        /\ Turned(h, Around(h, 4, x, 0)) = Around(h, 0, j, 0)
    <3>1. \A y \in 0 .. 7 : Turned(h, Around(h, 4, x, y)) = Around(h, 0, IF x = q - 1 THEN 0 ELSE x + 1, y)
      BY <2>1, TurnedAround
    <3> QED BY <2>1, <3>1
  <2>3. 4 - o = 0
    BY <1>4
  <2> QED BY <1>2, <1>4, <2>1, <2>2, <2>3
<1> QED BY <1>3, <1>4

Offset == IF call % 2 = 1 THEN 0 ELSE 4

\* The words that are filled are blocks, from a word at a multiple of eight on.
Filling ==
  /\ k = (p - start_p) % 8 /\ p <= pe /\ (pe - start_p) % 16 = 0
  /\ \A a \in Slice : a < p => mem[a] = BlockWord(mem[a - ((a - start_p) % 8)], (a - start_p) % 8)
  /\ k > 0 => pat = mem[p - k]

\* A half of the first chunk is blocks, and so many of its words are copied; when the
\* first chunk is left alone, its lower half is blocks from its start on.
Moving ==
  /\ call \in 1 .. Iterations[item]
  /\ p = start_p =>
       /\ pe = ChunkEnd(start_p) /\ k <= HalfChunk
       /\ sweep = 1 =>
            /\ InBlocks(mem, start_p, HalfChunk, Offset)
            /\ \A i \in 0 .. (k - 1) : mem[start_p + HalfChunk + i] = mem[start_p + i]
       /\ sweep = 2 =>
            /\ InBlocks(mem, start_p + HalfChunk, HalfChunk, Offset)
            /\ \A i \in 0 .. (k - 1) : mem[start_p + Turned(HalfChunk, i)] = mem[start_p + HalfChunk + i]
  /\ p # start_p => p >= ChunkEnd(start_p) /\ InBlocks(mem, start_p, HalfChunk, 0)

\* What is looked at are blocks of that half, one for each chunk.
Checking ==
  /\ InBlocks(mem, start_p, HalfChunk, 0)
  /\ \E j \in 0 .. (HalfChunk \div 8 - 1) :
       /\ p = start_p + 8 * j
       /\ pe = ChunkEnd(start_p + j * MoveChunk) /\ start_p + j * MoveChunk < end

MoveGood ==
  item = MEM_BLOCK_MOVE /\ fault = NoFault =>
    /\ ret = ERR_SUCCESS
    /\ pc = "blocks" => Filling
    /\ pc = "move" => Moving
    /\ pc = "check" => Checking

\* Halves of multiples of sixteen.
LEMMA SixteensFacts ==
  ASSUME NEW a \in Int, NEW b \in Int, a % 16 = 0, b % 16 = 0
  PROVE  (a + b) % 16 = 0 /\ (a > 0 => a >= 16 /\ a \div 2 \in Nat /\ 2 * (a \div 2) = a /\ a \div 2 >= 8 /\ (a \div 2) % 8 = 0)
OBVIOUS

\* The chunks are whole pairs of blocks.
LEMMA ChunkFacts ==
  ASSUME SliceRight, item = MEM_BLOCK_MOVE
  PROVE  /\ start_p \in Nat /\ cnt \in Nat /\ cnt >= 16 /\ cnt % 16 = 0 /\ end = start_p + cnt
         /\ MoveChunk \in Nat /\ MoveChunk >= 16 /\ MoveChunk % 16 = 0
         /\ \A a \in Int : /\ ChunkEnd(a) \in Int /\ ChunkEnd(a) <= end
                           /\ a < end => ChunkEnd(a) > a
                           /\ a + MoveChunk < end => ChunkEnd(a) = a + MoveChunk
                           /\ a + MoveChunk >= end => ChunkEnd(a) = end
                           /\ (a - start_p) % 16 = 0 => (ChunkEnd(a) - start_p) % 16 = 0
         /\ HalfChunk \in Nat /\ HalfChunk >= 8 /\ HalfChunk % 8 = 0
         /\ start_p + 2 * HalfChunk = ChunkEnd(start_p)
<1>1. start_p \in Nat /\ cnt \in Nat /\ cnt > 0 /\ cnt % 16 = 0 /\ end = start_p + cnt
  BY DEF SliceRight, BlockWords, end
<1>2. MoveChunk \in Nat /\ MoveChunk > 0 /\ MoveChunk % 16 = 0
  BY AddressAssumption, ChunkAssumption DEF BlockWords
<1>3. cnt >= 16 /\ MoveChunk >= 16
  BY <1>1, <1>2
<1>4. ASSUME NEW a \in Int
      PROVE  /\ ChunkEnd(a) \in Int /\ ChunkEnd(a) <= end
             /\ a < end => ChunkEnd(a) > a
             /\ a + MoveChunk < end => ChunkEnd(a) = a + MoveChunk
             /\ a + MoveChunk >= end => ChunkEnd(a) = end
             /\ (a - start_p) % 16 = 0 => (ChunkEnd(a) - start_p) % 16 = 0
  <2>1. (a - start_p) % 16 = 0 => ((a - start_p) + MoveChunk) % 16 = 0
    BY <1>1, <1>2, SixteensFacts
  <2>2. (a - start_p) + MoveChunk = (a + MoveChunk) - start_p /\ end - start_p = cnt
    BY <1>1, <1>2
  <2>3. ChunkEnd(a) = IF a + MoveChunk >= end THEN end ELSE a + MoveChunk
    BY DEF ChunkEnd
  <2>4. (a - start_p) % 16 = 0 => (ChunkEnd(a) - start_p) % 16 = 0
    BY <1>1, <2>1, <2>2, <2>3
  <2> QED BY <1>1, <1>2, <2>3, <2>4
<1> DEFINE d == ChunkEnd(start_p) - start_p
<1>5. start_p - start_p = 0 /\ 0 % 16 = 0 /\ start_p \in Int
  BY <1>1
<1>6. d \in Int /\ d > 0 /\ d % 16 = 0
  BY <1>1, <1>4, <1>5
<1>7. HalfChunk = d \div 2
  BY DEF HalfChunk
<1> HIDE DEF d
<1>8. HalfChunk \in Nat /\ HalfChunk >= 8 /\ HalfChunk % 8 = 0 /\ 2 * HalfChunk = d
  BY <1>6, <1>7, SixteensFacts
<1>9. start_p + 2 * HalfChunk = ChunkEnd(start_p)
  <2>1. ChunkEnd(start_p) \in Int
    BY <1>4, <1>5
  <2>2. 2 * HalfChunk = ChunkEnd(start_p) - start_p
    BY <1>8 DEF d
  <2> HIDE DEF HalfChunk
  <2> QED BY <1>1, <1>8, <2>1, <2>2
<1> QED BY <1>1, <1>2, <1>3, <1>4, <1>8, <1>9

\* A block's first word keeps the pattern, and no word of it is a mixture.
LEMMA BlockRight ==
  ASSUME fault = NoFault, NEW a \in Int, \A n \in 0 .. 7 : mem[a + n] = BlockWord(mem[a], n)
  PROVE  BlockIsRight(a)
<1> DEFINE w(n) == Load(mem, fault, a + n)
<1>1. \A x : Load(mem, fault, x) = mem[x]
  BY GoodMemory
<1>2. \A n \in 0 .. 7 : w(n) = BlockWord(mem[a], n)
  BY <1>1
<1>3. a + 0 = a
  OBVIOUS
<1>4. w(0) = mem[a]
  BY <1>1, <1>3
<1> HIDE DEF w
<1>5. w(1) = w(0) /\ w(6) = w(0) /\ w(3) = w(0) /\ w(4) = w(0)
  BY <1>2, <1>4 DEF BlockWord, Complemented
<1>6. \A n \in Complemented : w(n) = Not(w(0))
  BY <1>2, <1>4 DEF BlockWord, Complemented
<1>7. w(1) = w(0) /\ w(6) = w(0) /\ w(0) \in {w(3), w(4)} /\ \A n \in Complemented : w(n) = Not(w(0))
  BY <1>5, <1>6
<1> QED BY <1>7, Zenon DEF BlockIsRight, w

\* Filling keeps the blocks.
LEMMA FillGood ==
  ASSUME SliceRight, MemTypes, MovePosition, MoveGood, fault = NoFault, FillBlockWord
  PROVE  Filling'
<1>1. item = MEM_BLOCK_MOVE /\ UNCHANGED arguments /\ pc = "blocks"
  BY DEF FillBlockWord
<1>2. Slice' = Slice /\ start_p' = start_p
  BY <1>1 DEF arguments, Slice, end
<1>3. /\ k = (p - start_p) % 8 /\ p <= pe /\ (pe - start_p) % 16 = 0
      /\ \A a \in Slice : a < p => mem[a] = BlockWord(mem[a - ((a - start_p) % 8)], (a - start_p) % 8)
      /\ k > 0 => pat = mem[p - k]
  BY <1>1 DEF MoveGood, Filling
<1>4. /\ mem \in Memories /\ pat \in Words /\ p \in Int /\ pe \in Int /\ k \in Nat
      /\ start_p \in Nat /\ p >= start_p /\ p < end /\ p \in Slice
      /\ Slice \subseteq Addresses /\ \A a \in Slice : a \in Int /\ a >= start_p
  <2>1. \A a \in Slice : a \in Int /\ a >= start_p
    BY DEF Slice, SliceRight
  <2>2. p \in start_p .. end /\ p < end /\ start_p \in Nat
    BY <1>1 DEF MovePosition, FillBlockWord, SliceRight
  <2>3. p \in Slice
    BY <1>1, <2>2, ChunkFacts DEF Slice
  <2> QED BY <2>1, <2>2, <2>3, LocalsAre DEF SliceRight
<1> DEFINE w == IF p = pe THEN OneBit(0) ELSE pat
           last == k = BlockWords - 1
<1>5. \E carry : /\ mem' = Store(mem, fault, p, BlockWord(w, k))
                 /\ pat' = IF last THEN ShiftLeft(w, 1, carry) ELSE w
  BY Zenon DEF FillBlockWord
<1>6. /\ p' = p + 1 /\ k' = (k + 1) % 8 /\ pe' = IF p = pe THEN ChunkEnd(p) ELSE pe
  BY DEF FillBlockWord, BlockWords
<1>7. mem' = [mem EXCEPT ![p] = BlockWord(w, k)] /\ (k # 7 => pat' = w)
  <2>1. \A x : Store(mem, fault, p, x) = [mem EXCEPT ![p] = x]
    BY GoodMemory
  <2> HIDE DEF w
  <2> QED BY <1>5, <2>1 DEF BlockWords
<1>8. p = pe => k = 0
  BY <1>3, <1>4
<1>9. k' = (p' - start_p') % 8 /\ k \in 0 .. 7 /\ (k' > 0 => k' = k + 1 /\ k # 7)
  BY <1>2, <1>3, <1>4, <1>6
<1>10. p' <= pe' /\ (pe' - start_p') % 16 = 0
  <2>1. CASE p = pe
    BY <1>1, <1>2, <1>3, <1>4, <1>6, <2>1, ChunkFacts
  <2>2. CASE p # pe
    BY <1>2, <1>3, <1>4, <1>6, <2>2
  <2> QED BY <2>1, <2>2
<1>11. mem'[p] = BlockWord(w, k) /\ \A a \in Slice : a # p => mem'[a] = mem[a]
  <2> HIDE DEF w
  <2> QED BY <1>4, <1>7 DEF Memories
<1>12. BlockWord(w, 0) = w
  <2> HIDE DEF w
  <2> QED BY DEF BlockWord, Complemented
<1>13. mem'[p - k] = w /\ p - k \in Slice
  <2>1. p - k \in Slice /\ p - k \in Int
    <3>1. p - k >= start_p /\ p - k \in Int /\ p - k < end
      <4>1. end \in Int
        BY <1>1, ChunkFacts
      <4>2. (p - start_p) % 8 <= p - start_p
        BY <1>4
      <4> QED BY <1>3, <1>4, <1>9, <4>1, <4>2
    <3> QED BY <1>1, <1>4, <3>1, ChunkFacts DEF Slice
  <2>2. CASE k = 0
    <3>1. p - k = p
      BY <1>4, <2>2
    <3> QED BY <1>11, <1>12, <2>1, <2>2, <3>1
  <2>3. CASE k > 0
    <3>1. w = pat /\ p - k # p
      BY <1>4, <1>8, <2>3
    <3>2. mem'[p - k] = mem[p - k]
      BY <1>11, <2>1, <3>1
    <3> HIDE DEF w
    <3> QED BY <1>3, <2>1, <2>3, <3>1, <3>2
  <2> QED BY <1>4, <2>2, <2>3
<1>14. ASSUME NEW a \in Slice, a < p'
       PROVE  mem'[a] = BlockWord(mem'[a - ((a - start_p) % 8)], (a - start_p) % 8)
  <2> DEFINE n == (a - start_p) % 8
  <2>1. n \in 0 .. 7 /\ a - n >= start_p /\ a - n \in Int /\ a - n <= a /\ a \in Int
    BY <1>4
  <2>2. CASE a = p
    <3>1. n = k
      BY <1>3, <2>2
    <3> HIDE DEF n, w
    <3> QED BY <1>11, <1>13, <2>2, <3>1 DEF n
  <2>3. CASE a # p
    <3>1. a < p
      BY <1>4, <1>6, <1>14, <2>3
    <3>2. a - n \in Slice /\ a - n # p
      <4> HIDE DEF n
      <4>1. a - n < p
        BY <1>4, <2>1, <3>1
      <4> QED BY <1>1, <1>4, <2>1, <4>1, ChunkFacts DEF Slice
    <3>3. mem[a] = BlockWord(mem[a - n], n)
      BY <1>3, <3>1
    <3> HIDE DEF n
    <3>4. mem'[a] = mem[a] /\ mem'[a - n] = mem[a - n]
      BY <1>11, <2>3, <3>2
    <3>5. mem'[a] = BlockWord(mem'[a - n], n)
      BY <3>3, <3>4
    <3> QED BY <3>5 DEF n
  <2> QED BY <2>2, <2>3
<1>15. k' > 0 => pat' = mem'[p' - k']
  <2>1. ASSUME k' > 0 PROVE p' - k' = p - k
    BY <1>4, <1>6, <1>9, <2>1
  <2> HIDE DEF w
  <2> QED BY <1>7, <1>9, <1>13, <2>1
<1> QED BY <1>2, <1>9, <1>10, <1>14, <1>15 DEF Filling

\* The blocks that are filled are those that are moved.
LEMMA StartGood ==
  ASSUME SliceRight, MovePosition, MoveGood, fault = NoFault, StartMoving
  PROVE  Moving'
<1> DEFINE h == HalfChunk
<1>1. /\ item = MEM_BLOCK_MOVE /\ UNCHANGED arguments /\ pc = "blocks" /\ p = end
      /\ p' = start_p /\ pe' = ChunkEnd(start_p) /\ call' = 1 /\ sweep' = 1 /\ k' = 0 /\ mem' = mem
  BY DEF StartMoving
<1>2. /\ start_p' = start_p /\ HalfChunk' = h /\ item' = item
      /\ \A a : ChunkEnd(a)' = ChunkEnd(a)
  BY <1>1 DEF arguments, HalfChunk, ChunkEnd, end
<1>3. \A a \in Slice : a < p => mem[a] = BlockWord(mem[a - ((a - start_p) % 8)], (a - start_p) % 8)
  BY <1>1 DEF MoveGood, Filling
<1>4. /\ h \in Nat /\ h >= 8 /\ h % 8 = 0 /\ start_p + 2 * h <= end /\ start_p \in Nat /\ end \in Nat
      /\ end = start_p + cnt
  <2>1. end \in Nat /\ start_p \in Int
    BY <1>1, ChunkFacts
  <2> HIDE DEF h
  <2> QED BY <1>1, <2>1, ChunkFacts DEF h
<1>5. InBlocks(mem, start_p, h, 0)
  <2> HIDE DEF h
  <2>1. SUFFICES ASSUME NEW j \in 0 .. (h \div 8 - 1), NEW n \in 0 .. 7
                 PROVE  mem[start_p + Around(h, 0, j, n)] = BlockWord(mem[start_p + Around(h, 0, j, 0)], n)
    BY DEF InBlocks
  <2>2. /\ 8 * j + n \in 0 .. (h - 1) /\ Around(h, 0, j, n) = 8 * j + n /\ Around(h, 0, j, 0) = 8 * j
    <3>1. 0 \in 0 .. 7 /\ 0 \in {0, 4} /\ 8 * j + 0 = 8 * j
      BY <1>4
    <3> QED BY <1>4, <3>1, AroundFacts
  <2> DEFINE a == start_p + (8 * j + n)
  <2>3. j \in Nat /\ 8 * j \in Nat
    BY <1>4
  <2>4. (a - start_p) % 8 = n /\ a - n = start_p + 8 * j /\ a \in Int
    BY <1>4, <2>3
  <2>5. a \in Slice /\ a < end
    BY <1>4, <2>2 DEF Slice
  <2> HIDE DEF a
  <2>6. mem[a] = BlockWord(mem[a - ((a - start_p) % 8)], (a - start_p) % 8)
    BY <1>1, <1>3, <2>5
  <2>7. mem[a] = BlockWord(mem[start_p + 8 * j], n)
    BY <2>4, <2>6
  <2> QED BY <2>2, <2>7 DEF a
<1>6. Offset' = 0
  BY <1>1 DEF Offset
<1>7. call' \in 1 .. Iterations[item]'
  <2>1. Iterations[item] \in Nat \ {0}
    BY <1>1, IterationAssumption DEF Items, MEM_BLOCK_MOVE, MEM_ADD_WALK_ONES, MEM_BIT_FADE_TEST
  <2> QED BY <1>1, <1>2, <2>1
<1>8. \A i \in 0 .. (k' - 1) : FALSE
  BY <1>1
<1> HIDE DEF h
<1> QED BY <1>1, <1>2, <1>4, <1>5, <1>6, <1>7, <1>8 DEF Moving

\* A word that is moved is a word of the chunk that is moved, and no word that has
\* been moved yet.
LEMMA MovedGood ==
  ASSUME SliceRight, MemTypes, MovePosition, MoveGood, fault = NoFault, MoveWord
  PROVE  Moving'
<1> DEFINE h == HalfChunk
<1>1. /\ item = MEM_BLOCK_MOVE /\ UNCHANGED arguments /\ pc = "move" /\ k < Half
      /\ mem' = Store(mem, fault, Dest, Load(mem, fault, Source))
      /\ k' = k + 1 /\ UNCHANGED <<call, sweep, p, pe>>
  BY DEF MoveWord
<1>2. /\ start_p' = start_p /\ HalfChunk' = h /\ item' = item /\ Offset' = Offset
      /\ \A a : ChunkEnd(a)' = ChunkEnd(a)
  BY <1>1 DEF arguments, HalfChunk, ChunkEnd, end, Offset
<1>3. Moving
  BY <1>1 DEF MoveGood
<1>4. h \in Nat /\ h >= 8 /\ h % 8 = 0 /\ start_p + 2 * h = ChunkEnd(start_p) /\ start_p \in Nat
  BY <1>1, ChunkFacts
<1>5. /\ Half \in Nat /\ Half >= 8 /\ p + 2 * Half = pe
      /\ p \in Nat /\ k \in Nat /\ sweep \in {1, 2} /\ p >= start_p /\ pe <= end /\ pe \in Nat /\ end \in Nat
  BY <1>1, HalfFacts
<1>6. mem' = [mem EXCEPT ![Dest] = mem[Source]]
  <2>1. /\ \A x, w : Store(mem, fault, x, w) = [mem EXCEPT ![x] = w]
        /\ \A x : Load(mem, fault, x) = mem[x]
    BY GoodMemory
  <2> DEFINE x == Dest
             y == Source
  <2>2. mem' = Store(mem, fault, x, Load(mem, fault, y))
    BY <1>1
  <2> HIDE DEF x, y
  <2>3. mem' = [mem EXCEPT ![x] = mem[y]]
    BY <2>1, <2>2
  <2> QED BY <2>3 DEF x, y
<1>7. /\ Dest \in Nat /\ p <= Dest /\ Dest < pe
      /\ sweep = 1 => Dest = p + Half + k
      /\ sweep = 2 => Dest = p + Turned(Half, k)
      /\ Source = IF sweep = 1 THEN p + k ELSE p + Half + k
  <2>1. sweep = 1 => Dest = p + Half + k
    BY <1>5 DEF Dest
  <2>2. sweep = 2 => Dest = IF k < Half - 4 THEN p + 4 + k ELSE p + k - (Half - 4)
    BY <1>5 DEF Dest, HalfBlock
  <2>3. sweep = 2 => Dest = p + Turned(Half, k)
    BY <1>5, <2>2 DEF Turned
  <2>4. Dest \in Nat /\ p <= Dest /\ Dest < pe
    BY <1>1, <1>5, <2>1, <2>2
  <2> QED BY <2>1, <2>3, <2>4 DEF Source
<1>8. /\ mem'[Dest] = mem[Source]
      /\ \A a : a # Dest => (a \in Addresses => mem'[a] = mem[a])
      /\ \A a \in start_p .. (end - 1) : a \in Addresses
  <2>1. DOMAIN mem = Addresses /\ Slice \subseteq Addresses
    BY LocalsAre DEF SliceRight
  <2>2. \A a \in start_p .. (end - 1) : a \in Addresses
    BY <1>1, <2>1, ChunkFacts DEF Slice
  <2>3. Dest \in Addresses
    BY <1>4, <1>5, <1>7, <2>2
  <2> QED BY <1>6, <2>1, <2>2, <2>3
<1>9. ChunkEnd(start_p) <= end /\ ChunkEnd(start_p) \in Nat
  BY <1>1, <1>4, ChunkFacts
<1> HIDE DEF h
<1>10. ASSUME p # start_p
       PROVE  p' >= ChunkEnd(start_p) /\ InBlocks(mem', start_p, h, 0)
  <2>1. p >= ChunkEnd(start_p) /\ InBlocks(mem, start_p, h, 0)
    BY <1>3, <1>10 DEF Moving, h
  <2>2. ASSUME NEW i \in 0 .. (h - 1) PROVE mem'[start_p + i] = mem[start_p + i]
    <3>1. start_p + i # Dest /\ start_p + i \in start_p .. (end - 1)
      BY <1>4, <1>5, <1>7, <1>9, <2>1
    <3> QED BY <1>8, <3>1
  <2>3. InBlocks(mem', start_p, h, 0)
    BY <1>4, <2>1, <2>2, BlocksStay
  <2> QED BY <1>1, <2>1, <2>3
<1>11. p = start_p => Half = h /\ pe = ChunkEnd(start_p)
  BY <1>3 DEF Moving, h, HalfChunk, Half
<1>12. ASSUME p = start_p, sweep = 1
       PROVE  /\ InBlocks(mem', start_p, h, Offset)
              /\ \A i \in 0 .. (k' - 1) : mem'[start_p + h + i] = mem'[start_p + i]
  <2>1. /\ InBlocks(mem, start_p, h, Offset)
        /\ \A i \in 0 .. (k - 1) : mem[start_p + h + i] = mem[start_p + i]
    BY <1>3, <1>12 DEF Moving, h
  <2>2. ASSUME NEW i \in 0 .. (h - 1) PROVE mem'[start_p + i] = mem[start_p + i]
    <3>1. start_p + i # Dest /\ start_p + i \in start_p .. (end - 1)
      BY <1>4, <1>5, <1>7, <1>9, <1>11, <1>12
    <3> QED BY <1>8, <3>1
  <2>3. InBlocks(mem', start_p, h, Offset)
    <3>1. Offset \in {0, 4} /\ start_p \in Int
      BY <1>4 DEF Offset
    <3> QED BY <1>4, <2>1, <2>2, <3>1, BlocksStay
  <2>4. ASSUME NEW i \in 0 .. (k' - 1) PROVE mem'[start_p + h + i] = mem'[start_p + i]
    <3>1. i \in 0 .. k /\ i \in 0 .. (h - 1)
      BY <1>1, <1>4, <1>5, <1>11, <1>12
    <3>2. mem'[start_p + i] = mem[start_p + i]
      BY <2>2, <3>1
    <3>3. CASE i = k
      <4>1. Dest = start_p + h + i /\ Source = start_p + i
        BY <1>4, <1>5, <1>7, <1>11, <1>12, <3>3
      <4> QED BY <1>8, <3>2, <4>1
    <3>4. CASE i # k
      <4>1. /\ start_p + h + i # Dest /\ start_p + h + i \in start_p .. (end - 1) /\ i \in 0 .. (k - 1)
        BY <1>4, <1>5, <1>7, <1>9, <1>11, <1>12, <3>1, <3>4
      <4>2. mem'[start_p + h + i] = mem[start_p + h + i]
        BY <1>8, <4>1
      <4> QED BY <2>1, <3>2, <4>1, <4>2
    <3> QED BY <3>3, <3>4
  <2> QED BY <2>3, <2>4
<1>13. ASSUME p = start_p, sweep = 2
       PROVE  /\ InBlocks(mem', start_p + h, h, Offset)
              /\ \A i \in 0 .. (k' - 1) : mem'[start_p + Turned(h, i)] = mem'[start_p + h + i]
  <2>1. /\ InBlocks(mem, start_p + h, h, Offset)
        /\ \A i \in 0 .. (k - 1) : mem[start_p + Turned(h, i)] = mem[start_p + h + i]
    BY <1>3, <1>13 DEF Moving, h
  <2>2. k \in 0 .. (h - 1) /\ Dest = start_p + Turned(h, k) /\ Source = start_p + h + k
    BY <1>1, <1>4, <1>5, <1>7, <1>11, <1>13
  <2>3. /\ \A i \in 0 .. (h - 1) : Turned(h, i) \in 0 .. (h - 1)
        /\ \A i, x \in 0 .. (h - 1) : Turned(h, i) = Turned(h, x) => i = x
    BY <1>4, TurnedFacts
  <2>4. ASSUME NEW i \in 0 .. (h - 1) PROVE mem'[start_p + h + i] = mem[start_p + h + i]
    <3>1. start_p + h + i # Dest /\ start_p + h + i \in start_p .. (end - 1)
      BY <1>4, <1>5, <1>9, <2>2, <2>3
    <3> QED BY <1>8, <3>1
  <2>5. InBlocks(mem', start_p + h, h, Offset)
    <3>1. Offset \in {0, 4} /\ start_p + h \in Int
      BY <1>4 DEF Offset
    <3> QED BY <1>4, <2>1, <2>4, <3>1, BlocksStay
  <2>6. ASSUME NEW i \in 0 .. (k' - 1) PROVE mem'[start_p + Turned(h, i)] = mem'[start_p + h + i]
    <3>1. i \in 0 .. k /\ i \in 0 .. (h - 1)
      BY <1>1, <1>4, <1>5, <2>2
    <3>2. mem'[start_p + h + i] = mem[start_p + h + i]
      BY <2>4, <3>1
    <3>3. CASE i = k
      BY <1>8, <2>2, <3>2, <3>3
    <3>4. CASE i # k
      <4>1. Turned(h, i) # Turned(h, k) /\ Turned(h, i) \in 0 .. (h - 1) /\ Turned(h, k) \in 0 .. (h - 1)
        BY <2>2, <2>3, <3>1, <3>4
      <4>2. start_p + Turned(h, i) # Dest /\ start_p + Turned(h, i) \in start_p .. (end - 1)
        BY <1>4, <1>5, <1>9, <2>2, <4>1
      <4>3. mem'[start_p + Turned(h, i)] = mem[start_p + Turned(h, i)]
        BY <1>8, <4>2
      <4>4. i \in 0 .. (k - 1)
        BY <2>2, <3>1, <3>4
      <4> QED BY <2>1, <3>2, <4>3, <4>4
    <3> QED BY <3>3, <3>4
  <2> QED BY <2>5, <2>6
<1>14. call' \in 1 .. Iterations[item]'
  BY <1>1, <1>2, <1>3 DEF Moving
<1>15. p = start_p => pe' = ChunkEnd(start_p) /\ k' <= h
  BY <1>1, <1>4, <1>5, <1>11
<1>16. HalfChunk' = h
  BY <1>2 DEF h
<1> QED BY <1>1, <1>2, <1>10, <1>12, <1>13, <1>14, <1>15, <1>16 DEF Moving

\* The upper half has the blocks of the lower one when it is copied.
LEMMA BlocksCopied ==
  ASSUME NEW m, NEW base \in Int, NEW h \in Nat, h >= 8, h % 8 = 0, NEW o \in {0, 4},
         InBlocks(m, base, h, o), \A i \in 0 .. (h - 1) : m[base + h + i] = m[base + i]
  PROVE  InBlocks(m, base + h, h, o)
<1> SUFFICES ASSUME NEW j \in 0 .. (h \div 8 - 1), NEW n \in 0 .. 7
             PROVE  m[base + h + Around(h, o, j, n)] = BlockWord(m[base + h + Around(h, o, j, 0)], n)
  BY DEF InBlocks
<1>1. Around(h, o, j, n) \in 0 .. (h - 1) /\ Around(h, o, j, 0) \in 0 .. (h - 1)
  BY AroundFacts
<1>2. m[base + Around(h, o, j, n)] = BlockWord(m[base + Around(h, o, j, 0)], n)
  BY DEF InBlocks
<1> QED BY <1>1, <1>2

\* After an even number of iterations the blocks are where they were.
LEMMA EndGood ==
  ASSUME SliceRight, MovePosition, MoveGood, fault = NoFault, EndMove
  PROVE  (pc' = "move" /\ Moving') \/ (pc' = "check" /\ Checking')
<1> DEFINE h == HalfChunk
           n == Iterations[item]
<1>1. item = MEM_BLOCK_MOVE /\ UNCHANGED arguments /\ pc = "move" /\ k = Half /\ k' = 0 /\ mem' = mem
  BY DEF EndMove
<1>2. /\ start_p' = start_p /\ HalfChunk' = h /\ item' = item /\ end' = end
      /\ \A a : ChunkEnd(a)' = ChunkEnd(a)
  BY <1>1 DEF arguments, HalfChunk, ChunkEnd, end
<1>3. Moving
  BY <1>1 DEF MoveGood
<1>4. h \in Nat /\ h >= 8 /\ h % 8 = 0 /\ start_p + 2 * h = ChunkEnd(start_p) /\ start_p \in Nat
  BY <1>1, ChunkFacts
<1>5. /\ Half \in Nat /\ Half >= 8 /\ p + 2 * Half = pe
      /\ p \in Nat /\ sweep \in {1, 2} /\ p >= start_p /\ pe <= end /\ pe \in Nat /\ end \in Nat
  BY <1>1, HalfFacts
<1>6. n \in Nat \ {0} /\ n % 2 = 0
  <2>1. n \in Nat \ {0}
    BY <1>1, IterationAssumption DEF Items, MEM_BLOCK_MOVE, MEM_ADD_WALK_ONES, MEM_BIT_FADE_TEST
  <2> QED BY <1>1, <2>1, SweepAssumption
<1> HIDE DEF h, n
<1>7. call \in 1 .. n
  BY <1>3 DEF Moving, n
<1>8. \/ sweep = 1 /\ sweep' = 2 /\ UNCHANGED <<pc, call, p, pe>>
      \/ sweep = 2 /\ call < n /\ sweep' = 1 /\ call' = call + 1 /\ UNCHANGED <<pc, p, pe>>
      \/ sweep = 2 /\ call = n /\ pe < end /\ sweep' = 1 /\ call' = 1 /\ p' = pe /\ pe' = ChunkEnd(pe) /\ pc' = pc
      \/ sweep = 2 /\ call = n /\ pc' = "check" /\ p' = start_p /\ pe' = ChunkEnd(start_p) /\ UNCHANGED <<sweep, call>>
  <2>1. (CASE sweep = 1 -> sweep' = 2 /\ UNCHANGED <<pc, call, p, pe>>
           [] sweep = 2 /\ call < n -> sweep' = 1 /\ call' = call + 1 /\ UNCHANGED <<pc, p, pe>>
           [] sweep = 2 /\ call = n /\ pe < end ->
                sweep' = 1 /\ call' = 1 /\ p' = pe /\ pe' = ChunkEnd(pe) /\ UNCHANGED pc
           [] OTHER -> pc' = "check" /\ p' = start_p /\ pe' = ChunkEnd(start_p) /\ UNCHANGED <<sweep, call>>)
    BY Zenon DEF EndMove, n
  <2>2. CASE sweep = 1
    BY <2>1, <2>2
  <2>3. CASE sweep = 2 /\ call < n
    BY <2>1, <2>3
  <2>4. CASE sweep = 2 /\ call = n
    BY <1>6, <2>1, <2>4
  <2> QED BY <1>5, <1>6, <1>7, <2>2, <2>3, <2>4
<1>9. p = start_p =>
        /\ pe = ChunkEnd(start_p) /\ k = h
        /\ sweep = 1 => /\ InBlocks(mem, start_p, h, Offset)
                        /\ \A i \in 0 .. (h - 1) : mem[start_p + h + i] = mem[start_p + i]
        /\ sweep = 2 => /\ InBlocks(mem, start_p + h, h, Offset)
                        /\ \A i \in 0 .. (h - 1) : mem[start_p + Turned(h, i)] = mem[start_p + h + i]
  <2>1. p = start_p => pe = ChunkEnd(start_p)
    BY <1>3 DEF Moving
  <2>2. p = start_p => k = h
    BY <1>1, <2>1 DEF h, HalfChunk, Half
  <2> QED BY <1>3, <2>1, <2>2 DEF Moving, h
<1>10. p # start_p => p >= ChunkEnd(start_p) /\ InBlocks(mem, start_p, h, 0)
  BY <1>3 DEF Moving, h
<1>11. Offset \in {0, 4} /\ start_p \in Int /\ start_p + h \in Int
  BY <1>4 DEF Offset
<1>12. p = start_p /\ sweep = 1 => InBlocks(mem, start_p + h, h, Offset)
  BY <1>4, <1>9, <1>11, BlocksCopied
<1>13. p = start_p /\ sweep = 2 => InBlocks(mem, start_p, h, 4 - Offset)
  BY <1>4, <1>9, <1>11, BlocksTurn
<1>14. call = n /\ sweep = 2 => InBlocks(mem, start_p, h, 0)
  <2>1. call = n => 4 - Offset = 0
    BY <1>6 DEF Offset
  <2> QED BY <1>10, <1>13, <2>1
<1>15. \A i \in 0 .. (k' - 1) : FALSE
  BY <1>1
<1>16. HalfChunk' = h /\ Iterations[item]' = n /\ ChunkEnd(start_p)' = ChunkEnd(start_p)
  BY <1>2 DEF h, n
<1>17. k' <= h
  BY <1>1, <1>4
<1>18. CASE sweep = 1 /\ sweep' = 2 /\ UNCHANGED <<pc, call, p, pe>>
  <2>1. Offset' = Offset
    BY <1>18 DEF Offset
  <2>2. Moving'
    BY <1>1, <1>2, <1>7, <1>9, <1>10, <1>12, <1>15, <1>16, <1>17, <1>18, <2>1 DEF Moving
  <2> QED BY <1>1, <1>18, <2>2
<1>19. CASE sweep = 2 /\ call < n /\ sweep' = 1 /\ call' = call + 1 /\ UNCHANGED <<pc, p, pe>>
  <2>1. Offset' = 4 - Offset
    BY <1>7, <1>6, <1>19 DEF Offset
  <2>2. call' \in 1 .. n
    BY <1>6, <1>7, <1>19
  <2>3. Moving'
    BY <1>1, <1>2, <1>9, <1>10, <1>13, <1>15, <1>16, <1>17, <1>19, <2>1, <2>2 DEF Moving
  <2> QED BY <1>1, <1>19, <2>3
<1>20. CASE sweep = 2 /\ call = n /\ pe < end /\ sweep' = 1 /\ call' = 1 /\ p' = pe /\ pe' = ChunkEnd(pe) /\ pc' = pc
  <2>1. p' # start_p /\ p' >= ChunkEnd(start_p)
    <3>1. p' > p /\ p' > start_p
      <4>1. pe > p /\ pe > start_p
        BY <1>4, <1>5
      <4> QED BY <1>20, <4>1
    <3>2. ChunkEnd(start_p) \in Int
      BY <1>1, <1>11, ChunkFacts
    <3>3. p = start_p => p' = ChunkEnd(start_p)
      BY <1>9, <1>20
    <3>4. p # start_p => p >= ChunkEnd(start_p)
      BY <1>10
    <3> QED BY <1>4, <1>5, <1>20, <3>1, <3>2, <3>3, <3>4
  <2>2. call' \in 1 .. n
    BY <1>6, <1>20
  <2>3. Moving'
    BY <1>1, <1>2, <1>14, <1>16, <1>20, <2>1, <2>2 DEF Moving
  <2> QED BY <1>1, <1>20, <2>3
<1>21. CASE sweep = 2 /\ call = n /\ pc' = "check" /\ p' = start_p /\ pe' = ChunkEnd(start_p) /\ UNCHANGED <<sweep, call>>
  <2>1. 0 \in 0 .. (h \div 8 - 1) /\ start_p + 8 * 0 = start_p /\ start_p + 0 * MoveChunk = start_p
    <3>1. 0 * MoveChunk = 0
      BY AddressAssumption
    <3> QED BY <1>4, <3>1
  <2>2. start_p < end
    BY <1>1, ChunkFacts
  <2>3. InBlocks(mem', start_p', HalfChunk', 0)
    BY <1>1, <1>2, <1>14, <1>16, <1>21
  <2>4. \E j \in 0 .. (h \div 8 - 1) :
          /\ p' = start_p + 8 * j
          /\ pe' = ChunkEnd(start_p + j * MoveChunk) /\ start_p + j * MoveChunk < end
    BY <1>21, <2>1, <2>2
  <2>5. Checking'
    BY <1>2, <1>16, <2>3, <2>4 DEF Checking
  <2> QED BY <1>21, <2>5
<1> QED BY <1>8, <1>18, <1>19, <1>20, <1>21

\* The block that is looked at next is one of the lower half of the first chunk.
LEMMA CheckGood ==
  ASSUME SliceRight, MoveGood, fault = NoFault, CheckBlock
  PROVE  Return(ERR_SUCCESS) \/ (pc' = "check" /\ ret' = ret /\ Checking')
<1> DEFINE h == HalfChunk
           q == h \div 8
<1>1. item = MEM_BLOCK_MOVE /\ UNCHANGED arguments /\ pc = "check" /\ mem' = mem
  BY DEF CheckBlock
<1>2. /\ start_p' = start_p /\ HalfChunk' = h /\ end' = end
      /\ \A a : ChunkEnd(a)' = ChunkEnd(a)
  BY <1>1 DEF arguments, HalfChunk, ChunkEnd, end
<1>3. /\ h \in Nat /\ h >= 8 /\ h % 8 = 0 /\ start_p + 2 * h = ChunkEnd(start_p) /\ start_p \in Nat
      /\ cnt \in Nat /\ cnt >= 16 /\ end = start_p + cnt /\ MoveChunk \in Nat /\ MoveChunk >= 16 /\ MoveChunk % 16 = 0
  BY <1>1, ChunkFacts
<1>4. InBlocks(mem, start_p, h, 0)
  BY <1>1 DEF MoveGood, Checking
<1>5. PICK j \in 0 .. (q - 1) :
        /\ p = start_p + 8 * j
        /\ pe = ChunkEnd(start_p + j * MoveChunk) /\ start_p + j * MoveChunk < end
  BY <1>1 DEF MoveGood, Checking
<1>6. q \in Nat /\ h = 8 * q /\ j \in Nat /\ p \in Int
  BY <1>3, <1>5
<1>7. BlockIsRight(p)
  <2>1. ASSUME NEW n \in 0 .. 7 PROVE mem[p + n] = BlockWord(mem[p], n)
    <3>1. Around(h, 0, j, n) = 8 * j + n /\ Around(h, 0, j, 0) = 8 * j
      <4>1. 0 \in 0 .. 7 /\ 0 \in {0, 4} /\ 8 * j + 0 = 8 * j
        BY <1>6
      <4> QED BY <1>3, <1>5, <4>1, AroundFacts
    <3>2. mem[start_p + Around(h, 0, j, n)] = BlockWord(mem[start_p + Around(h, 0, j, 0)], n)
      BY <1>4, <1>5 DEF InBlocks
    <3>3. start_p + (8 * j + n) = p + n
      <4> DEFINE x == 8 * j
      <4>1. x \in Nat /\ p = start_p + x
        BY <1>5, <1>6
      <4> HIDE DEF x
      <4>2. start_p + (x + n) = p + n
        BY <1>3, <4>1
      <4> QED BY <4>2 DEF x
    <3> QED BY <1>5, <3>1, <3>2, <3>3
  <2> QED BY <1>6, <2>1, BlockRight
<1>8. CASE pe = end
  BY <1>7, <1>8 DEF CheckBlock
<1>9. CASE pe # end
  <2>1. /\ p' = p + 8 /\ pe' = ChunkEnd(pe) /\ pc' = pc /\ ret' = ret
    BY <1>7, <1>9 DEF CheckBlock, BlockWords
  <2> DEFINE a == start_p + j * MoveChunk
             i == j + 1
  <2>2. j * MoveChunk \in Nat /\ i * MoveChunk = j * MoveChunk + MoveChunk /\ i * MoveChunk \in Nat
    BY <1>3, <1>6
  <2>3. a \in Int /\ a + MoveChunk = start_p + i * MoveChunk
    BY <1>3, <2>2
  <2>4. pe = start_p + i * MoveChunk /\ start_p + i * MoveChunk < end
    <3> HIDE DEF a
    <3>1. pe = ChunkEnd(a)
      BY <1>5 DEF a
    <3>2. a + MoveChunk < end
      <4>1. a + MoveChunk >= end => ChunkEnd(a) = end
        BY <1>1, <2>3, ChunkFacts
      <4> QED BY <1>3, <1>9, <2>3, <3>1, <4>1
    <3>3. pe = a + MoveChunk
      BY <1>1, <2>3, <3>1, <3>2, ChunkFacts
    <3> QED BY <2>3, <3>2, <3>3
  <2>5. i \in 0 .. (q - 1)
    <3> DEFINE z == MoveChunk \div 16
    <3>1. z \in Nat /\ MoveChunk = 16 * z
      BY <1>3
    <3>2. cnt <= MoveChunk * z
      BY <1>1 DEF SliceRight, BlockWords
    <3>3. i * MoveChunk < cnt
      BY <1>3, <2>2, <2>4
    <3>4. i < z
      <4> HIDE DEF i, z
      <4>1. ASSUME i >= z PROVE FALSE
        <5>1. i \in Nat
          BY <1>6 DEF i
        <5>2. MoveChunk * (i - z) \in Nat /\ MoveChunk * (i - z) = i * MoveChunk - MoveChunk * z
          BY <1>3, <3>1, <4>1, <5>1
        <5>3. i * MoveChunk \in Int /\ MoveChunk * z \in Int
          BY <1>3, <3>1, <5>1
        <5> QED BY <1>3, <3>2, <3>3, <5>2, <5>3
      <4> QED BY <1>6, <3>1, <4>1 DEF i
    <3>5. start_p + MoveChunk < end
      <4>1. MoveChunk <= i * MoveChunk
        BY <1>3, <2>2
      <4> QED BY <1>3, <2>2, <2>4, <4>1
    <3>6. ChunkEnd(start_p) = start_p + MoveChunk
      BY <1>1, <1>3, <3>5, ChunkFacts
    <3>7. h = 8 * z
      <4> HIDE DEF h, z
      <4> QED BY <1>3, <3>1, <3>6
    <3>8. q = z
      <4> HIDE DEF h, z, q
      <4> QED BY <1>6, <3>1, <3>7
    <3> QED BY <1>6, <3>4, <3>8
  <2>6. p' = start_p + 8 * i
    BY <1>3, <1>5, <1>6, <2>1
  <2>7. pe' = ChunkEnd(start_p + i * MoveChunk)
    BY <2>1, <2>4
  <2> HIDE DEF i, h
  <2>8. Checking'
    <3>1. \E x \in 0 .. (h \div 8 - 1) :
            /\ p' = start_p + 8 * x
            /\ pe' = ChunkEnd(start_p + x * MoveChunk) /\ start_p + x * MoveChunk < end
      BY <2>4, <2>5, <2>6, <2>7
    <3>2. InBlocks(mem', start_p', HalfChunk', 0)
      BY <1>1, <1>2, <1>4 DEF h
    <3> QED BY <1>2, <3>1, <3>2 DEF Checking, h
  <2> QED BY <1>1, <2>1, <2>8
<1> QED BY <1>8, <1>9

\* Every step of the block move keeps its blocks.
LEMMA MoveGoodStep ==
  ASSUME SliceRight, MemTypes, MovePosition, MoveGood, BlockMoveNext
  PROVE  MoveGood'
<1>1. item = MEM_BLOCK_MOVE /\ item' = item /\ fault' = fault
  BY DEF BlockMoveNext, FillBlockWord, StartMoving, MoveWord, EndMove, CheckBlock, arguments
<1> SUFFICES ASSUME fault = NoFault PROVE MoveGood'
  BY <1>1 DEF MoveGood
<1>2. ret = ERR_SUCCESS
  BY <1>1 DEF MoveGood
<1>3. CASE FillBlockWord
  <2>1. pc' = "blocks" /\ ret' = ret
    BY <1>3 DEF FillBlockWord
  <2> QED BY <1>2, <1>3, <2>1, FillGood DEF MoveGood
<1>4. CASE StartMoving
  <2>1. pc' = "move" /\ ret' = ret
    BY <1>4 DEF StartMoving
  <2> QED BY <1>2, <1>4, <2>1, StartGood DEF MoveGood
<1>5. CASE MoveWord
  <2>1. pc' = "move" /\ ret' = ret
    BY <1>5 DEF MoveWord
  <2> QED BY <1>2, <1>5, <2>1, MovedGood DEF MoveGood
<1>6. CASE EndMove
  <2>1. ret' = ret
    BY <1>6 DEF EndMove
  <2> QED BY <1>2, <1>6, <2>1, EndGood DEF MoveGood
<1>7. CASE CheckBlock
  <2>1. Return(ERR_SUCCESS) \/ (pc' = "check" /\ ret' = ret /\ Checking')
    BY <1>7, CheckGood
  <2> QED BY <1>2, <2>1 DEF MoveGood, Return
<1> QED BY <1>3, <1>4, <1>5, <1>6, <1>7 DEF BlockMoveNext

-----------------------------------------------------------------------------
(* A good memory: the whole test *)

LoopsGood == WalkGood /\ RandomGood /\ MoveGood /\ CarryGood /\ RdwrGood /\ RandDataGood

VerdictIInv == MemIInv /\ MemTypes /\ PatternState /\ GoodPattern /\ LoopsGood

\* A pattern test begins with nothing to find.
LEMMA GoodPatternBegins == Init => GoodPattern
<1> SUFFICES ASSUME Init, item \in PatternItems PROVE GoodPattern
  BY DEF GoodPattern
<1> DEFINE c == Call(1)
           s == Sweep(Call(1), 1)
<1>1. SliceRight /\ PatternState
  BY MemInit, PatternBegins DEF MemIInv
<1>2. Started /\ pc # "returned" /\ ret = ERR_SUCCESS
  BY DEF Init, Started
<1>3. call = 1 /\ sweep = 1 /\ p = start_p + (IF s.which = "nth" THEN c.off ELSE 0)
  BY <1>2, ItemsApart, Zenon DEF Started
<1>4. ~Returned /\ 1 \in 1 .. Calls /\ 1 \in 1 .. Sweeps(c) /\ Current = c /\ CurrentSweep = s
  BY <1>1, <1>2, <1>3 DEF PatternState, Returned, Current, CurrentSweep
<1>5. CallRight(c)
  BY <1>4, CallFacts
<1>6. start_p \in Nat /\ \A a \in Slice : a \in Int /\ a >= start_p
  BY <1>1 DEF SliceRight, Slice, end
<1>7. CASE c.fn = "modtst"
  <2>1. s = Nth("none", "p1")
    BY <1>4, <1>5, <1>7, SweepsFollow
  <2>2. s.which = "nth"
    BY <2>1, Shapes
  <2>3. c.off \in Nat /\ c.off < MOD_SZ /\ MOD_SZ \in Nat \ {0}
    BY <1>5, <1>7, PatternAssumption DEF CallRight
  <2> HIDE DEF c, s
  <2>4. ASSUME NEW a \in Slice, a < p PROVE (a - start_p) % MOD_SZ # c.off
    <3>1. a - start_p \in 0 .. (MOD_SZ - 1) /\ a - start_p # c.off
      BY <1>3, <1>6, <2>2, <2>3, <2>4
    <3> DEFINE x == a - start_p
    <3> HIDE DEF x
    <3>2. x \in 0 .. (MOD_SZ - 1) /\ x # c.off
      BY <3>1 DEF x
    <3>3. x % MOD_SZ = x
      BY <2>3, <3>2, ModOfSmall
    <3> QED BY <3>2, <3>3 DEF x
  <2>5. GoodModulo(mem, c, sweep, p)
    BY <1>3, <2>4 DEF GoodModulo
  <2> QED BY <1>2, <1>4, <1>7, <2>5 DEF GoodPattern
<1>8. CASE c.fn # "modtst"
  <2>1. s.which = "all" /\ s.check = "none" /\ ~s.down
    BY <1>4, <1>5, <1>8, SweepsFollow
  <2> HIDE DEF c, s
  <2>2. p = start_p
    BY <1>3, <1>6, <2>1
  <2>3. \A a \in Slice : ~Visited(s, p, a)
    BY <1>6, <2>1, <2>2 DEF Visited
  <2>4. GoodWords(mem, c, s, p)
    BY <2>1, <2>3 DEF GoodWords
  <2> QED BY <1>2, <1>4, <1>8, <2>4 DEF GoodPattern
<1> QED BY <1>7, <1>8

\* So do the others.
LEMMA LoopsGoodBegin == Init => LoopsGood
<1> SUFFICES ASSUME Init PROVE LoopsGood
  OBVIOUS
<1>1. Started /\ ret = ERR_SUCCESS /\ pe = start_p /\ start_p \in Nat
  BY MemInit DEF Init, MemIInv, SliceRight
<1>2. \A a \in Slice : a \in Int /\ a >= start_p
  BY <1>1, MemInit DEF MemIInv, SliceRight, Slice, end
<1>3. WalkGood
  <2>1. item = MEM_ADD_WALK_ONES => pc = "bank"
    BY <1>1, ItemsApart, Zenon DEF Started
  <2> QED BY <1>1, <2>1 DEF WalkGood
<1>4. RandomGood
  <2>1. item = MEM_RANDOM_ADDRESS => pc = "fillup" /\ p = start_p
    BY <1>1, ItemsApart, Zenon DEF Started
  <2>2. item = MEM_RANDOM_ADDRESS => \A a \in Slice : ~(a < p)
    BY <1>1, <1>2, <2>1
  <2> QED BY <1>1, <2>1, <2>2 DEF RandomGood
<1>5. MoveGood
  <2>1. item = MEM_BLOCK_MOVE => pc = "blocks" /\ p = start_p /\ k = 0
    BY <1>1, ItemsApart, Zenon DEF Started
  <2>2. item = MEM_BLOCK_MOVE => Filling
    BY <1>1, <1>2, <2>1 DEF Filling
  <2> QED BY <1>1, <2>1, <2>2 DEF MoveGood
<1>6. item \in CacheItems =>
        /\ call = 1 /\ p = start_p /\ k = 0
        /\ pc = (CASE item = CPU_CACHE_RDWR -> "rdwr_fill"
                   [] item = CPU_CACHE_RANDOM_DATA -> "rand_fill"
                   [] OTHER -> "memset")
  BY <1>1, ItemsApart, Zenon DEF Started
<1>7. CarryGood
  <2>1. item \in {CPU_CACHE_WALKING, CPU_CACHE_STUCK} =>
          pc = "memset" /\ p = start_p
    <3>1. item \in {CPU_CACHE_WALKING, CPU_CACHE_STUCK} =>
            item \in CacheItems /\ item # CPU_CACHE_RDWR /\ item # CPU_CACHE_RANDOM_DATA
      BY DEF CacheItems, CPU_CACHE_WALKING, CPU_CACHE_STUCK, CPU_CACHE_RDWR, CPU_CACHE_RANDOM_DATA
    <3> QED BY <1>6, <3>1, Zenon
  <2>2. item \in {CPU_CACHE_WALKING, CPU_CACHE_STUCK} => \A a \in Slice : ~(a < p)
    BY <1>1, <1>2, <2>1
  <2> QED BY <1>1, <2>1, <2>2 DEF CarryGood
<1>8. RdwrGood
  <2>1. item = CPU_CACHE_RDWR => pc = "rdwr_fill" /\ p = start_p
    <3>1. item = CPU_CACHE_RDWR => item \in CacheItems /\ item # CPU_CACHE_RANDOM_DATA
      BY DEF CacheItems, CPU_CACHE_WALKING, CPU_CACHE_STUCK, CPU_CACHE_RDWR, CPU_CACHE_RANDOM_DATA
    <3> QED BY <1>6, <3>1, Zenon
  <2>2. item = CPU_CACHE_RDWR => \A a \in Slice : ~(a < p)
    BY <1>1, <1>2, <2>1
  <2> QED BY <1>1, <2>1, <2>2 DEF RdwrGood
<1>9. RandDataGood
  <2>1. item = CPU_CACHE_RANDOM_DATA => pc = "rand_fill" /\ k = 0
    <3>1. item = CPU_CACHE_RANDOM_DATA => item \in CacheItems /\ item # CPU_CACHE_RDWR
      BY DEF CacheItems, CPU_CACHE_WALKING, CPU_CACHE_STUCK, CPU_CACHE_RDWR, CPU_CACHE_RANDOM_DATA
    <3> QED BY <1>6, <3>1, Zenon
  <2> QED BY <1>1, <2>1 DEF RandDataGood
<1> QED BY <1>3, <1>4, <1>5, <1>7, <1>8, <1>9 DEF LoopsGood

\* Each test's step keeps what is true of it and is no step of another's.
LEMMA GoodStep ==
  ASSUME VerdictIInv, Next
  PROVE  PatternState' /\ GoodPattern' /\ LoopsGood'
<1>1. item' = item
  BY EveryStep DEF arguments, VerdictIInv
<1>2. /\ SliceRight /\ WalkPosition /\ RandomPosition /\ MovePosition /\ CarryPosition /\ RdwrPosition /\ RandDataPosition
      /\ MemTypes /\ PatternState /\ GoodPattern
      /\ WalkGood /\ RandomGood /\ MoveGood /\ CarryGood /\ RdwrGood /\ RandDataGood
  BY DEF VerdictIInv, LoopsGood, MemIInv, Positions
<1>3. CASE PatternNext
  <2>1. item \in PatternItems
    BY <1>3 DEF PatternNext, NextChunk, VisitWord, EndChunk
  <2>2. PatternState' /\ GoodPattern'
    BY <1>2, <1>3, PatternGoesOn, GoodPatternStep
  <2>3. LoopsGood'
    BY <1>1, <2>1, ItemsApart DEF LoopsGood, WalkGood, RandomGood, MoveGood, CarryGood, RdwrGood, RandDataGood
  <2> QED BY <2>2, <2>3
<1>4. ASSUME item \notin PatternItems PROVE PatternState' /\ GoodPattern'
  BY <1>1, <1>4 DEF PatternState, GoodPattern
<1>5. CASE SkipLine \/ WalkLine \/ EndWalk \/ EndBanks
  <2>1. item = MEM_ADD_WALK_ONES
    BY <1>5 DEF SkipLine, WalkLine, EndWalk, EndBanks
  <2>2. WalkGood'
    BY <1>2, <1>5, WalkGoodStep
  <2>3. LoopsGood'
    BY <1>1, <2>1, <2>2, ItemsApart DEF LoopsGood, RandomGood, MoveGood, CarryGood, RdwrGood, RandDataGood
  <2> QED BY <1>4, <2>1, <2>3, ItemsApart
<1>6. CASE randaddr_fillup \/ randaddr_test \/ EndRandBank \/ randaddr_verify
  <2>1. item = MEM_RANDOM_ADDRESS
    BY <1>6 DEF randaddr_fillup, randaddr_test, EndRandBank, randaddr_verify
  <2>2. RandomGood'
    BY <1>2, <1>6, RandomGoodStep
  <2>3. LoopsGood'
    BY <1>1, <2>1, <2>2, ItemsApart DEF LoopsGood, WalkGood, MoveGood, CarryGood, RdwrGood, RandDataGood
  <2> QED BY <1>4, <2>1, <2>3, ItemsApart
<1>7. CASE BlockMoveNext
  <2>1. item = MEM_BLOCK_MOVE
    BY <1>7 DEF BlockMoveNext, FillBlockWord, StartMoving, MoveWord, EndMove, CheckBlock
  <2>2. MoveGood'
    BY <1>2, <1>7, MoveGoodStep
  <2>3. LoopsGood'
    BY <1>1, <2>1, <2>2, ItemsApart DEF LoopsGood, WalkGood, RandomGood, CarryGood, RdwrGood, RandDataGood
  <2> QED BY <1>4, <2>1, <2>3, ItemsApart
<1>8. CASE CacheMemset \/ CacheCarry \/ CachePhaseEnds
  <2>1. item \in {CPU_CACHE_WALKING, CPU_CACHE_STUCK}
    BY <1>8 DEF CacheMemset, CacheCarry, CachePhaseEnds
  <2>2. CarryGood'
    BY <1>2, <1>8, CarryGoodStep
  <2>3. LoopsGood'
    BY <1>1, <2>1, <2>2, ItemsApart DEF LoopsGood, WalkGood, RandomGood, MoveGood, RdwrGood, RandDataGood
  <2> QED BY <1>4, <2>1, <2>3, ItemsApart
<1>9. CASE RdwrFillup \/ RdwrTest
  <2>1. item = CPU_CACHE_RDWR
    BY <1>9 DEF RdwrFillup, RdwrTest
  <2>2. RdwrGood'
    BY <1>2, <1>9, RdwrGoodStep
  <2>3. LoopsGood'
    BY <1>1, <2>1, <2>2, ItemsApart DEF LoopsGood, WalkGood, RandomGood, MoveGood, CarryGood, RandDataGood
  <2> QED BY <1>4, <2>1, <2>3, ItemsApart
<1>10. CASE randdata_fillup \/ comp_long
  <2>1. item = CPU_CACHE_RANDOM_DATA
    BY <1>10 DEF randdata_fillup, comp_long
  <2>2. RandDataGood'
    BY <1>2, <1>10, RandDataGoodStep
  <2>3. LoopsGood'
    BY <1>1, <2>1, <2>2, ItemsApart DEF LoopsGood, WalkGood, RandomGood, MoveGood, CarryGood, RdwrGood
  <2> QED BY <1>4, <2>1, <2>3, ItemsApart
<1> QED BY <1>3, <1>5, <1>6, <1>7, <1>8, <1>9, <1>10 DEF Next, AddressNext, CacheNext

\* Nothing the invariant speaks of changes in a step that changes no variable.
LEMMA VerdictStays == VerdictIInv /\ UNCHANGED vars => MemTypes' /\ PatternState' /\ GoodPattern' /\ LoopsGood'
<1> SUFFICES ASSUME VerdictIInv, UNCHANGED vars
             PROVE  MemTypes' /\ PatternState' /\ GoodPattern' /\ LoopsGood'
  OBVIOUS
<1>1. UNCHANGED <<item, start_p, cnt, no_comp, fault, mem, pc, call, sweep, p, pe, done, k, pat, mask, ret>>
  BY DEF vars
<1>2. end' = end /\ Slice' = Slice /\ Calls' = Calls /\ Returned' = Returned
  BY <1>1 DEF end, Slice, Calls, Iter, Returned
<1>3. Current' = Current /\ CurrentSweep' = CurrentSweep
  BY <1>1, CallSame DEF Current, CurrentSweep
<1>4. MemTypes'
  BY <1>1 DEF VerdictIInv, MemTypes, Locals, Results
<1>5. PatternState'
  BY <1>1, <1>2, <1>3
  DEF VerdictIInv, PatternState, Place, Carried, RetSoFar, Edge, FirstEdge, Failed, Unchecked, DownPlace, NthPlace, UpPlace
<1>6. GoodPattern'
  BY <1>1, <1>2, <1>3 DEF VerdictIInv, GoodPattern, GoodModulo, GoodWords
<1>7. WalkGood' /\ RandomGood' /\ RdwrGood' /\ RandDataGood'
  BY <1>1, <1>2 DEF VerdictIInv, LoopsGood, WalkGood, RandomGood, RdwrGood, RandDataGood, RandHalf
<1>8. CarryGood'
  BY <1>1, <1>2 DEF VerdictIInv, LoopsGood, CarryGood, Padded, Pad, pbank, Walking
<1>9. MoveGood'
  <2>1. HalfChunk' = HalfChunk /\ Offset' = Offset /\ \A a : ChunkEnd(a)' = ChunkEnd(a)
    BY <1>1, <1>2 DEF HalfChunk, Offset, ChunkEnd
  <2>2. MoveGood
    BY DEF VerdictIInv, LoopsGood
  <2>3. Filling => Filling'
    BY <1>1, <1>2 DEF Filling
  <2>4. Moving => Moving'
    BY <1>1, <2>1 DEF Moving
  <2>5. Checking => Checking'
    BY <1>1, <1>2, <2>1 DEF Checking
  <2> QED BY <1>1, <2>2, <2>3, <2>4, <2>5 DEF MoveGood
<1> QED BY <1>4, <1>5, <1>6, <1>7, <1>8, <1>9 DEF LoopsGood

\* The inductive invariant holds.
LEMMA VerdictInvariant == Spec => []VerdictIInv
<1>1. Init => VerdictIInv
  BY MemInit, TypesBegin, PatternBegins, GoodPatternBegins, LoopsGoodBegin DEF VerdictIInv
<1>2. VerdictIInv /\ [Next]_vars => VerdictIInv'
  <2>1. VerdictIInv /\ Next => VerdictIInv'
    BY MemStep, TypesStep, GoodStep DEF VerdictIInv
  <2>2. VerdictIInv /\ UNCHANGED vars => VerdictIInv'
    BY MemStep, VerdictStays DEF VerdictIInv
  <2> QED BY <2>1, <2>2
<1> QED BY <1>1, <1>2, PTL DEF Spec

\* A good memory passes: each sweep finds in every word what the one before it left
\* there, each loop what it stored.
THEOREM GoodMemoryPasses == Spec => [](TypeOK /\ NoFalseAlarm)
<1>1. VerdictIInv => TypeOK
  BY TypesFollow DEF VerdictIInv, MemIInv
<1>2. VerdictIInv => NoFalseAlarm
  <2> SUFFICES ASSUME VerdictIInv, fault = NoFault PROVE ret = ERR_SUCCESS
    BY DEF NoFalseAlarm
  <2>1. \/ item \in PatternItems
        \/ item \in {MEM_ADD_WALK_ONES, MEM_RANDOM_ADDRESS, MEM_BLOCK_MOVE}
        \/ item \in {CPU_CACHE_WALKING, CPU_CACHE_STUCK, CPU_CACHE_RDWR, CPU_CACHE_RANDOM_DATA}
    BY DEF VerdictIInv, MemIInv, SliceRight, Items, PatternItems, MEM_ADD_WALK_ONES, MEM_ADD_OWN_ADDRESS,
       MEM_RANDOM_ADDRESS, MEM_MOVE_INVER_ONES_ZERO, MEM_MOVE_INVER_8BIT, MEM_MOVE_INVER_RANDOM,
       MEM_MOVE_INVER_32BIT, MEM_BLOCK_MOVE, MEM_RANDOM_NUM_SEQUENCE, MEM_MODULO, MEM_MARCH_C_TEST, MEM_BIT_FADE_TEST,
       CacheItems, CPU_CACHE_WALKING, CPU_CACHE_STUCK, CPU_CACHE_RDWR, CPU_CACHE_RANDOM_DATA
  <2> QED BY <2>1 DEF VerdictIInv, GoodPattern, LoopsGood, WalkGood, RandomGood, MoveGood, CarryGood, RdwrGood,
                      RandDataGood
<1> QED BY VerdictInvariant, <1>1, <1>2, PTL

-----------------------------------------------------------------------------
(* Sweeps over a faulty memory *)

\* The sweeps of the tests that write both values of every bit, as far as they need to
\* go to find a fault.
LEMMA SweepTable ==
  ASSUME NEW c, CallRight(c)
  PROVE  /\ c.fn \in {"movinv1", "movinv32", "movinvr", "march_c"} =>
              /\ Sweeps(c) >= 3
              /\ Sweep(c, 1) = Up("none", "p1") /\ Sweep(c, 2) = Up("p1", "p2")
              /\ Sweep(c, 3).check = "p2" /\ Sweep(c, 3).write = "p1" /\ Sweep(c, 3).which = "all"
         /\ c.fn = "march_c" =>
              /\ Sweeps(c) >= 7
              /\ Sweep(c, 3) = Up("p2", "p1") /\ Sweep(c, 4) = Up("p1", "none")
              /\ Sweep(c, 5) = Down("p1", "p2") /\ Sweep(c, 6) = Down("p2", "p1") /\ Sweep(c, 7) = Down("p1", "none")
              /\ Sweep(c, 8) = Up("p1", "p2")
         /\ c.fn \in {"bit_fade", "addr_walk_own"} =>
              Sweeps(c) = 2 /\ Sweep(c, 1) = Up("none", "p1") /\ Sweep(c, 2) = Up("p1", "none")
<1>1. c.iter \in Nat \ {0}
  BY DEF CallRight
<1>2. /\ movinv1(1) = Up("none", "p1") /\ movinv1(2) = Up("p1", "p2") /\ movinv1(3) = Down("p2", "p1")
  BY DEF movinv1, Fill
<1>3. /\ movinvr(1) = Up("none", "p1") /\ movinvr(2) = Up("p1", "p2") /\ movinvr(3) = Up("p2", "p1")
  BY DEF movinvr, Fill
<1>4. /\ march_c(1) = Up("none", "p1") /\ march_c(2) = Up("p1", "p2") /\ march_c(3) = Up("p2", "p1")
      /\ march_c(4) = Up("p1", "none") /\ march_c(5) = Down("p1", "p2") /\ march_c(6) = Down("p2", "p1")
      /\ march_c(7) = Down("p1", "none") /\ march_c(8) = Up("p1", "p2")
  BY DEF march_c, Fill
<1>5. CASE c.fn \in {"movinv1", "movinv32"}
  <2>1. Sweeps(c) = 1 + 2 * c.iter /\ \A n : Sweep(c, n) = movinv1(n)
    BY <1>5 DEF Sweeps, Sweep
  <2> QED BY <1>1, <1>2, <1>5, <2>1, Shapes
<1>6. CASE c.fn = "movinvr"
  <2>1. Sweeps(c) = 3 /\ \A n : Sweep(c, n) = movinvr(n)
    BY <1>6 DEF Sweeps, Sweep
  <2> QED BY <1>3, <1>6, <2>1, Shapes
<1>7. CASE c.fn = "march_c"
  <2>1. Sweeps(c) = 1 + 6 * c.iter /\ \A n : Sweep(c, n) = march_c(n)
    BY <1>7 DEF Sweeps, Sweep
  <2> QED BY <1>1, <1>4, <1>7, <2>1, Shapes
<1>8. CASE c.fn \in {"bit_fade", "addr_walk_own"}
  <2>1. Sweeps(c) = 2 /\ \A n : Sweep(c, n) = IF n = 1 THEN Fill ELSE Up("p1", "none")
    BY <1>8 DEF Sweeps, Sweep
  <2> QED BY <1>8, <2>1 DEF Fill
<1> QED BY <1>5, <1>6, <1>7, <1>8

\* What stays in a step that begins no sweep.
LEMMA SameSweep ==
  ASSUME UNCHANGED arguments, UNCHANGED <<call, sweep>>
  PROVE  /\ Current' = Current /\ CurrentSweep' = CurrentSweep /\ Slice' = Slice /\ start_p' = start_p
         /\ end' = end /\ item' = item /\ fault' = fault /\ Calls' = Calls
<1>1. item' = item /\ start_p' = start_p /\ cnt' = cnt /\ fault' = fault
  BY DEF arguments
<1> QED BY <1>1, CallSame DEF Current, CurrentSweep, Slice, end, Calls, Iter

\* The next sweep of a call, or the first of the next.
LEMMA SweepFollows ==
  ASSUME SliceRight, PatternState, item \in PatternItems, ~Returned, UNCHANGED arguments,
         NextSweep(Current, CurrentSweep)
  PROVE  /\ call' = call /\ sweep' = sweep + 1 /\ sweep + 1 \in 1 .. Sweeps(Current) /\ ~Returned' /\ mem' = mem
         /\ Current' = Current /\ CurrentSweep' = Sweep(Current, sweep + 1)
         /\ Slice' = Slice /\ start_p' = start_p /\ fault' = fault /\ item' = item
         /\ Current.fn # "modtst" =>
              \A a \in Slice : ~Visited(CurrentSweep', p', a) /\ (Failed(Current) \/ Visited(CurrentSweep, p, a))
         /\ CurrentSweep'.which = "nth" => p' = start_p + Current.off
<1> DEFINE c == Current
           s == CurrentSweep
           t == sweep + 1
           new == Sweep(c, t)
<1>1. call \in 1 .. Calls /\ sweep \in 1 .. Sweeps(Current)
  BY DEF PatternState
<1>2. CallRight(c) /\ sweep \in Nat \ {0} /\ start_p \in Nat /\ end = start_p + cnt /\ cnt \in Nat /\ Sweeps(c) \in Nat
  BY <1>1, CurrentFacts
<1>3. /\ sweep < Sweeps(c) /\ StartSweep(call, t) /\ mem' = mem /\ SweepOver(c, s)
  BY DEF NextSweep
<1>4. t \in 1 .. Sweeps(c)
  BY <1>2, <1>3
<1>5. item' = item /\ start_p' = start_p /\ fault' = fault /\ Slice' = Slice
  BY DEF arguments, Slice, end
<1>6. c = Call(call)
  BY DEF Current
<1>7. /\ call' = call /\ sweep' = t /\ pc' = "chunk"
      /\ p' = (CASE new.down -> end - 1 [] new.which = "nth" -> start_p + c.off [] OTHER -> start_p)
  BY <1>3, <1>6 DEF StartSweep
<1>8. Current' = c /\ CurrentSweep' = new
  <2>1. Call(call)' = Call(call)
    BY <1>5, <1>7, CallSame
  <2> QED BY <1>6, <1>7, <2>1 DEF Current, CurrentSweep
<1>9. new.down \in BOOLEAN /\ (new.which # "all" => c.fn = "modtst" /\ ~new.down) /\ (c.fn # "modtst" => s.which = "all")
  BY <1>1, <1>2, <1>4, SweepKinds, CurrentFacts
<1> HIDE DEF c, s, new, t
<1>10. new.which = "nth" => p' = start_p + c.off
  BY <1>7, <1>9
<1>11. ASSUME c.fn # "modtst", NEW a \in Slice
       PROVE  ~Visited(new, p', a) /\ (Failed(c) \/ Visited(s, p, a))
  <2>1. p' = IF new.down THEN end - 1 ELSE start_p
    BY <1>7, <1>9, <1>11
  <2>2. ~Visited(new, p', a)
    BY <1>2, <1>9, <2>1 DEF Visited, Slice
  <2>3. Failed(c) \/ Visited(s, p, a)
    BY <1>3, <1>9, <1>11 DEF SweepOver
  <2> QED BY <2>2, <2>3
<1> QED BY <1>3, <1>4, <1>5, <1>7, <1>8, <1>10, <1>11 DEF c, s, new, t, Returned

\* The call that follows.
LEMMA CallFollows ==
  ASSUME SliceRight, PatternState, item \in PatternItems, ~Returned, UNCHANGED arguments,
         NextCall(Current, CurrentSweep)
  PROVE  /\ sweep = Sweeps(Current) /\ ret = ERR_SUCCESS /\ ret' = ret /\ call < Calls /\ mem' = mem /\ ~Returned'
         /\ call' = call + 1 /\ call + 1 \in 1 .. Calls /\ sweep' = 1 /\ Current' = Call(call + 1)
         /\ CurrentSweep' = Sweep(Call(call + 1), 1)
         /\ Slice' = Slice /\ start_p' = start_p /\ fault' = fault /\ item' = item
         /\ Current.fn # "modtst" => \A a \in Slice : Failed(Current) \/ Visited(CurrentSweep, p, a)
<1>1. call \in 1 .. Calls /\ sweep \in 1 .. Sweeps(Current)
  BY DEF PatternState
<1>2. call \in Nat /\ Calls \in Nat /\ (Current.fn # "modtst" => CurrentSweep.which = "all")
  BY <1>1, CurrentFacts
<1>3. /\ sweep = Sweeps(Current) /\ ret = ERR_SUCCESS /\ call < Calls
      /\ StartSweep(call + 1, 1) /\ mem' = mem /\ ret' = ret /\ SweepOver(Current, CurrentSweep)
  BY DEF NextCall
<1>4. call' = call + 1 /\ sweep' = 1 /\ pc' = "chunk"
  BY <1>3 DEF StartSweep
<1>5. item' = item /\ start_p' = start_p /\ fault' = fault /\ Slice' = Slice
  BY DEF arguments, Slice, end
<1>6. Current' = Call(call + 1) /\ CurrentSweep' = Sweep(Call(call + 1), 1)
  <2>1. \A n : Call(n)' = Call(n)
    BY <1>5, CallSame
  <2>2. Current' = Call(call') /\ CurrentSweep' = Sweep(Call(call'), sweep')
    BY <1>5 DEF Current, CurrentSweep, Call, ModuloCall, WalkingCall, Iter
  <2> QED BY <1>4, <2>2
<1>7. Current.fn # "modtst" => \A a \in Slice : Failed(Current) \/ Visited(CurrentSweep, p, a)
  BY <1>2, <1>3 DEF SweepOver
<1> QED BY <1>1, <1>2, <1>3, <1>4, <1>5, <1>6, <1>7 DEF Returned

-----------------------------------------------------------------------------
(* A stuck bit *)

StuckItems ==
  {MEM_MOVE_INVER_ONES_ZERO, MEM_MOVE_INVER_8BIT, MEM_MOVE_INVER_RANDOM,
   MEM_MOVE_INVER_32BIT, MEM_RANDOM_NUM_SEQUENCE, MEM_MODULO, MEM_MARCH_C_TEST}

\* The bit that is stuck, of word w.
BitOf(w) == w[fault.b]

\* The sweep that checks the pattern finds the bit right only if it is stuck at the
\* pattern's value, and the one that checks the complement finds it wrong then.
StuckSweeps(c, s) ==
  ret = ERR_SUCCESS =>
    /\ sweep <= 3
    /\ (sweep = 2 /\ Visited(s, p, fault.at)) \/ sweep = 3 => BitOf(FirstValue(c, start_p, fault.at)) = fault.v
    /\ sweep = 3 => ~Visited(s, p, fault.at)

\* Two calls of modtst() look at the word, with a pattern and its complement.
StuckCall == 2 * ((fault.at - start_p) % MOD_SZ) + 1
StuckModulo(c) ==
  /\ call <= StuckCall + 1
  /\ call = StuckCall + 1 => BitOf(Call(StuckCall).p1) = fault.v
  /\ call \in {StuckCall, StuckCall + 1} /\ sweep = Sweeps(c) /\ fault.at < p => BitOf(c.p1) = fault.v

StuckGood ==
  fault.kind = "stuck" /\ Verifies /\ item \in StuckItems =>
    /\ Returned => ret # ERR_SUCCESS
    /\ ~Returned => IF Current.fn = "modtst" THEN StuckModulo(Current)
                    ELSE StuckSweeps(Current, CurrentSweep) /\ (Current.fn = "march_c" => ret = ERR_SUCCESS)

\* The calls of modtst() that look at the words at an offset have patterns that are
\* complements.
LEMMA ModuloPair ==
  ASSUME item = MEM_MODULO, NEW j \in 0 .. (MOD_SZ - 1)
  PROVE  /\ 2 * j + 1 \in Nat \ {0} /\ 2 * j + 2 <= Calls /\ Calls \in Nat
         /\ Call(2 * j + 1).off = j /\ Call(2 * j + 2).off = j
         /\ Call(2 * j + 1).p1 \in Words
         /\ Call(2 * j + 2).p1 = Not(Call(2 * j + 1).p1)
<1> USE DEF MEM_ADD_OWN_ADDRESS, MEM_MOVE_INVER_ONES_ZERO, MEM_MOVE_INVER_8BIT, MEM_MOVE_INVER_RANDOM,
      MEM_MOVE_INVER_32BIT, MEM_RANDOM_NUM_SEQUENCE, MEM_MODULO, MEM_MARCH_C_TEST, MEM_BIT_FADE_TEST
<1>1. MOD_SZ \in Nat \ {0} /\ j \in Nat
  BY PatternAssumption
<1>2. Iter \in Nat \ {0}
  BY IterationAssumption DEF Iter, Items, MEM_MODULO, MEM_ADD_WALK_ONES, MEM_BIT_FADE_TEST
<1>3. Calls = 2 * MOD_SZ * Iter
  BY DEF Calls
<1>4. Calls \in Nat /\ 2 * j + 2 <= Calls
  <2>1. 2 * MOD_SZ * Iter \in Nat /\ 2 * MOD_SZ * Iter >= 2 * MOD_SZ
    BY <1>1, <1>2
  <2> QED BY <1>1, <1>3, <2>1
<1>5. Call(2 * j + 1) = ModuloCall(2 * j + 1) /\ Call(2 * j + 2) = ModuloCall(2 * j + 2)
  BY DEF Call
<1> DEFINE n1 == 2 * j + 1
           n2 == 2 * j + 2
<1>6. /\ (n1 - 1) \div 2 = j /\ (n2 - 1) \div 2 = j
      /\ (n1 - 1) % (2 * MOD_SZ) = 2 * j /\ (n2 - 1) % (2 * MOD_SZ) = 2 * j + 1
      /\ (n1 - 1) \div (2 * MOD_SZ) = 0 /\ (n2 - 1) \div (2 * MOD_SZ) = 0
  <2> DEFINE m == 2 * MOD_SZ
  <2>1. m \in Nat \ {0} /\ 2 * j \in 0 .. (m - 1) /\ 2 * j + 1 \in 0 .. (m - 1) /\ n1 - 1 = 2 * j /\ n2 - 1 = 2 * j + 1
    BY <1>1
  <2>2. m * 0 + 2 * j = 2 * j /\ m * 0 + (2 * j + 1) = 2 * j + 1
    BY <2>1
  <2> HIDE DEF m, n1, n2
  <2>3. \A x \in 0 .. (m - 1) : (m * 0 + x) \div m = 0 /\ (m * 0 + x) % m = x
    BY <2>1, IntQuotient
  <2>4. (2 * j) % m = 2 * j /\ (2 * j + 1) % m = 2 * j + 1 /\ (2 * j) \div m = 0 /\ (2 * j + 1) \div m = 0
    BY <2>1, <2>2, <2>3
  <2>5. (2 * j) \div 2 = j /\ (2 * j + 1) \div 2 = j
    BY <1>1
  <2> QED BY <2>1, <2>4, <2>5 DEF m
<1>7. j % MOD_SZ = j
  BY <1>1, ModOfSmall
<1>8. /\ ((2 * j + 1) \div 2) = j /\ ((2 * j + 1) + 1) \div 2 = j + 1
      /\ (j % 2 = 0 <=> (j + 1) % 2 # 0)
  BY <1>1
<1>9. n1 \in Nat \ {0} /\ n2 \in Nat \ {0}
  BY <1>1
<1> DEFINE w == rand_function(0)
<1>10. /\ ModuloCall(n1).off = j /\ ModuloCall(n1).p1 \in Words
       /\ ModuloCall(n1).p1 = (IF j % 2 = 0 THEN w ELSE Not(w))
  <2>1. LET c == ModuloCall(n1) IN
        /\ c.off = ((n1 - 1) \div 2) % MOD_SZ /\ c.p1 \in Words
        /\ c.p1 = (IF ((((n1 - 1) % (2 * MOD_SZ)) + 1) \div 2) % 2 = 0
                   THEN rand_function((n1 - 1) \div (2 * MOD_SZ)) ELSE Not(rand_function((n1 - 1) \div (2 * MOD_SZ))))
    BY <1>9, ModuloCallFacts
  <2> HIDE DEF n1
  <2> QED BY <1>6, <1>7, <1>8, <2>1
<1>11. /\ ModuloCall(n2).off = j
       /\ ModuloCall(n2).p1 = (IF (j + 1) % 2 = 0 THEN w ELSE Not(w))
  <2>1. LET c == ModuloCall(n2) IN
        /\ c.off = ((n2 - 1) \div 2) % MOD_SZ /\ c.p1 \in Words
        /\ c.p1 = (IF ((((n2 - 1) % (2 * MOD_SZ)) + 1) \div 2) % 2 = 0
                   THEN rand_function((n2 - 1) \div (2 * MOD_SZ)) ELSE Not(rand_function((n2 - 1) \div (2 * MOD_SZ))))
    BY <1>9, ModuloCallFacts
  <2> HIDE DEF n2
  <2> QED BY <1>6, <1>7, <1>8, <2>1
<1>12. w \in Words /\ Not(Not(w)) = w
  <2>1. w \in Words
    BY WordFacts
  <2> HIDE DEF w
  <2> QED BY <2>1, NotFacts
<1> HIDE DEF w, n1, n2
<1>13. ModuloCall(n2).p1 = Not(ModuloCall(n1).p1)
  BY <1>8, <1>10, <1>11, <1>12
<1> QED BY <1>4, <1>5, <1>9, <1>10, <1>11, <1>13 DEF n1, n2

\* A word that is checked and has the stuck bit must have it in its pattern.
LEMMA StuckRead ==
  ASSUME fault \in Faults, mem \in Memories, NEW w \in Words, fault.kind = "stuck", Load(mem, fault, fault.at) = w
  PROVE  BitOf(w) = fault.v
<1>1. fault.at \in Addresses /\ fault.b \in Bits
  BY FaultKinds
<1>2. Load(mem, fault, fault.at) = [mem[fault.at] EXCEPT ![fault.b] = fault.v]
  BY DEF Load, CellOf
<1>3. mem[fault.at] \in Words
  BY <1>1 DEF Memories
<1>4. [mem[fault.at] EXCEPT ![fault.b] = fault.v][fault.b] = fault.v
  BY <1>1, <1>3 DEF Words
<1> QED BY <1>2, <1>4 DEF BitOf

-----------------------------------------------------------------------------

\* What is known of the test in a step of a sweep over a faulty memory.
Sweeping(c, s) ==
  /\ c = Current /\ s = CurrentSweep /\ c = Call(call) /\ s = Sweep(c, sweep)
  /\ CallRight(c) /\ c.fn = FunctionOf(item) /\ start_p \in Nat /\ cnt \in Nat /\ end = start_p + cnt
  /\ call \in 1 .. Calls /\ call \in Nat \ {0} /\ Calls \in Nat \ {0}
  /\ sweep \in 1 .. Sweeps(c) /\ sweep \in Nat \ {0} /\ Sweeps(c) \in Nat \ {0, 1}
  /\ s.down \in BOOLEAN /\ (c.fn # "modtst" => s.which = "all") /\ p \in Int
  /\ s.which = "nth" => (p - start_p) % MOD_SZ = c.off
  /\ ret \in {ERR_SUCCESS, ERR_FAIL} /\ (Failed(c) => pc = "chunk")

\* Where a step of a pattern test is taken, and what it may be.
LEMMA RunningFacts ==
  ASSUME SliceRight, PatternState, PatternNext
  PROVE  /\ item \in PatternItems /\ ~Returned /\ UNCHANGED arguments
         /\ \E c, s : Sweeping(c, s) /\ PatternCase(c, s)
<1>1. item \in PatternItems /\ ~Returned /\ UNCHANGED arguments /\ PatternCase(Current, CurrentSweep)
  BY PatternCases
<1>2. /\ call \in 1 .. Calls /\ sweep \in 1 .. Sweeps(Current)
      /\ Place(Current, CurrentSweep) /\ RetSoFar(Current)
  BY <1>1 DEF PatternState
<1>3. /\ CallRight(Current) /\ Current.fn = FunctionOf(item) /\ start_p \in Nat /\ cnt \in Nat /\ end = start_p + cnt
      /\ call \in Nat \ {0} /\ Calls \in Nat \ {0} /\ sweep \in Nat \ {0} /\ Sweeps(Current) \in Nat \ {0, 1}
      /\ CurrentSweep.down \in BOOLEAN /\ (Current.fn # "modtst" => CurrentSweep.which = "all")
  <2>1. call \in Nat \ {0}
    BY <1>1, <1>2, CurrentFacts
  <2> QED BY <1>1, <1>2, <2>1, CurrentFacts
<1>4. p \in Int /\ (CurrentSweep.which = "nth" => (p - start_p) % MOD_SZ = Current.off)
  BY <1>2 DEF Place, NthPlace
<1>5. ret \in {ERR_SUCCESS, ERR_FAIL} /\ (Failed(Current) => pc = "chunk")
  BY <1>2 DEF RetSoFar, Place
<1>6. Current = Call(call) /\ CurrentSweep = Sweep(Current, sweep)
  BY DEF Current, CurrentSweep
<1>7. Sweeping(Current, CurrentSweep)
  BY <1>2, <1>3, <1>4, <1>5, <1>6 DEF Sweeping
<1> QED BY <1>1, <1>7

\* A word that is looked at has the stuck bit; if it is found right, its pattern has it.
LEMMA StuckLooked ==
  ASSUME fault \in Faults, mem \in Memories, start_p \in Nat, fault.kind = "stuck",
         NEW c, NEW s, CallRight(c), Checks(c), s.check \in {"p1", "p2"}, p = fault.at, ~Bad(c, s)
  PROVE  BitOf(FirstValue(c, start_p, fault.at)) = IF s.check = "p1" THEN fault.v ELSE 1 - fault.v
<1> DEFINE w == Value(c, s.check, start_p, fault.at)
           f == FirstValue(c, start_p, fault.at)
<1>1. fault.at \in Addresses /\ fault.b \in Bits /\ fault.v \in {0, 1}
  BY FaultKinds
<1>2. Load(mem, fault, fault.at) = w
  BY DEF Bad
<1>3. w \in Words /\ f \in Words
  <2>1. Value(c, s.check, start_p, fault.at) \in Words /\ Value(c, "p1", start_p, fault.at) \in Words
    BY <1>1, ValueTyped
  <2> QED BY <2>1 DEF Value
<1>4. w = IF s.check = "p1" THEN f ELSE Not(f)
  BY DEF Value
<1> HIDE DEF w, f
<1>5. BitOf(w) = fault.v
  BY <1>2, <1>3, StuckRead
<1>6. Not(f)[fault.b] = 1 - f[fault.b] /\ f[fault.b] \in {0, 1}
  BY <1>1, <1>3, NotFacts
<1>7. CASE s.check = "p1"
  BY <1>4, <1>5, <1>7 DEF f
<1>8. CASE s.check = "p2"
  <2>1. 1 - f[fault.b] = fault.v
    BY <1>4, <1>5, <1>6, <1>8 DEF BitOf
  <2>2. f[fault.b] = 1 - fault.v
    BY <1>1, <1>6, <2>1
  <2> QED BY <1>8, <2>2 DEF BitOf, f
<1> QED BY <1>7, <1>8

\* The functions of the items a stuck bit does not pass.
LEMMA StuckFunctions ==
  ASSUME item \in StuckItems
  PROVE  /\ item \in PatternItems /\ FunctionOf(item) \in {"movinv1", "movinv32", "movinvr", "modtst", "march_c"}
         /\ item = MEM_MODULO <=> FunctionOf(item) = "modtst"
         /\ item = MEM_MARCH_C_TEST <=> FunctionOf(item) = "march_c"
BY DEF StuckItems, PatternItems, FunctionOf, MEM_ADD_OWN_ADDRESS, MEM_MOVE_INVER_ONES_ZERO, MEM_MOVE_INVER_8BIT,
       MEM_MOVE_INVER_RANDOM, MEM_MOVE_INVER_32BIT, MEM_RANDOM_NUM_SEQUENCE, MEM_MODULO, MEM_MARCH_C_TEST,
       MEM_BIT_FADE_TEST

\* A step of a sweep over all words.
LEMMA SweepStuckStep ==
  ASSUME SliceRight, PatternState, fault \in Faults, mem \in Memories, FaultIn(fault, Slice), StuckGood,
         fault.kind = "stuck", Verifies, item \in StuckItems, item # MEM_MODULO, PatternNext
  PROVE  StuckGood'
<1>1. PICK c, s : Sweeping(c, s) /\ PatternCase(c, s)
  BY RunningFacts
<1>2. item \in PatternItems /\ ~Returned /\ UNCHANGED arguments
  BY RunningFacts
<1>3. /\ c = Current /\ s = CurrentSweep /\ c = Call(call) /\ s = Sweep(c, sweep)
      /\ CallRight(c) /\ start_p \in Nat /\ sweep \in Nat \ {0} /\ sweep \in 1 .. Sweeps(c)
      /\ s.down \in BOOLEAN /\ s.which = "all" /\ p \in Int
      /\ c.fn \in {"movinv1", "movinv32", "movinvr", "march_c"} /\ (item = MEM_MARCH_C_TEST <=> c.fn = "march_c")
      /\ ret \in {ERR_SUCCESS, ERR_FAIL}
  <2>1. c.fn = FunctionOf(item) /\ c.fn # "modtst"
    BY <1>1, StuckFunctions DEF Sweeping
  <2> QED BY <1>1, <2>1, StuckFunctions DEF Sweeping
<1>4. item' = item /\ start_p' = start_p /\ fault' = fault /\ Slice' = Slice /\ Verifies' = Verifies
  BY <1>2 DEF arguments, Slice, end, Verifies, Compares
<1>5. Checks(c)
  BY <1>3 DEF Verifies, Checks
<1>6. fault.at \in Slice /\ fault.at \in Int /\ fault.v \in {0, 1}
  <2>1. fault.at \in Addresses /\ fault.v \in {0, 1}
    BY FaultKinds
  <2>2. fault.at \in Slice
    BY DEF FaultIn
  <2>3. \A a \in Addresses : a \in Int
    BY WordAssumption
  <2> QED BY <2>1, <2>2, <2>3
<1>7. StuckSweeps(c, s) /\ (c.fn = "march_c" => ret = ERR_SUCCESS)
  BY <1>2, <1>3 DEF StuckGood
<1>8. /\ Sweeps(c) >= 3 /\ Sweep(c, 1) = Up("none", "p1") /\ Sweep(c, 2) = Up("p1", "p2")
      /\ Sweep(c, 3).check = "p2" /\ Sweep(c, 3).write = "p1" /\ Sweep(c, 3).which = "all"
  BY <1>3, SweepTable
<1>9. Returned' => (ret' # ERR_SUCCESS => StuckGood')
  BY <1>4 DEF StuckGood
<1>10. ASSUME ~Returned', StuckSweeps(Current, CurrentSweep)', (Current.fn = "march_c" => ret = ERR_SUCCESS)',
              Current'.fn # "modtst"
       PROVE  StuckGood'
  BY <1>10 DEF StuckGood
<1>11. UNCHANGED <<call, sweep>> => Current' = c /\ CurrentSweep' = s
  BY <1>2, <1>3, SameSweep
<1>12. ~Failed(c)
  <2>1. c.fn = "march_c" => ret = ERR_SUCCESS
    BY <1>7
  <2> QED BY <2>1 DEF Failed, Unchecked
<1>13. ret = ERR_SUCCESS => sweep \in {1, 2, 3}
  BY <1>3, <1>7 DEF StuckSweeps
<1>14. CASE Quiet(c, s)
  <2>1. UNCHANGED <<call, sweep, p, ret>> /\ ~Returned'
    BY <1>14 DEF Quiet, Returned
  <2> QED BY <1>3, <1>4, <1>7, <1>10, <1>11, <2>1 DEF StuckSweeps, BitOf
<1>15. CASE Visits(c, s)
  <2>1. /\ UNCHANGED <<call, sweep>> /\ ~Returned' /\ (Bad(c, s) => ~StopsAtOnce(c))
        /\ ret' = (IF Bad(c, s) THEN ERR_FAIL ELSE ret)
        /\ p' = IF s.down THEN p - 1 ELSE p + 1
    BY <1>3, <1>15 DEF Visits, Returned
  <2>2. Current' = c /\ CurrentSweep' = s
    BY <1>11, <2>1
  <2>3. (Current.fn = "march_c" => ret = ERR_SUCCESS)'
    BY <1>7, <2>1, <2>2 DEF StopsAtOnce
  <2>4. SUFFICES StuckSweeps(c, s)'
    BY <1>3, <1>10, <2>1, <2>2, <2>3
  <2>5. SUFFICES ASSUME ret' = ERR_SUCCESS
                 PROVE  /\ sweep <= 3
                        /\ (sweep = 2 /\ Visited(s, p', fault.at)) \/ sweep = 3 =>
                              BitOf(FirstValue(c, start_p, fault.at)) = fault.v
                        /\ sweep = 3 => ~Visited(s, p', fault.at)
    BY <1>4, <2>1 DEF StuckSweeps, BitOf
  <2>6. ret = ERR_SUCCESS /\ ~Bad(c, s)
    BY <2>1, <2>5 DEF ERR_SUCCESS, ERR_FAIL
  <2>7. CASE p # fault.at
    <3>1. Visited(s, p', fault.at) <=> Visited(s, p, fault.at)
      BY <1>3, <1>6, <2>1, <2>7 DEF Visited
    <3> QED BY <1>7, <2>6, <3>1 DEF StuckSweeps
  <2>8. CASE p = fault.at
    <3>1. s.check \in {"p1", "p2"} =>
            BitOf(FirstValue(c, start_p, fault.at)) = IF s.check = "p1" THEN fault.v ELSE 1 - fault.v
      BY <1>3, <1>5, <2>6, <2>8, StuckLooked
    <3>2. sweep = 2 => s.check = "p1"
      BY <1>3, <1>8, Shapes
    <3>3. sweep # 3
      <4>1. SUFFICES ASSUME sweep = 3 PROVE FALSE
        OBVIOUS
      <4>2. s.check = "p2"
        BY <1>3, <1>8, <4>1
      <4> QED BY <1>6, <1>7, <2>6, <3>1, <4>1, <4>2 DEF StuckSweeps
    <3> QED BY <1>7, <2>6, <3>1, <3>2, <3>3 DEF StuckSweeps
  <2> QED BY <2>7, <2>8
<1>16. CASE Detects(c, s)
  <2>1. Returned' /\ ret' # ERR_SUCCESS
    BY <1>16 DEF Detects, Return, Returned, ERR_FAIL, ERR_SUCCESS
  <2> QED BY <1>9, <2>1
<1>17. CASE Forgets(c, s)
  <2>1. c.fn = "march_c" /\ (sweep - 2) % 6 = 5 /\ ret = ERR_SUCCESS
    BY <1>7, <1>17 DEF Forgets, Unchecked
  <2>2. sweep > 1
    BY <1>17 DEF Forgets, Unchecked
  <2> QED BY <1>13, <2>1, <2>2
<1>18. ret = ERR_SUCCESS => ~(Visited(s, p, fault.at) /\ sweep = 3)
  BY <1>7 DEF StuckSweeps
<1>19. CASE NextSweep(c, s)
  <2>1. /\ call' = call /\ sweep' = sweep + 1 /\ ~Returned' /\ Current' = c
        /\ CurrentSweep' = Sweep(c, sweep + 1)
        /\ ~Visited(CurrentSweep', p', fault.at) /\ Visited(s, p, fault.at)
    BY <1>2, <1>3, <1>6, <1>12, <1>19, SweepFollows
  <2>2. ret' = IF c.fn = "march_c" THEN ERR_SUCCESS ELSE ret
    BY <1>19 DEF NextSweep
  <2>3. ret' = ret
    BY <1>7, <2>2
  <2>4. (Current.fn = "march_c" => ret = ERR_SUCCESS)' /\ Current'.fn # "modtst"
    BY <1>3, <2>1, <2>2
  <2>5. StuckSweeps(Current, CurrentSweep)'
    <3>1. SUFFICES ASSUME ret = ERR_SUCCESS
                   PROVE  /\ sweep + 1 <= 3
                          /\ sweep + 1 = 3 => BitOf(FirstValue(c, start_p, fault.at)) = fault.v
      BY <1>4, <2>1, <2>3 DEF StuckSweeps, BitOf
    <3> QED BY <1>7, <1>13, <1>18, <2>1, <3>1 DEF StuckSweeps
  <2> QED BY <1>10, <2>1, <2>4, <2>5
<1>20. ret = ERR_SUCCESS /\ sweep = Sweeps(c) => sweep = 3
  BY <1>8, <1>13, <1>3
<1>21. CASE NextCall(c, s)
  <2>1. sweep = Sweeps(c) /\ ret = ERR_SUCCESS /\ Visited(s, p, fault.at)
    BY <1>2, <1>3, <1>6, <1>12, <1>21, CallFollows
  <2> QED BY <1>18, <1>20, <2>1
<1>22. CASE Ends(c, s)
  <2>1. Returned' /\ ret' = ret
    BY <1>22 DEF Ends, Return, Returned
  <2>2. ret = ERR_SUCCESS => sweep = Sweeps(c) /\ Visited(s, p, fault.at)
    BY <1>3, <1>6, <1>12, <1>22 DEF Ends, SweepOver
  <2> QED BY <1>9, <1>18, <1>20, <2>1, <2>2
<1> QED BY <1>1, <1>14, <1>15, <1>16, <1>17, <1>19, <1>21, <1>22 DEF PatternCase

-----------------------------------------------------------------------------

\* Of the words that have the same remainder, none lies between one and the next.
LEMMA NoneBetween ==
  ASSUME NEW x \in Int, NEW y \in Int, NEW n \in Nat \ {0}, NEW o \in Int, x % n = o, y % n = o, x < y + n
  PROVE  x <= y
<1>1. SUFFICES ASSUME x > y PROVE FALSE
  OBVIOUS
<1>2. x - y \in 1 .. (n - 1)
  BY <1>1
<1>3. x = n * (x \div n) + o /\ y = n * (y \div n) + o /\ x \div n \in Int /\ y \div n \in Int
  BY IntDivMod
<1> DEFINE u == x \div n
           v == y \div n
<1>4. u \in Int /\ v \in Int /\ x = n * u + o /\ y = n * v + o
  BY <1>3
<1> HIDE DEF u, v
<1>5. x - y = n * (u - v)
  BY <1>4
<1>6. n * (u - v) \in Int /\ u - v \in Int
  BY <1>4
<1>7. (x - y) % n = 0
  BY <1>5, <1>6, IntQuotient
<1>8. (x - y) % n = x - y
  BY <1>2, ModOfSmall
<1> QED BY <1>2, <1>7, <1>8

\* A remainder is no more than the number.
LEMMA RemainderBelow ==
  ASSUME NEW n \in Nat \ {0}, NEW x \in Nat
  PROVE  x % n \in 0 .. (n - 1) /\ x % n <= x
<1> DEFINE u == x \div n
           o == x % n
<1>1. x = n * u + o /\ u \in Int /\ o \in 0 .. (n - 1)
  BY IntDivMod
<1> HIDE DEF u, o
<1>2. u < 0 => n * u <= -n
  BY <1>1
<1>3. u >= 0 => n * u >= 0
  BY <1>1
<1>4. n * u \in Int
  BY <1>1
<1>5. o <= x
  BY <1>1, <1>2, <1>3, <1>4
<1> QED BY <1>1, <1>5 DEF o

\* A step of modtst().
LEMMA ModuloStuckStep ==
  ASSUME SliceRight, PatternState, fault \in Faults, mem \in Memories, FaultIn(fault, Slice), StuckGood,
         fault.kind = "stuck", Verifies, item = MEM_MODULO, PatternNext
  PROVE  StuckGood'
<1>1. PICK c, s : Sweeping(c, s) /\ PatternCase(c, s)
  BY RunningFacts
<1>2. item \in PatternItems /\ ~Returned /\ UNCHANGED arguments /\ item \in StuckItems
  BY RunningFacts DEF StuckItems
<1>3. /\ c = Current /\ s = CurrentSweep /\ c = Call(call) /\ s = Sweep(c, sweep)
      /\ CallRight(c) /\ start_p \in Nat /\ sweep \in Nat \ {0} /\ sweep \in 1 .. Sweeps(c)
      /\ p \in Int /\ (s.which = "nth" => (p - start_p) % MOD_SZ = c.off)
      /\ call \in Nat \ {0} /\ Sweeps(c) \in Nat \ {0, 1}
  BY <1>1 DEF Sweeping
<1>4. c.fn = "modtst" /\ item # MEM_MARCH_C_TEST
  <2>1. c.fn = FunctionOf(item)
    BY <1>1 DEF Sweeping
  <2>2. item # MEM_MARCH_C_TEST
    BY DEF MEM_MODULO, MEM_MARCH_C_TEST
  <2> QED BY <1>2, <2>1, <2>2, StuckFunctions
<1>5. /\ item' = item /\ start_p' = start_p /\ fault' = fault /\ Slice' = Slice /\ Verifies' = Verifies
      /\ StuckCall' = StuckCall /\ Call(StuckCall)' = Call(StuckCall)
  <2>1. item' = item /\ start_p' = start_p /\ fault' = fault /\ cnt' = cnt /\ no_comp' = no_comp
    BY <1>2 DEF arguments
  <2> QED BY <2>1, CallSame DEF Slice, end, Verifies, Compares, StuckCall
<1>6. Checks(c) /\ StopsAtOnce(c) /\ ~Unchecked(c) /\ ~Failed(c)
  BY <1>4 DEF Verifies, Checks, StopsAtOnce, Unchecked, Failed
<1> DEFINE j == (fault.at - start_p) % MOD_SZ
           d == Call(StuckCall)
<1>7. fault.at \in Slice /\ fault.at \in Int /\ fault.at >= start_p /\ fault.v \in {0, 1} /\ fault.b \in Bits
  <2>1. fault.at \in Addresses /\ fault.v \in {0, 1} /\ fault.b \in Bits
    BY FaultKinds
  <2>2. fault.at \in Slice
    BY DEF FaultIn
  <2>3. \A a \in Addresses : a \in Int
    BY WordAssumption
  <2> QED BY <1>3, <2>1, <2>2, <2>3 DEF Slice
<1>8. MOD_SZ \in Nat \ {0} /\ j \in 0 .. (MOD_SZ - 1) /\ j <= fault.at - start_p
  <2> DEFINE x == fault.at - start_p
  <2>1. x \in Nat /\ MOD_SZ \in Nat \ {0}
    BY <1>3, <1>7, PatternAssumption
  <2> HIDE DEF x
  <2>2. x % MOD_SZ \in 0 .. (MOD_SZ - 1) /\ x % MOD_SZ <= x
    BY <2>1, RemainderBelow
  <2> QED BY <2>1, <2>2 DEF x
<1>9. /\ StuckCall = 2 * j + 1 /\ StuckCall \in Nat \ {0} /\ StuckCall + 1 <= Calls /\ Calls \in Nat
      /\ d.off = j /\ Call(StuckCall + 1).off = j /\ d.p1 \in Words /\ Call(StuckCall + 1).p1 = Not(d.p1)
  <2>1. StuckCall = 2 * j + 1 /\ 2 * j + 2 = StuckCall + 1
    BY <1>8 DEF StuckCall
  <2> HIDE DEF j, d
  <2>2. /\ 2 * j + 1 \in Nat \ {0} /\ 2 * j + 2 <= Calls /\ Calls \in Nat
        /\ Call(2 * j + 1).off = j /\ Call(2 * j + 2).off = j
        /\ Call(2 * j + 1).p1 \in Words
        /\ Call(2 * j + 2).p1 = Not(Call(2 * j + 1).p1)
    BY <1>8, ModuloPair
  <2> QED BY <2>1, <2>2 DEF d
<1> HIDE DEF j, d
<1>10. StuckModulo(c)
  BY <1>2, <1>3, <1>4 DEF StuckGood
<1>11. /\ s = IF sweep = 1 THEN Nth("none", "p1") ELSE IF sweep < Sweeps(c) THEN Rest("none", "p2") ELSE Nth("p1", "none")
  BY <1>3, <1>4, SweepsFollow
<1>12. sweep = Sweeps(c) => s.which = "nth" /\ s.check = "p1" /\ ~s.down
  BY <1>3, <1>11, Shapes
<1>13. call \in {StuckCall, StuckCall + 1} => c.off = j
  BY <1>3, <1>9 DEF d
<1>14. Returned' => (ret' # ERR_SUCCESS => StuckGood')
  BY <1>5 DEF StuckGood
<1>15. ASSUME ~Returned', StuckModulo(Current)', Current'.fn = "modtst" PROVE StuckGood'
  <2>1. (Current.fn = "modtst")' /\ (item \in PatternItems)'
    BY <1>2, <1>5, <1>15
  <2> QED BY <1>15, <2>1 DEF StuckGood
<1>16. UNCHANGED <<call, sweep>> => Current' = c /\ CurrentSweep' = s
  BY <1>2, <1>3, SameSweep
\* After the last sweep of the second of the two calls, neither pattern has the stuck bit.
<1>17. ASSUME call = StuckCall + 1, sweep = Sweeps(c), SweepOver(c, s) PROVE FALSE
  <2>1. c.off = j /\ c.p1 = Not(d.p1) /\ d.p1 \in Words
    BY <1>3, <1>9, <1>17
  <2>2. fault.at < p
    <3>1. (fault.at - start_p) % MOD_SZ = c.off
      BY <2>1 DEF j
    <3>2. Visited(s, p, fault.at)
      BY <1>6, <1>7, <1>17, <3>1 DEF SweepOver
    <3> QED BY <1>12, <1>17, <3>2 DEF Visited
  <2>3. BitOf(d.p1) = fault.v /\ BitOf(c.p1) = fault.v
    BY <1>10, <1>17, <2>2 DEF StuckModulo, d
  <2>4. Not(d.p1)[fault.b] = 1 - d.p1[fault.b]
    BY <1>7, <2>1, NotFacts
  <2> QED BY <1>7, <2>1, <2>3, <2>4 DEF BitOf
\* After that of the first, its pattern has it.
<1>18. ASSUME call = StuckCall, sweep = Sweeps(c), SweepOver(c, s) PROVE BitOf(d.p1) = fault.v
  <2>1. c.off = j /\ c = d
    BY <1>3, <1>9, <1>18 DEF d
  <2>2. fault.at < p
    <3>1. (fault.at - start_p) % MOD_SZ = c.off
      BY <2>1 DEF j
    <3>2. Visited(s, p, fault.at)
      BY <1>6, <1>7, <1>18, <3>1 DEF SweepOver
    <3> QED BY <1>12, <1>18, <3>2 DEF Visited
  <2> QED BY <1>10, <1>18, <2>1, <2>2 DEF StuckModulo
<1>19. CASE Quiet(c, s)
  <2>1. UNCHANGED <<call, sweep, p, ret>> /\ ~Returned'
    BY <1>19 DEF Quiet, Returned
  <2>2. StuckModulo(c)'
    BY <1>5, <1>10, <2>1 DEF StuckModulo, BitOf, Sweeps
  <2> QED BY <1>3, <1>4, <1>15, <1>16, <2>1, <2>2
<1>20. CASE Visits(c, s)
  <2>1. /\ UNCHANGED <<call, sweep>> /\ ~Returned' /\ ~Bad(c, s)
        /\ p' = IF s.down THEN p - 1 ELSE IF s.which = "nth" THEN p + MOD_SZ ELSE p + 1
    BY <1>6, <1>20 DEF Visits, Returned
  <2>2. Current' = c
    BY <1>16, <2>1
  <2>3. SUFFICES ASSUME call \in {StuckCall, StuckCall + 1}, sweep = Sweeps(c), fault.at < p'
                 PROVE  BitOf(c.p1) = fault.v
    <3>1. SUFFICES StuckModulo(c)'
      BY <1>3, <1>4, <1>15, <2>1, <2>2
    <3> QED BY <1>5, <1>10, <2>1, <2>3 DEF StuckModulo, BitOf
  <2>4. p' = p + MOD_SZ /\ s.check = "p1" /\ (p - start_p) % MOD_SZ = c.off /\ (fault.at - start_p) % MOD_SZ = c.off
    BY <1>3, <1>12, <1>13, <2>1, <2>3 DEF j
  <2>5. fault.at < p \/ fault.at = p
    <3> DEFINE x == fault.at - start_p
               y == p - start_p
    <3>1. x \in Int /\ y \in Int /\ x < y + MOD_SZ /\ x % MOD_SZ = c.off /\ y % MOD_SZ = c.off /\ c.off \in Int
      BY <1>3, <1>7, <1>8, <2>3, <2>4 DEF CallRight
    <3> HIDE DEF x, y
    <3>2. x <= y
      BY <1>8, <3>1, NoneBetween
    <3> QED BY <1>3, <1>7, <3>2 DEF x, y
  <2>6. CASE fault.at < p
    BY <1>10, <2>3, <2>6 DEF StuckModulo
  <2>7. CASE fault.at = p
    <3>1. BitOf(FirstValue(c, start_p, fault.at)) = fault.v
      BY <1>3, <1>6, <2>1, <2>4, <2>7, StuckLooked
    <3> QED BY <1>4, <3>1 DEF FirstValue
  <2> QED BY <2>5, <2>6, <2>7
<1>21. CASE Detects(c, s)
  <2>1. Returned' /\ ret' # ERR_SUCCESS
    BY <1>21 DEF Detects, Return, Returned, ERR_FAIL, ERR_SUCCESS
  <2> QED BY <1>14, <2>1
<1>22. CASE Forgets(c, s)
  BY <1>6, <1>22 DEF Forgets
<1>23. CASE NextSweep(c, s)
  <2>1. /\ call' = call /\ sweep' = sweep + 1 /\ sweep + 1 \in 1 .. Sweeps(c) /\ ~Returned' /\ Current' = c
        /\ CurrentSweep' = Sweep(c, sweep + 1) /\ (CurrentSweep'.which = "nth" => p' = start_p + c.off)
    BY <1>2, <1>3, <1>23, SweepFollows
  <2>2. call \in {StuckCall, StuckCall + 1} /\ sweep + 1 = Sweeps(c) => ~(fault.at < p')
    <3>1. SUFFICES ASSUME call \in {StuckCall, StuckCall + 1}, sweep + 1 = Sweeps(c) PROVE p' <= fault.at /\ p' \in Int
      BY <1>7
    <3> DEFINE t == sweep + 1
    <3>2. t \in 1 .. Sweeps(c) /\ t # 1 /\ ~(t < Sweeps(c))
      BY <1>3, <2>1, <3>1
    <3> HIDE DEF t
    <3>3. Sweep(c, t) = Nth("p1", "none")
      BY <1>3, <1>4, <3>2, SweepsFollow
    <3>4. p' = start_p + j
      BY <1>13, <2>1, <3>1, <3>3, Shapes DEF t
    <3> QED BY <1>3, <1>7, <1>8, <3>4
  <2>3. StuckModulo(c)'
    BY <1>5, <1>10, <2>1, <2>2 DEF StuckModulo, BitOf
  <2> QED BY <1>4, <1>15, <2>1, <2>3
<1>24. CASE NextCall(c, s)
  <2>1. /\ sweep = Sweeps(c) /\ ~Returned' /\ call' = call + 1 /\ call + 1 \in 1 .. Calls /\ sweep' = 1
        /\ Current' = Call(call + 1)
    BY <1>2, <1>3, <1>24, CallFollows
  <2>2. SweepOver(c, s)
    BY <1>24 DEF NextCall
  <2>3. call # StuckCall + 1 /\ (call = StuckCall => BitOf(d.p1) = fault.v)
    BY <1>17, <1>18, <2>1, <2>2
  <2> DEFINE n == call + 1
             e == Call(n)
  <2>4. n \in 1 .. Calls
    BY <2>1
  <2> HIDE DEF n
  <2>5. CallRight(e) /\ e.fn = "modtst" /\ Sweeps(e) # 1
    <3>1. CallRight(e) /\ e.fn = FunctionOf(item)
      BY <1>2, <2>4, CallFacts
    <3> HIDE DEF e
    <3>2. Sweeps(e) \in Nat \ {0, 1}
      BY <3>1, SweepsCount
    <3> QED BY <1>2, <3>1, <3>2, StuckFunctions
  <2> HIDE DEF e
  <2>6. Current' = e
    BY <2>1 DEF e, n
  <2>7. StuckModulo(Current)'
    <3>1. /\ call' <= StuckCall + 1
          /\ call' = StuckCall + 1 => BitOf(d.p1) = fault.v
      BY <1>3, <1>9, <1>10, <2>1, <2>3 DEF StuckModulo
    <3> QED BY <1>5, <2>1, <2>5, <2>6, <3>1 DEF StuckModulo, BitOf, d
  <2> QED BY <1>15, <2>1, <2>5, <2>6, <2>7
<1>25. CASE Ends(c, s)
  <2>1. Returned' /\ ret' = ret
    BY <1>25 DEF Ends, Return, Returned
  <2>2. ret # ERR_SUCCESS
    <3>1. SUFFICES ASSUME ret = ERR_SUCCESS PROVE FALSE
      OBVIOUS
    <3>2. sweep = Sweeps(c) /\ call = Calls /\ SweepOver(c, s)
      BY <1>25, <3>1 DEF Ends
    <3>3. call = StuckCall + 1
      BY <1>3, <1>9, <1>10, <3>2 DEF StuckModulo
    <3> QED BY <1>17, <3>2, <3>3
  <2> QED BY <1>14, <2>1, <2>2
<1> QED BY <1>1, <1>19, <1>20, <1>21, <1>22, <1>23, <1>24, <1>25 DEF PatternCase

-----------------------------------------------------------------------------
(* March C *)

\* The bits of its patterns.
MarchBit(name) == IF name = "p1" THEN 0 ELSE 1

\* Its first iteration and the sweep after it.
MarchTable(n, s) ==
  /\ s.which = "all" /\ s.down \in BOOLEAN
  /\ n = 1 => ~s.down /\ s.check = "none" /\ s.write = "p1"
  /\ n = 2 => ~s.down /\ s.check = "p1" /\ s.write = "p2"
  /\ n = 3 => ~s.down /\ s.check = "p2" /\ s.write = "p1"
  /\ n = 4 => ~s.down /\ s.check = "p1" /\ s.write = "none"
  /\ n = 5 => s.down /\ s.check = "p1" /\ s.write = "p2"
  /\ n = 6 => s.down /\ s.check = "p2" /\ s.write = "p1"
  /\ n = 7 => s.down /\ s.check = "p1" /\ s.write = "none"
  /\ n = 8 => ~s.down /\ s.check = "p1" /\ s.write = "p2"

\* What a step of March C does in a sweep s.
MarchStill == UNCHANGED <<mem, p, sweep, ret>> /\ CurrentSweep' = CurrentSweep /\ ~Returned'
MarchVisit(s) ==
  /\ p \in Slice /\ UNCHANGED <<sweep, ret>> /\ CurrentSweep' = s /\ ~Returned' /\ ~Failed(Current)
  /\ s.check # "none" => Load(mem, fault, p) = Filled(MarchBit(s.check))
  /\ mem' = IF s.write = "none" THEN mem ELSE Store(mem, fault, p, Filled(MarchBit(s.write)))
  /\ p' = IF s.down THEN p - 1 ELSE p + 1
MarchReports == Returned' /\ ret' # ERR_SUCCESS
MarchForgets ==
  /\ UNCHANGED <<mem, p, sweep>> /\ CurrentSweep' = CurrentSweep /\ ~Returned' /\ ret' # ERR_SUCCESS
  /\ sweep > 1 /\ (sweep - 2) % 6 = 5
MarchGoesOn(s) ==
  /\ sweep' = sweep + 1 /\ mem' = mem /\ ret' = ERR_SUCCESS /\ ~Returned'
  /\ \A a \in Slice : ~Visited(CurrentSweep', p', a) /\ (Failed(Current) \/ Visited(s, p, a))
MarchSucceeds(s) ==
  Returned' /\ ret' = ERR_SUCCESS /\ sweep >= 7 /\ \A a \in Slice : Visited(s, p, a)

\* The steps of March C.
LEMMA MarchStep ==
  ASSUME SliceRight, PatternState, item = MEM_MARCH_C_TEST, PatternNext
  PROVE  /\ ~Returned /\ item' = item /\ fault' = fault /\ Slice' = Slice
         /\ sweep \in Nat \ {0} /\ p \in Int /\ MarchTable(sweep, CurrentSweep)
         /\ ret \in {ERR_SUCCESS, ERR_FAIL} /\ Unchecked(Current) = (sweep > 1 /\ (sweep - 2) % 6 = 5)
         /\ ~Returned' => MarchTable(sweep', CurrentSweep')
         /\ \/ MarchStill \/ MarchVisit(CurrentSweep) \/ MarchReports \/ MarchForgets
            \/ MarchGoesOn(CurrentSweep) \/ MarchSucceeds(CurrentSweep)
<1>1. PICK c, s : Sweeping(c, s) /\ PatternCase(c, s)
  BY RunningFacts
<1>2. item \in PatternItems /\ ~Returned /\ UNCHANGED arguments
  BY RunningFacts
<1>3. /\ c = Current /\ s = CurrentSweep /\ c = Call(call) /\ s = Sweep(c, sweep)
      /\ CallRight(c) /\ start_p \in Nat /\ sweep \in Nat \ {0} /\ sweep \in 1 .. Sweeps(c)
      /\ s.down \in BOOLEAN /\ p \in Int /\ call \in 1 .. Calls /\ call \in Nat
      /\ ret \in {ERR_SUCCESS, ERR_FAIL} /\ (Failed(c) => pc = "chunk")
  BY <1>1 DEF Sweeping
<1>4. c.fn = "march_c" /\ s.which = "all" /\ c.p1 = Filled(0) /\ Calls = 1
  <2>1. c.fn = FunctionOf(item) /\ (c.fn # "modtst" => s.which = "all")
    BY <1>1 DEF Sweeping
  <2>2. c.p1 = Filled(0)
    BY <1>2, <1>3, CallFacts
  <2> USE DEF MEM_ADD_OWN_ADDRESS, MEM_MOVE_INVER_ONES_ZERO, MEM_MOVE_INVER_8BIT, MEM_MOVE_INVER_RANDOM,
        MEM_MOVE_INVER_32BIT, MEM_RANDOM_NUM_SEQUENCE, MEM_MODULO, MEM_MARCH_C_TEST, MEM_BIT_FADE_TEST
  <2>3. FunctionOf(item) = "march_c"
    BY DEF FunctionOf
  <2>4. Calls = 1
    BY DEF Calls
  <2> QED BY <2>1, <2>2, <2>3, <2>4
<1>5. item' = item /\ start_p' = start_p /\ fault' = fault /\ Slice' = Slice
  BY <1>2 DEF arguments, Slice, end
<1>6. /\ Sweeps(c) >= 7 /\ Sweep(c, 1) = Up("none", "p1") /\ Sweep(c, 2) = Up("p1", "p2")
      /\ Sweep(c, 3) = Up("p2", "p1") /\ Sweep(c, 4) = Up("p1", "none")
      /\ Sweep(c, 5) = Down("p1", "p2") /\ Sweep(c, 6) = Down("p2", "p1") /\ Sweep(c, 7) = Down("p1", "none")
      /\ Sweep(c, 8) = Up("p1", "p2")
  BY <1>3, <1>4, SweepTable
<1>7. ASSUME NEW n \in 1 .. Sweeps(c) PROVE MarchTable(n, Sweep(c, n))
  <2>1. Sweep(c, n).which = "all" /\ Sweep(c, n).down \in BOOLEAN
    BY <1>3, <1>4, SweepsFollow, SweepKinds
  <2> QED BY <1>6, <2>1, Shapes DEF MarchTable
<1>8. MarchTable(sweep, s)
  BY <1>3, <1>7
<1>9. UNCHANGED <<call, sweep>> => Current' = c /\ CurrentSweep' = s
  BY <1>2, <1>3, SameSweep
<1>10. Checks(c) /\ StopsAtOnce(c) /\ Unchecked(c) = (sweep > 1 /\ (sweep - 2) % 6 = 5)
  BY <1>4 DEF Checks, StopsAtOnce, Unchecked
<1>11. \A name : Value(c, name, start_p, p) = Filled(MarchBit(name))
  <2>1. FirstValue(c, start_p, p) = Filled(0)
    BY <1>4 DEF FirstValue
  <2>2. Not(Filled(0)) = Filled(1)
    BY DEF Not, Filled
  <2> QED BY <2>1, <2>2 DEF Value, MarchBit
<1>12. (~Returned' => MarchTable(sweep', CurrentSweep')) /\
          (\/ MarchStill \/ MarchVisit(s) \/ MarchReports \/ MarchForgets \/ MarchGoesOn(s) \/ MarchSucceeds(s))
  <2>1. CASE Quiet(c, s)
    <3>1. UNCHANGED <<mem, call, sweep, p, ret>> /\ ~Returned'
      BY <2>1 DEF Quiet, Returned
    <3> QED BY <1>3, <1>8, <1>9, <3>1 DEF MarchStill
  <2>2. CASE Visits(c, s)
    <3>1. /\ p \in Slice /\ UNCHANGED <<call, sweep>> /\ ~Returned' /\ ~Bad(c, s) /\ ret' = ret
          /\ p' = (IF s.down THEN p - 1 ELSE p + 1) /\ pc = "words"
          /\ mem' = IF s.write = "none" THEN mem ELSE Store(mem, fault, p, Filled(MarchBit(s.write)))
      BY <1>4, <1>10, <1>11, <2>2 DEF Visits, Skipped, Returned
    <3>2. s.check # "none" => Load(mem, fault, p) = Filled(MarchBit(s.check))
      BY <1>10, <1>11, <3>1 DEF Bad
    <3>3. ~Failed(c)
      BY <1>3, <3>1
    <3> QED BY <1>3, <1>8, <1>9, <3>1, <3>2, <3>3 DEF MarchVisit
  <2>3. CASE Detects(c, s)
    BY <2>3 DEF Detects, Return, Returned, MarchReports, ERR_FAIL, ERR_SUCCESS
  <2>4. CASE Forgets(c, s)
    <3>1. UNCHANGED <<mem, call, sweep, p>> /\ ~Returned' /\ ret' # ERR_SUCCESS /\ Unchecked(c)
      BY <2>4 DEF Forgets, Returned, ERR_FAIL, ERR_SUCCESS
    <3> QED BY <1>3, <1>8, <1>9, <1>10, <3>1 DEF MarchForgets
  <2>5. CASE NextSweep(c, s)
    <3>1. /\ sweep' = sweep + 1 /\ sweep + 1 \in 1 .. Sweeps(c) /\ ~Returned' /\ mem' = mem
          /\ CurrentSweep' = Sweep(c, sweep + 1)
          /\ \A a \in Slice : ~Visited(CurrentSweep', p', a) /\ (Failed(c) \/ Visited(s, p, a))
      BY <1>2, <1>3, <1>4, <2>5, SweepFollows
    <3>2. ret' = ERR_SUCCESS
      BY <1>4, <2>5 DEF NextSweep
    <3>3. MarchTable(sweep + 1, Sweep(c, sweep + 1))
      BY <1>7, <3>1
    <3> QED BY <1>3, <3>1, <3>2, <3>3 DEF MarchGoesOn
  <2>6. CASE NextCall(c, s)
    BY <1>3, <1>4, <2>6 DEF NextCall
  <2>7. CASE Ends(c, s)
    <3>1. Returned' /\ ret' = ret
      BY <2>7 DEF Ends, Return, Returned
    <3>2. ret = ERR_SUCCESS => sweep = Sweeps(c) /\ SweepOver(c, s) /\ ~Failed(c)
      BY <2>7 DEF Ends, Failed
    <3>3. ret = ERR_SUCCESS => MarchSucceeds(s)
      BY <1>3, <1>4, <1>6, <3>1, <3>2 DEF MarchSucceeds, SweepOver
    <3> QED BY <3>1, <3>3 DEF MarchReports
  <2> QED BY <1>1, <2>1, <2>2, <2>3, <2>4, <2>5, <2>6, <2>7 DEF PatternCase
<1> QED BY <1>2, <1>3, <1>5, <1>8, <1>10, <1>12

\* A visit comes to one word.
LEMMA OneVisited ==
  ASSUME NEW s, s.down \in BOOLEAN, p \in Int, p' = IF s.down THEN p - 1 ELSE p + 1, NEW a \in Int
  PROVE  /\ a # p => (Visited(s, p', a) <=> Visited(s, p, a))
         /\ a = p => Visited(s, p', a) /\ ~Visited(s, p, a)
BY DEF Visited
-----------------------------------------------------------------------------
(* March C and a bit that cannot be changed to one of its values *)

TransitionGood ==
  fault.kind = "transition" /\ item = MEM_MARCH_C_TEST =>
    /\ Returned => ret # ERR_SUCCESS
    /\ ~Returned =>
         LET seen == Visited(CurrentSweep, p, fault.at)
             bit == BitOf(mem[fault.at]) IN
         /\ sweep <= 4 /\ ret = ERR_SUCCESS
         /\ (sweep = 2 /\ seen) \/ (sweep = 3 /\ ~seen) => bit = 1 - fault.v
         /\ (sweep = 3 /\ seen) \/ sweep = 4 => fault.v = 0 /\ bit = 1
         /\ sweep = 4 => ~seen

\* A store to the bit.
LEMMA TransitionStore ==
  ASSUME fault \in Faults, mem \in Memories, fault.kind = "transition", NEW v \in {0, 1}, NEW a \in Addresses
  PROVE  LET m == Store(mem, fault, a, Filled(v)) IN
         /\ a # fault.at => m[fault.at] = mem[fault.at]
         /\ a = fault.at => BitOf(m[fault.at]) = IF BitOf(mem[fault.at]) # fault.v THEN 1 - fault.v ELSE v
<1>1. fault.at \in Addresses /\ fault.b \in Bits /\ fault.v \in {0, 1}
  BY FaultKinds
<1>2. CellOf(fault, a) = a /\ \A w : ~Disturbs(mem, fault, a, w)
  BY DEF CellOf, Disturbs
<1>3. Store(mem, fault, a, Filled(v)) = [mem EXCEPT ![a] = Kept(mem, fault, a, Filled(v))]
  BY <1>2, Zenon DEF Store
<1>4. a = fault.at => Kept(mem, fault, a, Filled(v))[fault.b] = IF mem[fault.at][fault.b] # fault.v THEN 1 - fault.v ELSE v
  <2>1. Filled(v) = [b \in Bits |-> v]
    BY DEF Filled
  <2> QED BY <1>1, <2>1 DEF Kept
<1> DEFINE kept == Kept(mem, fault, a, Filled(v))
<1> HIDE DEF kept
<1>5. [mem EXCEPT ![a] = kept][a] = kept /\ \A x \in Addresses : x # a => [mem EXCEPT ![a] = kept][x] = mem[x]
  BY DEF Memories
<1> QED BY <1>1, <1>3, <1>4, <1>5 DEF kept, BitOf

\* A bit that cannot change is found wrong by the sweep behind the one that should have
\* changed it.
LEMMA TransitionStep ==
  ASSUME SliceRight, PatternState, fault \in Faults, mem \in Memories, FaultIn(fault, Slice), TransitionGood,
         fault.kind = "transition", item = MEM_MARCH_C_TEST, PatternNext
  PROVE  TransitionGood'
<1> DEFINE s == CurrentSweep
           seen == Visited(s, p, fault.at)
           bit == BitOf(mem[fault.at])
<1>1. /\ ~Returned /\ item' = item /\ fault' = fault /\ Slice' = Slice
      /\ sweep \in Nat \ {0} /\ p \in Int /\ MarchTable(sweep, s)
      /\ Unchecked(Current) = (sweep > 1 /\ (sweep - 2) % 6 = 5)
      /\ \/ MarchStill \/ MarchVisit(s) \/ MarchReports \/ MarchForgets \/ MarchGoesOn(s) \/ MarchSucceeds(s)
  BY MarchStep
<1>2. fault.at \in Slice /\ fault.at \in Addresses /\ fault.at \in Int /\ fault.v \in {0, 1} /\ fault.b \in Bits
      /\ (p \in Slice => p \in Addresses)
  <2>1. fault.at \in Addresses /\ fault.v \in {0, 1} /\ fault.b \in Bits
    BY FaultKinds
  <2>2. fault.at \in Slice /\ Slice \subseteq Addresses
    BY DEF FaultIn, SliceRight
  <2>3. \A a \in Addresses : a \in Int
    BY WordAssumption
  <2> QED BY <2>1, <2>2, <2>3
<1>3. /\ sweep <= 4 /\ ret = ERR_SUCCESS
      /\ (sweep = 2 /\ seen) \/ (sweep = 3 /\ ~seen) => bit = 1 - fault.v
      /\ (sweep = 3 /\ seen) \/ sweep = 4 => fault.v = 0 /\ bit = 1
      /\ sweep = 4 => ~seen
  BY <1>1 DEF TransitionGood
<1>4. sweep \in {1, 2, 3, 4}
  BY <1>1, <1>3
<1>5. ~Failed(Current)
  BY <1>3 DEF Failed
<1>6. ASSUME ~Returned', NEW t, CurrentSweep' = t, NEW v, NEW b, v <=> Visited(t, p', fault.at), b = BitOf(mem'[fault.at]),
             sweep' <= 4, ret' = ERR_SUCCESS,
             (sweep' = 2 /\ v) \/ (sweep' = 3 /\ ~v) => b = 1 - fault.v,
             (sweep' = 3 /\ v) \/ sweep' = 4 => fault.v = 0 /\ b = 1,
             sweep' = 4 => ~v
      PROVE  TransitionGood'
  BY <1>1, <1>6 DEF TransitionGood, BitOf
<1> HIDE DEF s, seen, bit
<1>7. CASE MarchStill
  <2>1. UNCHANGED <<mem, p, sweep, ret>> /\ CurrentSweep' = s /\ ~Returned'
    BY <1>7 DEF MarchStill, s
  <2> QED BY <1>3, <1>6, <2>1 DEF seen, bit
<1>8. CASE MarchVisit(s)
  <2>1. /\ p \in Slice /\ UNCHANGED <<sweep, ret>> /\ CurrentSweep' = s /\ ~Returned'
        /\ s.check # "none" => Load(mem, fault, p) = Filled(MarchBit(s.check))
        /\ mem' = IF s.write = "none" THEN mem ELSE Store(mem, fault, p, Filled(MarchBit(s.write)))
        /\ p' = IF s.down THEN p - 1 ELSE p + 1
    BY <1>8 DEF MarchVisit
  <2> DEFINE seen1 == Visited(s, p', fault.at)
             bit1 == BitOf(mem'[fault.at])
             n == MarchBit(s.write)
  <2>2. s.down \in BOOLEAN
    BY <1>1 DEF MarchTable
  <2>3. /\ fault.at # p => (seen1 <=> seen)
        /\ fault.at = p => seen1 /\ ~seen
    BY <1>1, <1>2, <2>1, <2>2, OneVisited DEF seen
  <2>4. n \in {0, 1} /\ MarchBit("p1") = 0 /\ MarchBit("p2") = 1
    BY DEF MarchBit
  <2> HIDE DEF n
  <2>5. /\ s.write = "none" \/ fault.at # p => bit1 = bit
        /\ s.write # "none" /\ fault.at = p => bit1 = IF bit # fault.v THEN 1 - fault.v ELSE n
    BY <1>2, <2>1, <2>4, TransitionStore DEF bit, n
  <2>6. fault.at = p /\ s.check # "none" => bit = MarchBit(s.check)
    <3>1. SUFFICES ASSUME fault.at = p, s.check # "none" PROVE bit = MarchBit(s.check)
      OBVIOUS
    <3>2. Load(mem, fault, p) = mem[p]
      BY DEF Load, CellOf
    <3>3. mem[p] = Filled(MarchBit(s.check))
      BY <2>1, <3>1, <3>2
    <3> QED BY <1>2, <3>1, <3>3 DEF bit, BitOf, Filled
  <2> HIDE DEF seen1, bit1
  <2>7. /\ sweep = 2 => s.check = "p1" /\ s.write = "p2"
        /\ sweep = 3 => s.check = "p2" /\ s.write = "p1"
        /\ sweep = 4 => s.check = "p1" /\ s.write = "none"
    BY <1>1 DEF MarchTable
  <2>8. /\ sweep <= 4 /\ ret = ERR_SUCCESS
        /\ (sweep = 2 /\ seen1) \/ (sweep = 3 /\ ~seen1) => bit1 = 1 - fault.v
        /\ (sweep = 3 /\ seen1) \/ sweep = 4 => fault.v = 0 /\ bit1 = 1
        /\ sweep = 4 => ~seen1
    <3>1. CASE fault.at # p
      BY <1>3, <2>3, <2>5, <3>1
    <3>2. CASE fault.at = p /\ sweep = 1
      BY <1>3, <3>2
    <3>3. CASE fault.at = p /\ sweep = 2
      BY <1>2, <1>3, <2>3, <2>4, <2>5, <2>6, <2>7, <3>3 DEF n
    <3>4. CASE fault.at = p /\ sweep = 3
      BY <1>2, <1>3, <2>3, <2>4, <2>5, <2>6, <2>7, <3>4 DEF n
    <3>5. CASE fault.at = p /\ sweep = 4
      BY <1>2, <1>3, <2>4, <2>6, <2>7, <3>5
    <3> QED BY <1>4, <3>1, <3>2, <3>3, <3>4, <3>5
  <2> QED BY <1>6, <2>1, <2>8 DEF seen1, bit1
<1>9. CASE MarchReports
  BY <1>9 DEF MarchReports, TransitionGood
<1>10. CASE MarchForgets
  BY <1>4, <1>10 DEF MarchForgets
<1>11. CASE MarchGoesOn(s)
  <2>1. /\ sweep' = sweep + 1 /\ mem' = mem /\ ret' = ERR_SUCCESS /\ ~Returned'
        /\ ~Visited(CurrentSweep', p', fault.at) /\ seen
    BY <1>2, <1>5, <1>11 DEF MarchGoesOn, seen
  <2>2. sweep \in {1, 2, 3}
    BY <1>3, <1>4, <2>1
  <2>3. /\ sweep + 1 = 3 => bit = 1 - fault.v
        /\ sweep + 1 = 4 => fault.v = 0 /\ bit = 1
    BY <1>3, <2>1, <2>2
  <2>4. sweep + 1 <= 4 /\ sweep + 1 # 1
    BY <2>2
  <2> QED BY <1>6, <2>1, <2>3, <2>4 DEF bit
<1>12. CASE MarchSucceeds(s)
  BY <1>4, <1>12 DEF MarchSucceeds
<1> QED BY <1>1, <1>7, <1>8, <1>9, <1>10, <1>11, <1>12

-----------------------------------------------------------------------------
(* March C and a coupling of two words.  The word `from' changes to fv twice  *)
(* in the first iteration, in a sweep upwards (First) and in one downwards    *)
(* three later, when the bit of `at' has one value and the other: one of the  *)
(* two does harm, and the next visit to `at' shows it.                        *)

Upper == fault.from < fault.at
First == IF fault.fv = 1 THEN 2 ELSE 3
\* The bit of `at' when `from' changes to fv for the first time.
Before == IF Upper <=> (fault.fv = 1) THEN 0 ELSE 1
Early == fault.v # Before
\* The sweep that does harm, what the bit is then, and the sweep that finds it.
Harm == IF Early THEN First ELSE First + 3
WrongBit == IF Early THEN 1 - Before ELSE Before
Due == IF Upper THEN (IF Early THEN First ELSE First + 4) ELSE (IF Early THEN First + 1 ELSE First + 3)

Harmed(n, s, q) == n > Harm \/ (n = Harm /\ Visited(s, q, fault.from))
\* What the first sweep did to `at' is found or written over.
Settled(n, s, q) == n >= First \/ (n = First - 1 /\ Visited(s, q, fault.at))
NameAt(s, q, a) == IF Visited(s, q, a) THEN Left(s) ELSE s.check

CouplingState(m, n, s, q, r) ==
  /\ n <= Due \/ (Due = 7 /\ n = 8)
  /\ n >= Due => ~Visited(s, q, fault.at)
  /\ r # ERR_SUCCESS => n = 7 /\ Due = 7
  /\ NameAt(s, q, fault.from) # "none" => m[fault.from][fault.fb] = MarchBit(NameAt(s, q, fault.from))
  /\ Harmed(n, s, q) => m[fault.at][fault.b] = WrongBit
  /\ ~Harmed(n, s, q) /\ Settled(n, s, q) => m[fault.at][fault.b] = MarchBit(NameAt(s, q, fault.at))

CouplingGood ==
  fault.kind = "coupling" /\ item = MEM_MARCH_C_TEST =>
    /\ Returned => ret # ERR_SUCCESS
    /\ ~Returned => CouplingState(mem, sweep, CurrentSweep, p, ret)

\* When `from' changes to fv, and which bit of `at' is wrong.
LEMMA CouplingPlan ==
  ASSUME fault.v \in 0 .. 2, fault.fv \in {0, 1}
  PROVE  /\ First \in {2, 3} /\ Before \in {0, 1} /\ Harm \in {2, 3, 5, 6} /\ Due \in 2 .. 7
         /\ Due = IF Upper <=> Early THEN Harm ELSE Harm + 1
         /\ Early => Harm = First /\ fault.v # Before /\ WrongBit = 1 - Before
         /\ ~Early => Harm = First + 3 /\ fault.v = Before /\ WrongBit = fault.v
<1>1. First \in {2, 3} /\ Before \in {0, 1}
  BY DEF First, Before
<1>2. CASE Early
  BY <1>1, <1>2 DEF Harm, Due, WrongBit, Early
<1>3. CASE ~Early
  <2>1. Harm = First + 3 /\ WrongBit = Before /\ fault.v = Before
    BY <1>3 DEF Harm, WrongBit, Early
  <2>2. Due = IF Upper THEN First + 4 ELSE First + 3
    BY <1>3 DEF Due
  <2> QED BY <1>1, <1>3, <2>1, <2>2
<1> QED BY <1>1, <1>2, <1>3

\* The bits each sweep of March C checks and writes.
LEMMA CouplingTable ==
  ASSUME fault.v \in 0 .. 2, fault.fv \in {0, 1}, NEW n \in 1 .. 8, NEW s, MarchTable(n, s)
  PROVE  /\ s.down \in BOOLEAN /\ s.check \in Names /\ s.write \in Names /\ Left(s) # "none" /\ (s.check = "none" => n = 1)
         /\ n = Due \/ (n = 8 /\ Due = 7) => MarchBit(s.check) # WrongBit
         /\ n = Harm => /\ s.write # "none" /\ MarchBit(s.write) = fault.fv /\ MarchBit(s.check) # fault.fv
                        /\ s.down <=> ~Early
         /\ n > Harm /\ (n <= Due \/ (Due = 7 /\ n = 8)) /\ s.write # "none" => MarchBit(s.write) # fault.fv
         /\ n < Harm /\ s.write # "none" /\ MarchBit(s.write) = fault.fv => n < First - 1 \/ (n = First /\ ~Early)
         /\ n = First => ~s.down /\ s.write # "none" /\ MarchBit(IF Upper THEN s.check ELSE s.write) = Before
<1>1. MarchBit("p1") = 0 /\ MarchBit("p2") = 1
  BY DEF MarchBit
<1>2. /\ s.down \in BOOLEAN /\ s.check \in Names /\ s.write \in Names /\ Left(s) # "none" /\ (s.check = "none" => n = 1)
  BY DEF MarchTable, Names, Left
<1>3. CASE fault.fv = 1
  <2>1. First = 2 /\ Before = (IF Upper THEN 0 ELSE 1) /\ Harm = (IF Early THEN 2 ELSE 5)
    BY <1>3 DEF First, Before, Harm
  <2>2. WrongBit = IF Early THEN 1 - Before ELSE Before
    BY DEF WrongBit
  <2>3. Due = IF Upper THEN (IF Early THEN 2 ELSE 6) ELSE (IF Early THEN 3 ELSE 5)
    BY <2>1 DEF Due
  <2> QED BY <1>1, <1>2, <1>3, <2>1, <2>2, <2>3 DEF MarchTable
<1>4. CASE fault.fv = 0
  <2>1. First = 3 /\ Before = (IF Upper THEN 1 ELSE 0) /\ Harm = (IF Early THEN 3 ELSE 6)
    BY <1>4 DEF First, Before, Harm
  <2>2. WrongBit = IF Early THEN 1 - Before ELSE Before
    BY DEF WrongBit
  <2>3. Due = IF Upper THEN (IF Early THEN 3 ELSE 7) ELSE (IF Early THEN 4 ELSE 6)
    BY <2>1 DEF Due
  <2> QED BY <1>1, <1>2, <1>4, <2>1, <2>2, <2>3 DEF MarchTable
<1> QED BY <1>3, <1>4

\* The sweep after n checks what n left.
LEMMA CouplingNext ==
  ASSUME NEW n \in 1 .. 7, NEW s, NEW t, MarchTable(n, s), MarchTable(n + 1, t)
  PROVE  t.check = Left(s)
BY DEF MarchTable, Left

\* What a store does to the two bits.
LEMMA CouplingStore ==
  ASSUME fault \in Faults, mem \in Memories, fault.kind = "coupling", NEW v \in {0, 1}, NEW a \in Addresses
  PROVE  LET m == Store(mem, fault, a, Filled(v)) IN
         /\ a # fault.from => m[fault.from] = mem[fault.from]
         /\ a # fault.from /\ a # fault.at => m[fault.at] = mem[fault.at]
         /\ a = fault.at => m[fault.at][fault.b] = v
         /\ a = fault.from =>
              /\ m[fault.from][fault.fb] = v
              /\ m[fault.at][fault.b] =
                   IF v = fault.fv /\ mem[fault.from][fault.fb] # fault.fv
                     THEN (IF fault.v = 2 THEN 1 - mem[fault.at][fault.b] ELSE fault.v) ELSE mem[fault.at][fault.b]
<1>1. /\ fault.at \in Addresses /\ fault.from \in Addresses /\ fault.from # fault.at
      /\ fault.b \in Bits /\ fault.fb \in Bits
  BY FaultKinds
<1>2. CellOf(fault, a) = a /\ \A w : Kept(mem, fault, a, w) = w
  BY DEF CellOf, Kept
<1>3. Filled(v) \in Words /\ \A x \in Bits : Filled(v)[x] = v
  BY DEF Filled, Words
<1> DEFINE w == Filled(v)
           stored == [mem EXCEPT ![a] = w]
           d == Disturbs(mem, fault, a, w)
<1>4. Store(mem, fault, a, w) =
        IF d THEN [stored EXCEPT ![fault.at][fault.b] = IF fault.v = 2 THEN 1 - @ ELSE fault.v] ELSE stored
  BY <1>2, Zenon DEF Store
<1>5. d <=> a = fault.from /\ v = fault.fv /\ mem[a][fault.fb] # fault.fv
  BY <1>1, <1>3 DEF Disturbs
<1>6. stored \in Memories /\ stored[a] = w /\ \A x \in Addresses : x # a => stored[x] = mem[x]
  BY <1>3 DEF Memories
<1> HIDE DEF w, stored, d
<1> DEFINE e == IF fault.v = 2 THEN 1 - stored[fault.at][fault.b] ELSE fault.v
           hit == [stored EXCEPT ![fault.at][fault.b] = e]
<1>7. hit[fault.at][fault.b] = e /\ \A x \in Addresses : x # fault.at => hit[x] = stored[x]
  <2> HIDE DEF e
  <2> QED BY <1>1, <1>6 DEF Memories, Words
<1>8. Store(mem, fault, a, w) = IF d THEN hit ELSE stored
  BY <1>4
<1> HIDE DEF e, hit
<1>9. CASE a = fault.from
  <2>1. stored[fault.at] = mem[fault.at] /\ stored[fault.from] = w
    BY <1>1, <1>6, <1>9
  <2> QED BY <1>1, <1>3, <1>5, <1>7, <1>8, <1>9, <2>1 DEF e, w
<1>10. CASE a # fault.from
  BY <1>1, <1>3, <1>5, <1>6, <1>8, <1>10 DEF w
<1> QED BY <1>9, <1>10 DEF w

-----------------------------------------------------------------------------

\* What a visit to `at' does, to `from', and to another word.
LEMMA CouplingVisit ==
  ASSUME fault \in Faults, fault.kind = "coupling", sweep \in 1 .. 8, p \in Int,
         NEW s, MarchTable(sweep, s), NEW q, q = IF s.down THEN p - 1 ELSE p + 1,
         NEW m, CouplingState(mem, sweep, s, p, ret),
         s.check # "none" => (p = fault.at => mem[fault.at][fault.b] = MarchBit(s.check)),
         s.check # "none" => (p = fault.from => mem[fault.from][fault.fb] = MarchBit(s.check)),
         s.write = "none" => m[fault.from] = mem[fault.from] /\ m[fault.at] = mem[fault.at],
         s.write # "none" =>
           LET v == MarchBit(s.write) IN
           /\ p # fault.from => m[fault.from] = mem[fault.from]
           /\ p # fault.from /\ p # fault.at => m[fault.at] = mem[fault.at]
           /\ p = fault.at => m[fault.at][fault.b] = v
           /\ p = fault.from =>
                /\ m[fault.from][fault.fb] = v
                /\ m[fault.at][fault.b] =
                     IF v = fault.fv /\ mem[fault.from][fault.fb] # fault.fv
                       THEN (IF fault.v = 2 THEN 1 - mem[fault.at][fault.b] ELSE fault.v) ELSE mem[fault.at][fault.b]
  PROVE  CouplingState(m, sweep, s, q, ret)
<1> DEFINE F == fault.from
           A == fault.at
           bf == mem[F][fault.fb]
           ba == mem[A][fault.b]
           bf1 == m[F][fault.fb]
           ba1 == m[A][fault.b]
           n == sweep
<1>1. F \in Int /\ A \in Int /\ F # A /\ fault.v \in 0 .. 2 /\ fault.fv \in {0, 1}
  <2>1. \A a \in Addresses : a \in Int
    BY WordAssumption
  <2> QED BY <2>1, FaultKinds
<1>2. /\ First \in {2, 3} /\ Before \in {0, 1} /\ Harm \in {2, 3, 5, 6} /\ Due \in 2 .. 7
      /\ Due = (IF Upper <=> Early THEN Harm ELSE Harm + 1)
      /\ Early => Harm = First /\ fault.v # Before /\ WrongBit = 1 - Before
      /\ ~Early => Harm = First + 3 /\ fault.v = Before /\ WrongBit = fault.v
  BY <1>1, CouplingPlan
<1>3. /\ s.down \in BOOLEAN /\ Left(s) # "none" /\ (s.check = "none" => n = 1)
      /\ n = Due \/ (n = 8 /\ Due = 7) => MarchBit(s.check) # WrongBit
      /\ n = Harm => s.write # "none" /\ MarchBit(s.write) = fault.fv /\ MarchBit(s.check) # fault.fv
                     /\ (s.down <=> ~Early)
      /\ n > Harm /\ (n <= Due \/ (Due = 7 /\ n = 8)) /\ s.write # "none" => MarchBit(s.write) # fault.fv
      /\ n < Harm /\ s.write # "none" /\ MarchBit(s.write) = fault.fv => n < First - 1 \/ (n = First /\ ~Early)
      /\ n = First => ~s.down /\ s.write # "none" /\ MarchBit(IF Upper THEN s.check ELSE s.write) = Before
  BY <1>1, CouplingTable
<1>4. /\ n <= Due \/ (Due = 7 /\ n = 8)
      /\ n >= Due => ~Visited(s, p, A)
      /\ ret # ERR_SUCCESS => n = 7 /\ Due = 7
      /\ NameAt(s, p, F) # "none" => bf = MarchBit(NameAt(s, p, F))
      /\ Harmed(n, s, p) => ba = WrongBit
      /\ ~Harmed(n, s, p) /\ Settled(n, s, p) => ba = MarchBit(NameAt(s, p, A))
  BY DEF CouplingState
<1>5. ASSUME n >= Due => ~Visited(s, q, A),
             NameAt(s, q, F) # "none" => bf1 = MarchBit(NameAt(s, q, F)),
             Harmed(n, s, q) => ba1 = WrongBit,
             ~Harmed(n, s, q) /\ Settled(n, s, q) => ba1 = MarchBit(NameAt(s, q, A))
      PROVE  CouplingState(m, sweep, s, q, ret)
  BY <1>4, <1>5 DEF CouplingState
<1>6. n \in 1 .. 8 /\ Left(s) = IF s.write = "none" THEN s.check ELSE s.write
  BY DEF Left
<1>7. /\ A # p => (Visited(s, q, A) <=> Visited(s, p, A))
      /\ F # p => (Visited(s, q, F) <=> Visited(s, p, F))
      /\ A = p => Visited(s, q, A) /\ ~Visited(s, p, A)
      /\ F = p => Visited(s, q, F) /\ ~Visited(s, p, F)
  BY <1>1, <1>3 DEF Visited
<1>8. /\ F = p => (Visited(s, p, A) <=> IF s.down THEN A > F ELSE A < F)
      /\ A = p => (Visited(s, p, F) <=> IF s.down THEN F > A ELSE F < A)
      /\ Upper <=> F < A
  BY DEF Visited, Upper
<1>9. /\ s.check # "none" /\ p = A => ba = MarchBit(s.check)
      /\ s.check # "none" /\ p = F => bf = MarchBit(s.check)
      /\ s.write = "none" => bf1 = bf /\ ba1 = ba
      /\ s.write # "none" =>
           /\ p # F => bf1 = bf
           /\ p # F /\ p # A => ba1 = ba
           /\ p = A => ba1 = MarchBit(s.write)
           /\ p = F => /\ bf1 = MarchBit(s.write)
                       /\ ba1 = IF MarchBit(s.write) = fault.fv /\ bf # fault.fv
                                  THEN (IF fault.v = 2 THEN 1 - ba ELSE fault.v) ELSE ba
  OBVIOUS
<1> DEFINE V == Visited(s, p, A)
           W == Visited(s, p, F)
           V1 == Visited(s, q, A)
           W1 == Visited(s, q, F)
<1> DEFINE H == n > Harm \/ (n = Harm /\ W)
           H1 == n > Harm \/ (n = Harm /\ W1)
           S == n >= First \/ (n = First - 1 /\ V)
           S1 == n >= First \/ (n = First - 1 /\ V1)
           nf == IF W THEN Left(s) ELSE s.check
           nf1 == IF W1 THEN Left(s) ELSE s.check
           na == IF V THEN Left(s) ELSE s.check
           na1 == IF V1 THEN Left(s) ELSE s.check
<1>10. /\ n >= Due => ~V
       /\ nf # "none" => bf = MarchBit(nf)
       /\ H => ba = WrongBit
       /\ ~H /\ S => ba = MarchBit(na)
  BY <1>4 DEF NameAt, Harmed, Settled
<1>14. ASSUME n >= Due => ~V1,
              nf1 # "none" => bf1 = MarchBit(nf1),
              H1 => ba1 = WrongBit,
              ~H1 /\ S1 => ba1 = MarchBit(na1)
       PROVE  CouplingState(m, sweep, s, q, ret)
  BY <1>5, <1>14 DEF NameAt, Harmed, Settled
<1> HIDE DEF F, A, bf, ba, bf1, ba1, n, V, W, V1, W1
<1>11. CASE p # F /\ p # A
  <2>1. (V1 <=> V) /\ (W1 <=> W) /\ bf1 = bf /\ ba1 = ba
    BY <1>7, <1>9, <1>11 DEF V, W, V1, W1
  <2> QED BY <1>10, <1>14, <2>1
<1>12. CASE p = A
  <2>1. p # F /\ (W1 <=> W) /\ V1 /\ ~V /\ bf1 = bf
    BY <1>1, <1>7, <1>9, <1>12 DEF V, W, V1, W1
  <2>2. W <=> IF s.down THEN F > A ELSE F < A
    BY <1>8, <1>12 DEF W
  <2>3. n < Due
    <3>1. SUFFICES ASSUME n = Due \/ (n = 8 /\ Due = 7) PROVE FALSE
      BY <1>2, <1>4, <1>6
    <3>2. H
      <4>1. n = Harm => W
        BY <1>1, <1>2, <1>3, <1>8, <2>2, <3>1
      <4>2. n > Harm \/ n = Harm
        BY <1>2, <1>6, <3>1
      <4> QED BY <1>10, <4>1, <4>2
    <3>3. ba = WrongBit /\ ba = MarchBit(s.check)
      <4>1. s.check # "none"
        BY <1>2, <1>3, <3>1
      <4> QED BY <1>9, <1>10, <1>12, <3>2, <4>1
    <3> QED BY <1>3, <3>1, <3>3
  <2>4. ~H1
    <3>1. n <= Harm
      BY <1>2, <1>6, <2>3
    <3>2. n = Harm => ~W
      BY <1>1, <1>2, <1>3, <1>8, <2>2, <2>3
    <3> QED BY <1>2, <1>6, <1>10, <2>1, <3>1, <3>2
  <2>5. S1 => ba1 = MarchBit(Left(s))
    <3>1. s.write # "none" => ba1 = MarchBit(Left(s))
      BY <1>6, <1>9, <1>12
    <3>2. s.write = "none" => ba1 = MarchBit(Left(s))
      BY <1>3, <1>6, <1>9, <1>12
    <3> QED BY <3>1, <3>2
  <2>6. ~(n >= Due)
    BY <1>2, <1>6, <2>3
  <2> QED BY <1>10, <1>14, <2>1, <2>4, <2>5, <2>6
<1>13. CASE p = F
  <2>1. p # A /\ (V1 <=> V) /\ W1 /\ ~W
    BY <1>1, <1>7, <1>13 DEF V, W, V1, W1
  <2>2. V <=> IF s.down THEN A > F ELSE A < F
    BY <1>8, <1>13 DEF V
  <2>3. bf1 = MarchBit(Left(s))
    <3>1. s.write # "none" => bf1 = MarchBit(Left(s))
      BY <1>6, <1>9, <1>13
    <3>2. s.write = "none" => bf1 = MarchBit(Left(s))
      BY <1>3, <1>6, <1>9, <1>13
    <3> QED BY <3>1, <3>2
  <2>4. CASE n > Harm
    <3>1. ba1 = ba
      BY <1>3, <1>4, <1>9, <1>13, <2>4
    <3>2. H /\ H1
      BY <1>10, <2>4
    <3> QED BY <1>10, <1>14, <2>1, <2>3, <3>1, <3>2
  <2>5. CASE n = Harm
    <3>1. ~H /\ S
      BY <1>2, <1>6, <1>10, <2>1, <2>5
    <3>2. ba = MarchBit(IF V THEN Left(s) ELSE s.check)
      BY <1>10, <3>1
    <3>3. s.check # "none" /\ s.write # "none" /\ MarchBit(s.write) = fault.fv /\ bf # fault.fv
      BY <1>2, <1>3, <1>9, <1>13, <2>5
    <3>4. ba1 = IF fault.v = 2 THEN 1 - ba ELSE fault.v
      BY <1>9, <1>13, <3>3
    <3>5. ba1 = WrongBit
      <4>1. CASE Early
        <5>1. n = First /\ ~s.down
          BY <1>2, <1>3, <2>5, <4>1
        <5>2. ba = Before
          BY <1>1, <1>3, <1>6, <1>8, <2>2, <3>2, <3>3, <5>1
        <5> QED BY <1>1, <1>2, <3>4, <4>1, <5>2
      <4>2. CASE ~Early
        BY <1>2, <3>4, <4>2
      <4> QED BY <4>1, <4>2
    <3>6. H1
      BY <1>10, <2>1, <2>5
    <3> QED BY <1>10, <1>14, <2>1, <2>3, <3>5, <3>6
  <2>6. CASE n < Harm
    <3>1. ~H /\ ~H1
      BY <1>2, <1>6, <1>10, <2>6
    <3>2. S1 <=> S
      BY <1>10, <2>1
    <3>3. S => ba1 = ba
      <4>1. SUFFICES ASSUME S, s.write # "none", MarchBit(s.write) = fault.fv
                     PROVE  ba1 = ba
        BY <1>9, <1>13
      <4>2. n = First /\ ~Early
        BY <1>2, <1>3, <1>6, <1>10, <2>6, <4>1
      <4>3. ba = Before
        <5>1. ba = MarchBit(IF V THEN Left(s) ELSE s.check)
          BY <1>10, <3>1, <4>1
        <5> QED BY <1>1, <1>3, <1>6, <1>8, <2>2, <4>1, <4>2, <5>1
      <4>4. ba1 = fault.v \/ ba1 = ba
        BY <1>2, <1>9, <1>13, <4>1, <4>2
      <4> QED BY <1>2, <4>2, <4>3, <4>4
    <3> QED BY <1>10, <1>14, <2>1, <2>3, <3>1, <3>2, <3>3
  <2> QED BY <1>2, <1>6, <2>4, <2>5, <2>6
<1> QED BY <1>11, <1>12, <1>13

-----------------------------------------------------------------------------

\* From one sweep to the next.
LEMMA CouplingGoesOn ==
  ASSUME fault.v \in 0 .. 2, fault.fv \in {0, 1}, sweep \in 1 .. 8,
         NEW s, MarchTable(sweep, s), NEW t, MarchTable(sweep + 1, t), NEW q,
         NEW failed \in BOOLEAN, failed => sweep = 7,
         CouplingState(mem, sweep, s, p, ret),
         failed \/ Visited(s, p, fault.at), failed \/ Visited(s, p, fault.from),
         ~Visited(t, q, fault.at), ~Visited(t, q, fault.from)
  PROVE  CouplingState(mem, sweep + 1, t, q, ERR_SUCCESS)
<1> DEFINE bf == mem[fault.from][fault.fb]
           ba == mem[fault.at][fault.b]
           n == sweep
           V == Visited(s, p, fault.at)
           W == Visited(s, p, fault.from)
           H == n > Harm \/ (n = Harm /\ W)
           S == n >= First \/ (n = First - 1 /\ V)
           nf == IF W THEN Left(s) ELSE s.check
           na == IF V THEN Left(s) ELSE s.check
<1>1. /\ First \in {2, 3} /\ Harm \in {2, 3, 5, 6} /\ Due \in 2 .. 7
      /\ Due = (IF Upper <=> Early THEN Harm ELSE Harm + 1)
      /\ Early => Harm = First
      /\ ~Early => Harm = First + 3
  BY CouplingPlan
<1>2. /\ n <= Due \/ (Due = 7 /\ n = 8)
      /\ n >= Due => ~V
      /\ nf # "none" => bf = MarchBit(nf)
      /\ H => ba = WrongBit
      /\ ~H /\ S => ba = MarchBit(na)
  BY DEF CouplingState, NameAt, Harmed, Settled
<1>3. /\ Left(s) # "none" /\ (s.check = "none" => n = 1)
      /\ n = 7 => Left(s) = s.check
  <2>1. Left(s) # "none" /\ (s.check = "none" => n = 1)
    BY CouplingTable
  <2>2. n = 7 => Left(s) = s.check
    BY DEF MarchTable, Left
  <2> QED BY <2>1, <2>2
<1>4. SUFFICES /\ n + 1 <= Due \/ (Due = 7 /\ n + 1 = 8)
               /\ t.check # "none" => bf = MarchBit(t.check)
               /\ n + 1 > Harm => ba = WrongBit
               /\ ~(n + 1 > Harm) /\ n + 1 >= First => ba = MarchBit(t.check)
  BY DEF CouplingState, NameAt, Harmed, Settled
<1>5. n \in 1 .. 8 /\ (failed => n = 7) /\ (failed \/ V) /\ (failed \/ W)
  OBVIOUS
<1>6. n \in 1 .. 7 => t.check = Left(s)
  BY CouplingNext
<1> HIDE DEF bf, ba, n, V, W
<1>7. n + 1 <= Due \/ (Due = 7 /\ n + 1 = 8)
  BY <1>1, <1>2, <1>5
<1>8. n \in 1 .. 7 /\ t.check = Left(s)
  BY <1>1, <1>5, <1>6, <1>7
<1>9. nf = Left(s) /\ na = Left(s)
  BY <1>3, <1>5
<1>10. bf = MarchBit(t.check)
  BY <1>2, <1>3, <1>8, <1>9
<1>11. n + 1 > Harm => H
  BY <1>1, <1>5
<1>12. ~(n + 1 > Harm) /\ n + 1 >= First => ~H /\ S
  BY <1>1, <1>5
<1> QED BY <1>2, <1>7, <1>8, <1>9, <1>10, <1>11, <1>12

\* A change of `from' does harm in one of two sweeps, and the one that is due finds it.
LEMMA CouplingStep ==
  ASSUME SliceRight, PatternState, fault \in Faults, mem \in Memories, FaultIn(fault, Slice), CouplingGood,
         fault.kind = "coupling", item = MEM_MARCH_C_TEST, PatternNext
  PROVE  CouplingGood'
<1> DEFINE s == CurrentSweep
           n == sweep
<1>1. /\ ~Returned /\ item' = item /\ fault' = fault /\ Slice' = Slice
      /\ n \in Nat \ {0} /\ p \in Int /\ MarchTable(n, s)
      /\ ret \in {ERR_SUCCESS, ERR_FAIL} /\ Unchecked(Current) = (n > 1 /\ (n - 2) % 6 = 5)
      /\ ~Returned' => MarchTable(sweep', CurrentSweep')
      /\ \/ MarchStill \/ MarchVisit(s) \/ MarchReports \/ MarchForgets \/ MarchGoesOn(s) \/ MarchSucceeds(s)
  BY MarchStep
<1>2. /\ fault.at \in Slice /\ fault.from \in Slice /\ Slice \subseteq Addresses
      /\ fault.v \in 0 .. 2 /\ fault.fv \in {0, 1} /\ fault.b \in Bits /\ fault.fb \in Bits
  <2>1. fault.v \in 0 .. 2 /\ fault.fv \in {0, 1} /\ fault.b \in Bits /\ fault.fb \in Bits
    BY FaultKinds
  <2>2. fault.at \in Slice /\ fault.from \in Slice /\ Slice \subseteq Addresses
    BY DEF FaultIn, SliceRight
  <2> QED BY <2>1, <2>2
<1>3. CouplingState(mem, n, s, p, ret)
  BY <1>1 DEF CouplingGood
<1>4. Due \in 2 .. 7
  BY <1>2, CouplingPlan
<1>5. /\ n <= Due \/ (Due = 7 /\ n = 8)
      /\ n >= Due => ~Visited(s, p, fault.at)
      /\ ret # ERR_SUCCESS => n = 7 /\ Due = 7
  BY <1>3 DEF CouplingState
<1>6. n \in 1 .. 8
  BY <1>1, <1>4, <1>5
<1>7. Failed(Current) => n = 7
  <2>1. Failed(Current) => n > 1 /\ (n - 2) % 6 = 5
    BY <1>1 DEF Failed
  <2> QED BY <1>6, <2>1
<1>8. ASSUME ~Returned', NEW t, CurrentSweep' = t, NEW m, mem' = m, NEW l, sweep' = l, NEW q, p' = q, NEW r, ret' = r,
             CouplingState(m, l, t, q, r)
      PROVE  CouplingGood'
  <2>1. CouplingState(mem, sweep, CurrentSweep, p, ret)'
    BY <1>1, <1>8 DEF CouplingState, Due, Harmed, Settled, NameAt, Harm, First, Before, Early, Upper, WrongBit
  <2> QED BY <1>8, <2>1 DEF CouplingGood
<1> HIDE DEF s, n
<1>9. CASE MarchStill
  <2>1. UNCHANGED <<mem, p, sweep, ret>> /\ CurrentSweep' = s /\ ~Returned'
    BY <1>9 DEF MarchStill, s
  <2> QED BY <1>3, <1>8, <2>1 DEF n
<1>10. CASE MarchVisit(s)
  <2>1. /\ p \in Slice /\ UNCHANGED <<sweep, ret>> /\ CurrentSweep' = s /\ ~Returned'
        /\ s.check # "none" => Load(mem, fault, p) = Filled(MarchBit(s.check))
        /\ mem' = IF s.write = "none" THEN mem ELSE Store(mem, fault, p, Filled(MarchBit(s.write)))
        /\ p' = IF s.down THEN p - 1 ELSE p + 1
    BY <1>10 DEF MarchVisit
  <2>2. s.check # "none" =>
          /\ p = fault.at => mem[fault.at][fault.b] = MarchBit(s.check)
          /\ p = fault.from => mem[fault.from][fault.fb] = MarchBit(s.check)
    <3>1. Load(mem, fault, p) = mem[p]
      BY DEF Load, CellOf
    <3>2. s.check # "none" => mem[p] = Filled(MarchBit(s.check))
      BY <2>1, <3>1
    <3> QED BY <1>2, <3>2 DEF Filled
  <2> DEFINE v == MarchBit(s.write)
             m == mem'
  <2>3. v \in {0, 1} /\ p \in Addresses
    BY <1>2, <2>1 DEF MarchBit
  <2> HIDE DEF v
  <2>4. s.write # "none" =>
           /\ p # fault.from => m[fault.from] = mem[fault.from]
           /\ p # fault.from /\ p # fault.at => m[fault.at] = mem[fault.at]
           /\ p = fault.at => m[fault.at][fault.b] = v
           /\ p = fault.from =>
                /\ m[fault.from][fault.fb] = v
                /\ m[fault.at][fault.b] =
                     IF v = fault.fv /\ mem[fault.from][fault.fb] # fault.fv
                       THEN (IF fault.v = 2 THEN 1 - mem[fault.at][fault.b] ELSE fault.v) ELSE mem[fault.at][fault.b]
    BY <2>1, <2>3, CouplingStore DEF v
  <2>5. s.write = "none" => m[fault.from] = mem[fault.from] /\ m[fault.at] = mem[fault.at]
    BY <2>1
  <2> DEFINE q == p'
  <2>6. q = IF s.down THEN p - 1 ELSE p + 1
    BY <2>1
  <2> HIDE DEF q, m
  <2>7. CouplingState(m, sweep, s, q, ret)
    <3>1. sweep \in 1 .. 8 /\ MarchTable(sweep, s) /\ CouplingState(mem, sweep, s, p, ret) /\ p \in Int
      BY <1>1, <1>3, <1>6 DEF n
    <3> QED BY <2>2, <2>4, <2>5, <2>6, <3>1, CouplingVisit DEF v
  <2> QED BY <1>8, <2>1, <2>7 DEF q, m
<1>11. CASE MarchReports
  BY <1>11 DEF MarchReports, CouplingGood
<1>12. CASE MarchForgets
  <2>1. /\ UNCHANGED <<mem, p, sweep>> /\ CurrentSweep' = s /\ ~Returned'
        /\ n > 1 /\ (n - 2) % 6 = 5
    BY <1>12 DEF MarchForgets, s, n
  <2>2. n = 7 /\ Due = 7
    <3>1. n = 7
      BY <1>6, <2>1
    <3> QED BY <1>4, <1>5, <3>1
  <2>3. CouplingState(mem, n, s, p, ret')
    BY <1>3, <2>2 DEF CouplingState
  <2> QED BY <1>8, <2>1, <2>3 DEF n
<1>13. CASE MarchGoesOn(s)
  <2>1. /\ sweep' = n + 1 /\ mem' = mem /\ ret' = ERR_SUCCESS /\ ~Returned'
        /\ ~Visited(CurrentSweep', p', fault.at) /\ ~Visited(CurrentSweep', p', fault.from)
        /\ Failed(Current) \/ Visited(s, p, fault.at)
        /\ Failed(Current) \/ Visited(s, p, fault.from)
    BY <1>2, <1>13 DEF MarchGoesOn, n
  <2> DEFINE t == CurrentSweep'
             q == p'
             failed == n = 7 /\ Failed(Current)
  <2>2. MarchTable(n + 1, t) /\ ~Visited(t, q, fault.at) /\ ~Visited(t, q, fault.from)
    BY <1>1, <2>1
  <2>3. failed \in BOOLEAN /\ (failed => n = 7) /\ (failed \/ Visited(s, p, fault.at)) /\ (failed \/ Visited(s, p, fault.from))
    BY <1>7, <2>1
  <2> HIDE DEF t, q, failed
  <2>4. CouplingState(mem, n + 1, t, q, ERR_SUCCESS)
    <3>1. /\ sweep \in 1 .. 8 /\ MarchTable(sweep, s) /\ CouplingState(mem, sweep, s, p, ret)
          /\ MarchTable(sweep + 1, t) /\ (failed => sweep = 7)
      BY <1>1, <1>3, <1>6, <2>2, <2>3 DEF n
    <3>2. CouplingState(mem, sweep + 1, t, q, ERR_SUCCESS)
      BY <1>2, <2>2, <2>3, <3>1, CouplingGoesOn
    <3> QED BY <3>2 DEF n
  <2> QED BY <1>8, <2>1, <2>4 DEF t, q
<1>14. CASE MarchSucceeds(s)
  <2>1. n >= 7 /\ Visited(s, p, fault.at)
    BY <1>2, <1>14 DEF MarchSucceeds, n
  <2> QED BY <1>4, <1>5, <1>6, <2>1
<1> QED BY <1>1, <1>9, <1>10, <1>11, <1>12, <1>13, <1>14

-----------------------------------------------------------------------------
(* A dead address line *)

\* Some word of the slice shares the cell of another; aliased words are those without
\* a cell of their own.
Aliased == {a \in Slice : CellOf(fault, a) # a}

LineGood ==
  fault.kind = "line" /\ Verifies /\ Aliased # {} =>
    /\ item \in {MEM_ADD_OWN_ADDRESS, MEM_MARCH_C_TEST} =>
         /\ Returned => ret # ERR_SUCCESS
         /\ ~Returned => sweep <= 2 /\ ret = ERR_SUCCESS
    /\ item = MEM_ADD_OWN_ADDRESS /\ ~Returned =>
         \A a \in Aliased :
           /\ sweep = 2 \/ a < p => mem[a - fault.line] = AddressWord(a)
           /\ sweep = 2 => p <= a - fault.line
    /\ item = MEM_MARCH_C_TEST /\ ~Returned /\ sweep = 2 =>
         \A a \in Aliased :
           /\ a - fault.line < p => mem[a - fault.line] = Filled(1)
           /\ p <= a

\* An aliased word and the one whose cell it has.
LEMMA AliasFacts ==
  ASSUME fault \in Faults, fault.kind = "line", FaultIn(fault, Slice), Slice \subseteq Addresses
  PROVE  /\ fault.line \in Nat \ {0} /\ Slice \subseteq Nat
         /\ \A a \in Aliased :
              /\ a \in Slice /\ a \in Nat /\ a - fault.line \in Slice /\ CellOf(fault, a) = a - fault.line
              /\ CellOf(fault, a - fault.line) = a - fault.line
              /\ AddressWord(a) # AddressWord(a - fault.line)
         /\ \A a \in Slice : CellOf(fault, a) = IF a \in Aliased THEN a - fault.line ELSE a
         /\ \A m, a : Load(m, fault, a) = m[CellOf(fault, a)]
         /\ \A m, a, w : Store(m, fault, a, w) = [m EXCEPT ![CellOf(fault, a)] = w]
<1>1. /\ fault.line \in Nat \ {0}
      /\ \A a \in Addresses : Line(a, fault.line) = 1 => AddressWord(a) # AddressWord(a - fault.line)
  BY FaultKinds
<1>2. Slice \subseteq Nat
  BY WordAssumption
<1>3. \A a : CellOf(fault, a) = IF Line(a, fault.line) = 1 THEN a - fault.line ELSE a
  BY DEF CellOf
<1>4. \A a \in Slice : CellOf(fault, a) \in Slice
  BY DEF FaultIn
<1>5. ASSUME NEW a \in Aliased
      PROVE  /\ a \in Slice /\ a \in Nat /\ a - fault.line \in Slice /\ CellOf(fault, a) = a - fault.line
             /\ CellOf(fault, a - fault.line) = a - fault.line
             /\ AddressWord(a) # AddressWord(a - fault.line)
  <2>1. a \in Slice /\ a \in Nat /\ CellOf(fault, a) # a
    BY <1>2 DEF Aliased
  <2>2. Line(a, fault.line) = 1 /\ CellOf(fault, a) = a - fault.line
    BY <1>3, <2>1
  <2>3. a - fault.line \in Slice
    BY <1>4, <2>1, <2>2
  <2>4. Line(a - fault.line, fault.line) # 1
    <3> DEFINE l == fault.line
               u == a \div l
    <3>1. l \in Nat \ {0} /\ a \in Int
      BY <1>1, <2>1
    <3> HIDE DEF l
    <3>2. u \in Int /\ a % l \in 0 .. (l - 1) /\ a = l * u + (a % l)
      BY <3>1, IntDivMod
    <3> DEFINE o == a % l
    <3>3. u \in Int /\ o \in 0 .. (l - 1) /\ a = l * u + o
      BY <3>2
    <3> HIDE DEF u, o
    <3>4. a - l = l * (u - 1) + o /\ u - 1 \in Int
      BY <3>1, <3>3
    <3>5. (a - l) \div l = u - 1
      BY <3>1, <3>3, <3>4, IntQuotient
    <3>6. u % 2 = 1
      BY <2>2 DEF Line, l, u
    <3>7. (u - 1) % 2 # 1
      BY <3>3, <3>6
    <3> QED BY <3>5, <3>7 DEF Line, l
  <2>5. AddressWord(a) # AddressWord(a - fault.line)
    BY <1>1, <2>1, <2>2
  <2> QED BY <1>3, <2>1, <2>2, <2>3, <2>4, <2>5
<1>6. \A a \in Slice : CellOf(fault, a) = IF a \in Aliased THEN a - fault.line ELSE a
  BY <1>5 DEF Aliased
<1>7. \A m, a : Load(m, fault, a) = m[CellOf(fault, a)]
  BY DEF Load
<1>8. \A m, a, w : Store(m, fault, a, w) = [m EXCEPT ![CellOf(fault, a)] = w]
  <2>1. \A m, c, w : Kept(m, fault, c, w) = w /\ ~Disturbs(m, fault, c, w)
    BY DEF Kept, Disturbs
  <2> QED BY <2>1, Zenon DEF Store
<1> QED BY <1>1, <1>2, <1>5, <1>6, <1>7, <1>8

\* March C finds the ones it has just written to the cell of the other word.
LEMMA MarchLineStep ==
  ASSUME SliceRight, PatternState, fault \in Faults, mem \in Memories, FaultIn(fault, Slice), LineGood,
         fault.kind = "line", Verifies, Aliased # {}, item = MEM_MARCH_C_TEST, PatternNext
  PROVE  LineGood'
<1> DEFINE s == CurrentSweep
           line == fault.line
<1>1. /\ ~Returned /\ item' = item /\ fault' = fault /\ Slice' = Slice
      /\ sweep \in Nat \ {0} /\ p \in Int /\ MarchTable(sweep, s)
      /\ ~Returned' => MarchTable(sweep', CurrentSweep')
      /\ \/ MarchStill \/ MarchVisit(s) \/ MarchReports \/ MarchForgets \/ MarchGoesOn(s) \/ MarchSucceeds(s)
  BY MarchStep
<1>2. item # MEM_ADD_OWN_ADDRESS /\ Aliased' = Aliased
  BY <1>1 DEF MEM_ADD_OWN_ADDRESS, MEM_MARCH_C_TEST, Aliased
<1>3. Slice \subseteq Addresses /\ DOMAIN mem = Addresses
  BY DEF SliceRight, Memories
<1>4. /\ line \in Nat \ {0} /\ Slice \subseteq Nat
      /\ \A a \in Aliased : a \in Slice /\ a \in Nat /\ a - line \in Slice
                            /\ CellOf(fault, a) = a - line /\ CellOf(fault, a - line) = a - line
      /\ \A m, a : Load(m, fault, a) = m[CellOf(fault, a)]
      /\ \A m, a, w : Store(m, fault, a, w) = [m EXCEPT ![CellOf(fault, a)] = w]
  BY <1>3, AliasFacts
<1>5. /\ sweep <= 2 /\ ret = ERR_SUCCESS
      /\ sweep = 2 => \A a \in Aliased : (a - line < p => mem[a - line] = Filled(1)) /\ p <= a
  BY <1>1 DEF LineGood
<1>6. sweep \in {1, 2} /\ ~Failed(Current)
  BY <1>1, <1>5 DEF Failed
<1>7. ASSUME ~Returned', sweep' <= 2, ret' = ERR_SUCCESS,
             ASSUME sweep' = 2, NEW a \in Aliased PROVE (a - line < p' => mem'[a - line] = Filled(1)) /\ p' <= a
      PROVE  LineGood'
  <2>1. sweep' = 2 => \A a \in Aliased : (a - line < p' => mem'[a - line] = Filled(1)) /\ p' <= a
    BY <1>7
  <2> QED BY <1>1, <1>2, <1>7, <2>1 DEF LineGood
<1>8. PICK x \in Aliased : TRUE
  OBVIOUS
<1> HIDE DEF s, line
<1>9. CASE MarchStill
  BY <1>5, <1>7, <1>9 DEF MarchStill
<1>10. CASE MarchVisit(s)
  <2>1. /\ p \in Slice /\ UNCHANGED <<sweep, ret>> /\ CurrentSweep' = s /\ ~Returned'
        /\ s.check # "none" => Load(mem, fault, p) = Filled(MarchBit(s.check))
        /\ mem' = IF s.write = "none" THEN mem ELSE Store(mem, fault, p, Filled(MarchBit(s.write)))
        /\ p' = IF s.down THEN p - 1 ELSE p + 1
    BY <1>10 DEF MarchVisit
  <2>2. ASSUME sweep = 2, NEW a \in Aliased
        PROVE  (a - line < p' => mem'[a - line] = Filled(1)) /\ p' <= a
    <3>1. p' = p + 1 /\ mem[CellOf(fault, p)] = Filled(0) /\ mem' = [mem EXCEPT ![CellOf(fault, p)] = Filled(1)]
      BY <1>1, <1>4, <2>1, <2>2 DEF MarchTable, MarchBit
    <3>2. Filled(0) # Filled(1)
      <4>1. 0 \in Bits
        BY WordAssumption DEF Bits
      <4>2. Filled(0)[0] = 0 /\ Filled(1)[0] = 1
        BY <4>1 DEF Filled
      <4> QED BY <4>2
    <3>3. a # p
      BY <1>4, <1>5, <2>2, <3>1, <3>2
    <3>4. p <= a /\ (a - line < p => mem[a - line] = Filled(1)) /\ a - line \in Addresses /\ a \in Nat
      BY <1>3, <1>4, <1>5, <2>2
    <3>5. p' <= a
      BY <1>1, <3>1, <3>3, <3>4
    <3>6. ASSUME a - line < p' PROVE mem'[a - line] = Filled(1)
      <4>1. CASE a - line = p
        BY <1>3, <1>4, <3>1, <3>4, <4>1
      <4>2. CASE a - line < p
        BY <1>3, <3>1, <3>4, <4>2
      <4> QED BY <1>1, <1>4, <3>1, <3>4, <3>6, <4>1, <4>2
    <3> QED BY <3>5, <3>6
  <2> QED BY <1>5, <1>7, <2>1, <2>2
<1>11. CASE MarchReports
  BY <1>1, <1>2, <1>11 DEF MarchReports, LineGood
<1>12. CASE MarchForgets
  BY <1>6, <1>12 DEF MarchForgets
<1>13. CASE MarchGoesOn(s)
  <2>1. /\ sweep' = sweep + 1 /\ mem' = mem /\ ret' = ERR_SUCCESS /\ ~Returned'
        /\ \A a \in Slice : ~Visited(CurrentSweep', p', a) /\ Visited(s, p, a)
    BY <1>6, <1>13 DEF MarchGoesOn
  <2>2. sweep = 1
    <3>1. SUFFICES ASSUME sweep = 2 PROVE FALSE
      BY <1>6
    <3>2. x < p /\ p <= x
      BY <1>1, <1>4, <1>5, <1>8, <2>1, <3>1 DEF MarchTable, Visited
    <3> QED BY <1>1, <1>4, <1>8, <3>2
  <2>3. ~CurrentSweep'.down
    BY <1>1, <2>1, <2>2 DEF MarchTable
  <2>4. \A a \in Slice : ~(a < p')
    BY <2>1, <2>3 DEF Visited
  <2>5. p' \in Int
    <3>1. PatternState' /\ item' \in PatternItems
      BY <1>1, PatternGoesOn DEF PatternItems
    <3>2. Place(Current, CurrentSweep)'
      BY <2>1, <3>1 DEF PatternState
    <3> QED BY <3>2 DEF Place
  <2>6. ASSUME sweep' = 2, NEW a \in Aliased PROVE (a - line < p' => mem'[a - line] = Filled(1)) /\ p' <= a
    BY <1>4, <2>4, <2>5
  <2>7. sweep' <= 2
    BY <2>1, <2>2
  <2> QED BY <1>7, <2>1, <2>6, <2>7
<1>14. CASE MarchSucceeds(s)
  BY <1>6, <1>14 DEF MarchSucceeds
<1> QED BY <1>1, <1>9, <1>10, <1>11, <1>12, <1>13, <1>14

-----------------------------------------------------------------------------

\* The own address test finds in the cell of two words the address of the second.
LEMMA OwnLineStep ==
  ASSUME SliceRight, PatternState, fault \in Faults, mem \in Memories, FaultIn(fault, Slice), LineGood,
         fault.kind = "line", Verifies, Aliased # {}, item = MEM_ADD_OWN_ADDRESS, PatternNext
  PROVE  LineGood'
<1> DEFINE line == fault.line
<1>1. PICK c, s : Sweeping(c, s) /\ PatternCase(c, s)
  BY RunningFacts
<1>2. item \in PatternItems /\ ~Returned /\ UNCHANGED arguments
  BY RunningFacts
<1>3. /\ c = Current /\ s = CurrentSweep /\ c = Call(call) /\ s = Sweep(c, sweep)
      /\ CallRight(c) /\ start_p \in Nat /\ sweep \in Nat \ {0} /\ sweep \in 1 .. Sweeps(c)
      /\ p \in Int /\ call \in 1 .. Calls /\ call \in Nat
  BY <1>1 DEF Sweeping
<1>4. c.fn = "addr_walk_own" /\ s.which = "all" /\ Calls = 1 /\ item # MEM_MARCH_C_TEST
  <2>1. c.fn = FunctionOf(item) /\ (c.fn # "modtst" => s.which = "all")
    BY <1>1 DEF Sweeping
  <2> USE DEF MEM_ADD_OWN_ADDRESS, MEM_MARCH_C_TEST, MEM_MOVE_INVER_ONES_ZERO, MEM_MOVE_INVER_8BIT,
              MEM_MOVE_INVER_RANDOM, MEM_MOVE_INVER_32BIT, MEM_RANDOM_NUM_SEQUENCE, MEM_MODULO
  <2>2. FunctionOf(item) = "addr_walk_own"
    BY DEF FunctionOf
  <2>3. Calls = 1
    BY DEF Calls
  <2> QED BY <2>1, <2>2, <2>3
<1>5. item' = item /\ start_p' = start_p /\ fault' = fault /\ Slice' = Slice /\ Aliased' = Aliased
  BY <1>2 DEF arguments, Slice, end, Aliased
<1>6. Sweeps(c) = 2 /\ Sweep(c, 1) = Up("none", "p1") /\ Sweep(c, 2) = Up("p1", "none")
  BY <1>3, <1>4, SweepTable
<1>7. sweep \in {1, 2} /\ ~s.down /\ (sweep = 1 => s.check = "none" /\ s.write = "p1")
      /\ (sweep = 2 => s.check = "p1" /\ s.write = "none")
  BY <1>3, <1>6, Shapes
<1>8. UNCHANGED <<call, sweep>> => Current' = c /\ CurrentSweep' = s
  BY <1>2, <1>3, SameSweep
<1>9. Checks(c) /\ StopsAtOnce(c) /\ ~Unchecked(c) /\ ~Failed(c)
  BY <1>4 DEF Checks, StopsAtOnce, Unchecked, Failed, Verifies
<1>10. Value(c, "p1", start_p, p) = AddressWord(p)
  BY <1>4 DEF Value, FirstValue
<1>11. Slice \subseteq Addresses /\ DOMAIN mem = Addresses
  BY DEF SliceRight, Memories
<1>12. /\ line \in Nat \ {0} /\ Slice \subseteq Nat
       /\ \A a \in Aliased : a \in Slice /\ a \in Nat /\ a - line \in Slice
                             /\ CellOf(fault, a) = a - line /\ CellOf(fault, a - line) = a - line
                             /\ AddressWord(a) # AddressWord(a - line)
       /\ \A a \in Slice : CellOf(fault, a) = IF a \in Aliased THEN a - line ELSE a
       /\ \A m, a : Load(m, fault, a) = m[CellOf(fault, a)]
       /\ \A m, a, w : Store(m, fault, a, w) = [m EXCEPT ![CellOf(fault, a)] = w]
  BY <1>11, AliasFacts
<1>13. /\ ret = ERR_SUCCESS
       /\ \A a \in Aliased :
            /\ sweep = 2 \/ a < p => mem[a - line] = AddressWord(a)
            /\ sweep = 2 => p <= a - line
  BY <1>2 DEF LineGood
<1> DEFINE Shares == \A a \in Aliased :
                       /\ sweep' = 2 \/ a < p' => mem'[a - line] = AddressWord(a)
                       /\ sweep' = 2 => p' <= a - line
<1>14. ASSUME ~Returned', sweep' <= 2, ret' = ERR_SUCCESS, Shares
       PROVE  LineGood'
  BY <1>4, <1>5, <1>14 DEF LineGood
<1>15. Returned' /\ ret' # ERR_SUCCESS => LineGood'
  BY <1>4, <1>5 DEF LineGood
<1>16. PICK x \in Aliased : TRUE
  OBVIOUS
<1> HIDE DEF line
\* The second sweep does not come to its end.
<1>17. ~(sweep = 2 /\ SweepOver(c, s))
  <2>1. SUFFICES ASSUME sweep = 2, SweepOver(c, s) PROVE FALSE
    OBVIOUS
  <2>2. x - line < p /\ p <= x - line
    BY <1>4, <1>7, <1>9, <1>12, <1>13, <1>16, <2>1 DEF SweepOver, Visited
  <2> QED BY <1>3, <1>12, <1>16, <2>2
<1>18. CASE Quiet(c, s)
  <2>1. UNCHANGED <<mem, sweep, p, ret>> /\ ~Returned'
    BY <1>18 DEF Quiet, Returned
  <2>2. Shares
    BY <1>13, <2>1
  <2> QED BY <1>7, <1>13, <1>14, <2>1, <2>2
<1>19. CASE Visits(c, s)
  <2>1. /\ p \in Slice /\ UNCHANGED sweep /\ ~Returned' /\ ~Bad(c, s) /\ ret' = ret /\ p' = p + 1
        /\ mem' = IF s.write = "none" THEN mem ELSE Store(mem, fault, p, Value(c, s.write, start_p, p))
    BY <1>4, <1>7, <1>9, <1>19 DEF Visits, Skipped, Returned
  <2>2. CASE sweep = 1
    <3>1. mem' = [mem EXCEPT ![CellOf(fault, p)] = AddressWord(p)]
      BY <1>7, <1>10, <1>12, <2>1, <2>2
    <3>2. ASSUME NEW a \in Aliased, a < p' PROVE mem'[a - line] = AddressWord(a)
      <4>1. a \in Nat /\ a - line \in Addresses /\ CellOf(fault, a) = a - line
        BY <1>11, <1>12
      <4>2. CASE a = p
        BY <1>11, <3>1, <4>1, <4>2
      <4>3. CASE a < p
        <5>1. CellOf(fault, p) # a - line
          BY <1>3, <1>12, <2>1, <4>1, <4>3
        <5> QED BY <1>11, <1>13, <3>1, <4>1, <4>3, <5>1
      <4> QED BY <1>3, <2>1, <3>2, <4>1, <4>2, <4>3
    <3>3. Shares
      BY <2>1, <2>2, <3>2
    <3> QED BY <1>13, <1>14, <2>1, <2>2, <3>3
  <2>3. CASE sweep = 2
    <3>1. mem' = mem /\ mem[CellOf(fault, p)] = AddressWord(p)
      BY <1>7, <1>9, <1>10, <1>12, <2>1, <2>3 DEF Bad
    <3>2. ASSUME NEW a \in Aliased PROVE p' <= a - line
      <4>1. a - line \in Nat /\ p <= a - line /\ mem[a - line] = AddressWord(a)
            /\ CellOf(fault, a - line) = a - line /\ AddressWord(a) # AddressWord(a - line)
        BY <1>12, <1>13, <2>3
      <4>2. p # a - line
        BY <3>1, <4>1
      <4> QED BY <1>3, <2>1, <4>1, <4>2
    <3>3. Shares
      BY <1>13, <2>1, <2>3, <3>1, <3>2
    <3> QED BY <1>13, <1>14, <2>1, <2>3, <3>3
  <2> QED BY <1>7, <2>2, <2>3
<1>20. CASE Detects(c, s)
  <2>1. Returned' /\ ret' # ERR_SUCCESS
    BY <1>20 DEF Detects, Return, Returned, ERR_FAIL, ERR_SUCCESS
  <2> QED BY <1>15, <2>1
<1>21. CASE Forgets(c, s)
  BY <1>9, <1>21 DEF Forgets
<1>22. CASE NextSweep(c, s)
  <2>1. sweep' = sweep + 1 /\ ~Returned' /\ mem' = mem /\ CurrentSweep' = Sweep(c, sweep + 1)
        /\ \A a \in Slice : ~Visited(CurrentSweep', p', a) /\ Visited(s, p, a)
    BY <1>2, <1>3, <1>4, <1>9, <1>22, SweepFollows
  <2>2. sweep = 1 /\ ret' = ret
    BY <1>4, <1>6, <1>7, <1>22 DEF NextSweep
  <2>3. ~CurrentSweep'.down
    BY <1>6, <2>1, <2>2, Shapes
  <2>4. p' \in Int
    <3>1. PatternState' /\ item' \in PatternItems
      BY <1>2, <1>5, PatternGoesOn
    <3>2. Place(Current, CurrentSweep)'
      BY <2>1, <3>1 DEF PatternState
    <3> QED BY <3>2 DEF Place
  <2>5. ASSUME NEW a \in Aliased PROVE mem'[a - line] = AddressWord(a) /\ p' <= a - line
    <3>1. a \in Slice /\ a - line \in Slice /\ a - line \in Nat
      BY <1>12
    <3>2. ~(a - line < p') /\ a < p
      BY <1>7, <2>1, <2>3, <3>1 DEF Visited
    <3> QED BY <1>13, <2>1, <2>4, <3>1, <3>2
  <2>6. Shares
    BY <2>5
  <2> QED BY <1>13, <1>14, <2>1, <2>2, <2>6
<1>23. CASE NextCall(c, s)
  BY <1>3, <1>4, <1>23 DEF NextCall
<1>24. CASE Ends(c, s)
  BY <1>6, <1>13, <1>17, <1>24 DEF Ends
<1> QED BY <1>1, <1>18, <1>19, <1>20, <1>21, <1>22, <1>23, <1>24 DEF PatternCase

-----------------------------------------------------------------------------

\* The walking ones get to the dead line in their first walk, or have failed.
WalkLineGood ==
  item = MEM_ADD_WALK_ONES /\ fault.kind = "line" /\ Verifies
    /\ start_p + fault.line < end /\ Line(start_p, fault.line) = 0 =>
    \/ ret # ERR_SUCCESS
    \/ pc = "bank" /\ sweep = 0
    \/ /\ pc = "walk" /\ sweep = 1 /\ k = 1 /\ p = start_p
       /\ mask \in Nat \ {0} /\ mask <= fault.line /\ fault.line % mask = 0

\* A divisor of the line that is not the line itself can be doubled.
LEMMA DoubledDivisor ==
  ASSUME NEW l \in Nat \ {0}, \A q \in 2 .. l : l % q = 0 => q % 2 = 0,
         NEW m \in Nat \ {0}, m < l, l % m = 0
  PROVE  2 * m <= l /\ l % (2 * m) = 0
<1> DEFINE q == l \div m
<1>1. q \in Int /\ l = m * q + (l % m)
  BY IntDivMod
<1> HIDE DEF q
<1>2. l = m * q
  BY <1>1
<1>3. q >= 2
  <2>1. ASSUME q <= 0 PROVE FALSE
    <3>1. m * q <= 0
      BY <1>1, <2>1
    <3> QED BY <1>2, <3>1
  <2>2. q # 1
    BY <1>2
  <2> QED BY <1>1, <2>1, <2>2
<1>4. q <= l
  <2>1. (m - 1) * q >= 0 /\ m * q = (m - 1) * q + q
    BY <1>1, <1>3
  <2> QED BY <1>1, <1>2, <2>1
<1>5. l % q = 0
  <2>1. q \in Nat \ {0} /\ m \in Int /\ 0 \in 0 .. (q - 1)
    BY <1>1, <1>3
  <2>2. (q * m + 0) % q = 0
    BY <2>1, IntQuotient
  <2>3. q * m + 0 = l
    BY <1>1, <1>2
  <2> QED BY <2>2, <2>3
<1>6. q % 2 = 0
  BY <1>1, <1>3, <1>4, <1>5
<1> DEFINE h == q \div 2
<1>7. h \in Nat \ {0} /\ q = 2 * h
  BY <1>1, <1>3, <1>6
<1> HIDE DEF h
<1> DEFINE d == 2 * m
<1>8. d \in Nat \ {0} /\ l = d * h
  BY <1>2, <1>7
<1> HIDE DEF d
<1>9. d <= l
  <2>1. d * (h - 1) \in Int /\ d * (h - 1) >= 0
    BY <1>7, <1>8
  <2>2. d * h = d * (h - 1) + d
    BY <1>7, <1>8
  <2> QED BY <1>8, <2>1, <2>2
<1>10. l % d = 0
  <2>1. 0 \in 0 .. (d - 1) /\ h \in Int
    BY <1>7, <1>8
  <2>2. (d * h + 0) % d = 0
    BY <1>8, <2>1, IntQuotient
  <2>3. d * h + 0 = l
    BY <1>8
  <2> QED BY <2>2, <2>3
<1> QED BY <1>9, <1>10 DEF d

\* The word a line away differs in that line.
LEMMA LineSet ==
  ASSUME NEW a \in Nat, NEW l \in Nat \ {0}, Line(a, l) = 0
  PROVE  Line(a + l, l) = 1
<1> DEFINE u == a \div l
           o == a % l
<1>1. u \in Int /\ o \in 0 .. (l - 1) /\ a = l * u + o
  BY IntDivMod
<1>2. u % 2 = 0
  BY DEF Line
<1> HIDE DEF u, o
<1>3. a + l = l * (u + 1) + o /\ u + 1 \in Int /\ a + l \in Int
  BY <1>1
<1>4. (a + l) \div l = u + 1
  <2> DEFINE w == u + 1
  <2>1. w \in Int /\ a + l = l * w + o
    BY <1>3
  <2> HIDE DEF w
  <2>2. (l * w + o) \div l = w
    BY <1>1, <2>1, IntQuotient
  <2> QED BY <2>1, <2>2 DEF w
<1>5. (u + 1) % 2 = 1
  BY <1>1, <1>2
<1> QED BY <1>4, <1>5 DEF Line

\* The store over the dead line hits the word that is watched.
LEMMA WalkLineStep ==
  ASSUME SliceRight, MemTypes, WalkPosition, WalkLineGood, fault \in Faults,
         SkipLine \/ WalkLine \/ EndWalk \/ EndBanks
  PROVE  WalkLineGood'
<1> DEFINE line == fault.line
<1>1. item = MEM_ADD_WALK_ONES /\ UNCHANGED arguments
  BY DEF SkipLine, WalkLine, EndWalk, EndBanks, Continue
<1>2. /\ item' = item /\ start_p' = start_p /\ fault' = fault /\ end' = end /\ Verifies' = Verifies
  BY <1>1 DEF arguments, end, Verifies, Compares
<1> SUFFICES ASSUME fault.kind = "line", Verifies, start_p + line < end, Line(start_p, line) = 0
             PROVE  WalkLineGood'
  BY <1>2 DEF WalkLineGood
<1>3. /\ line \in Nat \ {0} /\ \A q \in 2 .. line : line % q = 0 => q % 2 = 0
  BY FaultKinds
<1>4. Compares
  BY <1>1 DEF Verifies, MEM_ADD_WALK_ONES, MEM_MARCH_C_TEST
<1>5. /\ mem \in Memories /\ pat \in Words
      /\ start_p \in Nat /\ cnt \in Nat \ {0} /\ end = start_p + cnt /\ Slice \subseteq Addresses
  BY LocalsAre DEF SliceRight, end
<1> HIDE DEF line
<1> DEFINE W == /\ pc = "walk" /\ sweep = 1 /\ k = 1 /\ p = start_p
                /\ mask \in Nat \ {0} /\ mask <= line /\ line % mask = 0
<1>6. ret # ERR_SUCCESS \/ (pc = "bank" /\ sweep = 0) \/ W
  BY <1>1 DEF WalkLineGood, line
<1>7. ret' # ERR_SUCCESS => WalkLineGood'
  BY DEF WalkLineGood
<1>8. /\ pc' = "walk" /\ sweep' = 1 /\ k' = 1 /\ p' = start_p
      /\ mask' \in Nat \ {0} /\ mask' <= line /\ line % mask' = 0
      => WalkLineGood'
  BY <1>2 DEF WalkLineGood, line
<1>9. CASE ret # ERR_SUCCESS
  <2>1. ret' = ret \/ ret' = ERR_FAIL
    BY Zenon DEF SkipLine, WalkLine, EndWalk, EndBanks, Return
  <2> QED BY <1>7, <1>9, <2>1 DEF ERR_FAIL, ERR_SUCCESS
<1>10. CASE ret = ERR_SUCCESS /\ pc = "bank" /\ sweep = 0
  <2>1. WalkPass(1, Not(pat))
    BY <1>10 DEF SkipLine, WalkLine, EndWalk, EndBanks, Passes
  <2>2. RoundUp(start_p, PageWords) = start_p
    BY <1>5, RoundUpFacts, AddressAssumption DEF SliceRight
  <2>3. sweep' = 1 /\ WatchWord(start_p, Not(pat))
    BY <2>1, <2>2 DEF WalkPass
  <2>4. pc' = "walk" /\ k' = 1 /\ p' = start_p /\ mask' = 1
    BY <2>3 DEF WatchWord
  <2>5. line % 1 = 0 /\ 1 <= line
    BY <1>3
  <2> QED BY <1>8, <2>3, <2>4, <2>5
<1>11. CASE ret = ERR_SUCCESS /\ W
  <2>1. ~EndWalk /\ ~EndBanks
    BY <1>3, <1>5, <1>11 DEF EndWalk, EndBanks
  <2>2. mask < line \/ mask = line
    BY <1>3, <1>11
  <2>3. ASSUME mask < line, UNCHANGED <<pc, sweep, p, k>>, mask' = 2 * mask PROVE WalkLineGood'
    <3>1. 2 * mask <= line /\ line % (2 * mask) = 0
      BY <1>3, <1>11, <2>3, DoubledDivisor
    <3>2. mask' \in Nat \ {0}
      BY <1>11, <2>3
    <3> QED BY <1>8, <1>11, <2>3, <3>1, <3>2
  <2>4. CASE SkipLine
    <3>1. mask # line
      BY <1>11, <2>4 DEF SkipLine, LineIsSet, line
    <3> QED BY <2>2, <2>3, <2>4, <3>1 DEF SkipLine
  <2>5. CASE WalkLine
    <3> DEFINE bad == Load(mem', fault, p) # Not(pat)
    <3>1. /\ ret' = (IF Compares /\ bad THEN ERR_FAIL ELSE ret)
          /\ k' = (IF Compares /\ bad THEN Rounds ELSE k)
          /\ mask' = 2 * mask /\ UNCHANGED <<pc, sweep, p>>
          /\ mem' = Store(mem, fault, p + mask, pat)
      BY <2>5, Zenon DEF WalkLine
    <3>2. CASE bad
      BY <1>4, <1>7, <3>1, <3>2 DEF ERR_FAIL, ERR_SUCCESS
    <3>3. CASE ~bad
      <4>1. CASE mask < line
        BY <2>3, <3>1, <3>3, <4>1
      <4>2. CASE mask = line
        <5>1. Line(p + line, line) = 1 /\ Line(p, line) = 0
          BY <1>3, <1>5, <1>11, LineSet DEF line
        <5>2. p \in Nat /\ (p + line) - line = p
          BY <1>3, <1>5, <1>11
        <5>3. CellOf(fault, p + line) = p /\ CellOf(fault, p) = p
          <6>1. fault.line = line
            BY DEF line
          <6>2. \A a : CellOf(fault, a) = IF Line(a, line) = 1 THEN a - line ELSE a
            BY <6>1 DEF CellOf
          <6>3. CellOf(fault, p + line) = (p + line) - line
            BY <5>1, <6>2
          <6>4. CellOf(fault, p) = p
            BY <5>1, <6>2
          <6> QED BY <5>2, <6>3, <6>4
        <5>4. \A m, a, w : Store(m, fault, a, w) = [m EXCEPT ![CellOf(fault, a)] = w]
          <6>1. \A m, c, w : Kept(m, fault, c, w) = w /\ ~Disturbs(m, fault, c, w)
            BY DEF Kept, Disturbs
          <6> QED BY <6>1, Zenon DEF Store
        <5>5. mem' = [mem EXCEPT ![p] = pat]
          BY <3>1, <4>2, <5>3, <5>4
        <5>6. p \in Addresses
          BY <1>5, <1>11 DEF Slice
        <5>7. Load(mem', fault, p) = mem'[p]
          BY <5>3 DEF Load
        <5>8. Load(mem', fault, p) = pat
          BY <1>5, <5>5, <5>6, <5>7 DEF Memories
        <5>9. pat # Not(pat)
          BY <1>5, NotFacts
        <5> QED BY <3>3, <5>8, <5>9
      <4> QED BY <2>2, <4>1, <4>2
    <3> QED BY <3>2, <3>3
  <2> QED BY <2>1, <2>4, <2>5
<1> QED BY <1>6, <1>9, <1>10, <1>11

-----------------------------------------------------------------------------
(* A stuck bit of a word the cache tests look at *)

BankStart(bank) == start_p + (bank - 1) * CNT_PER_BANK
BankHalf(bank) == IF Walking /\ bank < CacheBanks THEN CNT_PER_BANK ELSE CNT_PER_BANK \div 2

\* Word n behind the start of a bank is one they look at.
LookedAt(bank, n) == n < Watched \/ (n >= BankHalf(bank) /\ n < BankHalf(bank) + Watched)

\* The pattern has been in the stuck bit of word n of a bank.
PatternPast(bank, n) ==
  \/ sweep > bank
  \/ sweep = bank /\ k > n
  \/ sweep = bank /\ k = n /\ mask > fault.b

\* Over zeros only a bit that is stuck at 1 lets the pattern pass, over ones none does.
WatchedGood ==
  fault.kind = "stuck" /\ item \in {CPU_CACHE_WALKING, CPU_CACHE_STUCK} =>
    /\ Returned => ret # ERR_SUCCESS \/ fault.at \notin WatchedWords
    /\ ~Returned => ret = ERR_SUCCESS
    /\ pc = "carry" => mask \in 0 .. (UL_SIZE - 1)
    /\ \A bank \in 1 .. CacheBanks, n \in Nat :
         fault.at = BankStart(bank) + n /\ LookedAt(bank, n) =>
           /\ call = 2 => fault.v = 1
           /\ pc = "carry" /\ PatternPast(bank, n) => call = 1 /\ fault.v = 1

\* A watched word is one of a bank.
LEMMA WatchedInBank ==
  ASSUME SliceRight, item \in {CPU_CACHE_WALKING, CPU_CACHE_STUCK}, fault.at \in WatchedWords
  PROVE  \E bank \in 1 .. CacheBanks, n \in Nat : fault.at = BankStart(bank) + n /\ LookedAt(bank, n)
<1> DEFINE half(b) == IF Walking /\ b < CacheBanks THEN CNT_PER_BANK ELSE CNT_PER_BANK \div 2
           near(b) == BankStart(b) .. (BankStart(b) + Watched - 1)
<1>1. PICK b \in 1 .. CacheBanks : fault.at \in near(b) \cup {w + half(b) : w \in near(b)}
  BY DEF WatchedWords, BankStart
<1>2. /\ start_p \in Nat /\ CNT_PER_BANK \in Nat \ {0} /\ CNT_PER_BANK % 2 = 0 /\ CacheBanks \in Int /\ Watched \in Nat
  BY CacheAssumption, BankFacts DEF SliceRight, CacheBanks
<1>3. BankStart(b) \in Nat
  <2>1. b - 1 \in Nat
    BY <1>1, <1>2
  <2> QED BY <1>2, <2>1 DEF BankStart
<1>4. BankHalf(b) \in Nat /\ half(b) = BankHalf(b)
  BY <1>2 DEF BankHalf
<1> HIDE DEF half
<1>5. CASE fault.at \in near(b)
  <2> DEFINE n == fault.at - BankStart(b)
  <2>1. n \in Nat /\ fault.at = BankStart(b) + n /\ n < Watched
    BY <1>2, <1>3, <1>5
  <2> QED BY <1>1, <2>1 DEF LookedAt
<1>6. CASE fault.at \in {w + half(b) : w \in near(b)}
  <2>1. PICK w \in near(b) : fault.at = w + half(b)
    BY <1>6
  <2> DEFINE i == w - BankStart(b)
             n == i + BankHalf(b)
  <2>2. i \in Nat /\ w = BankStart(b) + i /\ i < Watched
    BY <1>2, <1>3
  <2>3. n \in Nat /\ fault.at = BankStart(b) + n /\ n >= BankHalf(b) /\ n < BankHalf(b) + Watched
    BY <1>2, <1>3, <1>4, <2>1, <2>2
  <2> QED BY <1>1, <2>3 DEF LookedAt
<1> QED BY <1>1, <1>5, <1>6

\* The bank the pattern is in.
LEMMA LookedAtHere ==
  ASSUME item \in {CPU_CACHE_WALKING, CPU_CACHE_STUCK}, cnt \in Nat, sweep \in Nat \ {0}, sweep <= CacheBanks,
         NEW n \in Nat, LookedAt(sweep, n)
  PROVE  /\ BankStart(sweep) = pbank /\ BankHalf(sweep) = cnt_cur \div 2
         /\ n < cnt_cur /\ (n < Watched \/ (n >= cnt_cur \div 2 /\ n < cnt_cur \div 2 + Watched))
<1>1. /\ cnt_cur \in Nat \ {0} /\ cnt_cur \div 2 \in Nat \ {0} /\ 2 * (cnt_cur \div 2) = cnt_cur
      /\ Watched \in Nat /\ Watched <= cnt_cur \div 2
  BY BankFacts
<1>2. CNT_PER_BANK \in Nat \ {0} /\ CacheBanks \in Int
  BY CacheAssumption DEF CacheBanks
<1>3. BankHalf(sweep) = cnt_cur \div 2
  <2>1. (2 * CNT_PER_BANK) \div 2 = CNT_PER_BANK
    BY <1>2
  <2> QED BY <1>2, <2>1 DEF BankHalf, cnt_cur, LastBank
<1> DEFINE half == cnt_cur \div 2
<1>4. n < Watched \/ (n >= half /\ n < half + Watched)
  BY <1>3 DEF LookedAt
<1>5. n < cnt_cur
  <2> DEFINE d == cnt_cur
  <2>1. half \in Nat /\ 2 * half = d /\ Watched \in Nat /\ Watched <= half
    BY <1>1
  <2> HIDE DEF half, d
  <2>2. n < d
    BY <1>4, <2>1
  <2> QED BY <2>2 DEF d
<1> QED BY <1>3, <1>4, <1>5 DEF BankStart, pbank

\* A look at the stuck bit when the pattern is in it.
LEMMA StuckSeen ==
  ASSUME SliceRight, MemTypes, fault \in Faults, fault.kind = "stuck", fault.at \in Slice,
         item \in {CPU_CACHE_WALKING, CPU_CACHE_STUCK}, sweep \in Nat \ {0}, sweep <= CacheBanks,
         k \in Nat, LookedAt(sweep, k), fault.at = pbank + k, mask = fault.b, call \in {1, 2},
         verify(Filled1, k, WalkPattern, Pad)
  PROVE  fault.v = IF call = 1 THEN 1 ELSE 0
<1> DEFINE half == cnt_cur \div 2
           F == Filled1
           x == fault.at
<1>1. k < Watched \/ (k >= half /\ k < half + Watched)
  BY LookedAtHere DEF SliceRight
<1>2. half \in Nat \ {0} /\ Watched \in Nat /\ mem \in Memories /\ x \in Addresses
  BY BankFacts, LocalsAre DEF SliceRight
<1>3. \A m, a, w : Store(m, fault, a, w) = [m EXCEPT ![a] = w]
  <2>1. \A m, c, w : Kept(m, fault, c, w) = w /\ ~Disturbs(m, fault, c, w)
    BY DEF Kept, Disturbs
  <2>2. \A a : CellOf(fault, a) = a
    BY DEF CellOf
  <2> QED BY <2>1, <2>2, Zenon DEF Store
<1>4. F[x] = WalkPattern
  <2> DEFINE y == pbank + k - 1
             cleared == IF ~Walking /\ k > 0 THEN Store(mem, fault, y, Pad) ELSE mem
  <2>1. F = Store(cleared, fault, pbank + k, WalkPattern)
    BY Zenon DEF Filled1
  <2>2. DOMAIN cleared = Addresses
    <3>1. DOMAIN mem = Addresses
      BY <1>2 DEF Memories
    <3> QED BY <1>3, <3>1
  <2> HIDE DEF cleared
  <2>3. F = [cleared EXCEPT ![x] = WalkPattern]
    BY <1>3, <2>1
  <2> QED BY <1>2, <2>2, <2>3
<1>5. Load(F, fault, x) = [WalkPattern EXCEPT ![fault.b] = fault.v]
  BY <1>4 DEF Load, CellOf
<1>6. Load(F, fault, x) = WalkPattern
  <2>1. \A i \in 0 .. (Watched - 1) :
          LET vpat == Load(F, fault, pbank + i)
              vpad == Load(F, fault, pbank + i + half) IN
          CASE i = k -> vpat = WalkPattern /\ vpad = Pad
            [] i + half = k -> vpad = WalkPattern /\ vpat = Pad
            [] OTHER -> Or(vpad, vpat) = Pad
    BY Zenon DEF verify
  <2> HIDE DEF half, F
  <2>2. CASE k < Watched
    <3> DEFINE vpat == Load(F, fault, pbank + k)
               vpad == Load(F, fault, pbank + k + half)
    <3>1. k \in 0 .. (Watched - 1) /\ k + half # k
      BY <1>2, <2>2
    <3>2. (CASE k = k -> vpat = WalkPattern /\ vpad = Pad
             [] k + half = k -> vpad = WalkPattern /\ vpat = Pad
             [] OTHER -> Or(vpad, vpat) = Pad)
      BY <2>1, <3>1
    <3> HIDE DEF vpat, vpad
    <3>3. vpat = WalkPattern
      BY <3>1, <3>2, Zenon
    <3> QED BY <3>3 DEF vpat
  <2>3. CASE k >= half /\ k < half + Watched
    <3> DEFINE i == k - half
    <3>1. i \in 0 .. (Watched - 1) /\ i # k /\ i + half = k
      BY <1>2, <2>3
    <3>2. pbank + i + half = pbank + k
      <4>1. pbank \in Int
        BY CacheAssumption DEF pbank, SliceRight
      <4> QED BY <1>2, <2>3, <4>1
    <3> HIDE DEF i
    <3> DEFINE vpat == Load(F, fault, pbank + i)
               vpad == Load(F, fault, pbank + i + half)
    <3>3. (CASE i = k -> vpat = WalkPattern /\ vpad = Pad
             [] i + half = k -> vpad = WalkPattern /\ vpat = Pad
             [] OTHER -> Or(vpad, vpat) = Pad)
      BY <2>1, <3>1
    <3> HIDE DEF vpat, vpad
    <3>4. vpad = WalkPattern
      <4>1. i # k /\ i + half = k
        BY <3>1
      <4> QED BY <3>3, <4>1, Zenon
    <3> QED BY <3>2, <3>4 DEF vpad
  <2> QED BY <1>1, <2>2, <2>3
<1>7. fault.b \in Bits /\ fault.v \in {0, 1}
  BY FaultKinds
<1>8. DOMAIN WalkPattern = Bits /\ WalkPattern[fault.b] = IF call = 1 THEN 1 ELSE 0
  BY <1>7 DEF WalkPattern, OneBit, Not
<1>9. [WalkPattern EXCEPT ![fault.b] = fault.v][fault.b] = fault.v
  <2> DEFINE w == WalkPattern
  <2>1. DOMAIN w = Bits
    BY <1>8
  <2> HIDE DEF w
  <2>2. [w EXCEPT ![fault.b] = fault.v][fault.b] = fault.v
    BY <1>7, <2>1
  <2> QED BY <2>2 DEF w
<1> QED BY <1>5, <1>6, <1>8, <1>9

-----------------------------------------------------------------------------

\* A pattern that has just been in the stuck bit shows how it is stuck.
LEMMA WatchedStep ==
  ASSUME SliceRight, MemTypes, CarryPosition, WatchedGood, fault \in Faults, FaultIn(fault, Slice),
         CacheMemset \/ CacheCarry \/ CachePhaseEnds
  PROVE  WatchedGood'
<1>1. item \in {CPU_CACHE_WALKING, CPU_CACHE_STUCK} /\ UNCHANGED arguments
  BY DEF CacheMemset, CacheCarry, CachePhaseEnds, CacheStay
<1>2. /\ item' = item /\ start_p' = start_p /\ cnt' = cnt /\ fault' = fault
      /\ CacheBanks' = CacheBanks /\ Watched' = Watched /\ WatchedWords' = WatchedWords /\ Walking' = Walking
  BY <1>1 DEF arguments, CacheBanks, Watched, WatchedWords, Walking
<1>3. \A bank, n : BankStart(bank)' = BankStart(bank) /\ LookedAt(bank, n)' = LookedAt(bank, n)
  BY <1>2 DEF BankStart, LookedAt, BankHalf
<1> SUFFICES ASSUME fault.kind = "stuck" PROVE WatchedGood'
  BY <1>2 DEF WatchedGood
<1> DEFINE WordIs(bank, n) == fault.at = BankStart(bank) + n /\ LookedAt(bank, n)
<1>4. /\ ~Returned => ret = ERR_SUCCESS
      /\ pc = "carry" => mask \in 0 .. (UL_SIZE - 1)
      /\ \A bank \in 1 .. CacheBanks, n \in Nat : WordIs(bank, n) =>
           /\ call = 2 => fault.v = 1
           /\ pc = "carry" /\ PatternPast(bank, n) => call = 1 /\ fault.v = 1
  BY <1>1 DEF WatchedGood
<1>5. /\ call \in {1, 2} /\ cnt \in Nat /\ fault.at \in Slice /\ fault.b \in Bits
      /\ UL_SIZE \in Nat \ {0} /\ CacheBanks \in Int
  BY <1>1, LocalsAre, FaultKinds, WordAssumption, CacheAssumption DEF SliceRight, FaultIn, CacheBanks
<1> DEFINE Banks == \A bank \in 1 .. CacheBanks, n \in Nat : WordIs(bank, n) =>
                      /\ call' = 2 => fault.v = 1
                      /\ pc' = "carry" /\ PatternPast(bank, n)' => call' = 1 /\ fault.v = 1
<1>6. ASSUME /\ Returned' => ret' # ERR_SUCCESS \/ fault.at \notin WatchedWords
             /\ ~Returned' => ret' = ERR_SUCCESS
             /\ pc' = "carry" => mask' \in 0 .. (UL_SIZE - 1),
             Banks
      PROVE  WatchedGood'
  BY <1>2, <1>3, <1>6 DEF WatchedGood
<1>7. CASE CacheMemset
  <2>1. pc = "memset" /\ UNCHANGED <<call, ret>> /\ ~Returned /\ ~Returned'
    BY <1>7 DEF CacheMemset, CacheStay, Returned
  <2>2. \/ pc' = pc
        \/ pc' = "carry" /\ sweep' = 1 /\ k' = 0 /\ mask' = 0
    BY <1>7 DEF CacheMemset
  <2>3. pc' = "carry" => mask' \in 0 .. (UL_SIZE - 1)
    BY <1>5, <2>1, <2>2
  <2>4. ASSUME NEW bank \in 1 .. CacheBanks, NEW n \in Nat, pc' = "carry" PROVE ~PatternPast(bank, n)'
    BY <1>2, <1>5, <2>1, <2>2, <2>4 DEF PatternPast, Bits
  <2>5. Banks
    BY <1>4, <2>1, <2>4
  <2> QED BY <1>4, <1>6, <2>1, <2>3, <2>5
<1>8. CASE CacheCarry
  <2>1. /\ pc = "carry" /\ sweep \in Nat \ {0} /\ sweep <= CacheBanks /\ k \in Nat /\ k < cnt_cur
        /\ mask \in 0 .. (UL_SIZE - 1)
    BY <1>1, <1>4, <1>8 DEF CacheCarry, CarryPosition
  <2>2. CASE ~verify(Filled1, k, WalkPattern, Pad)
    <3>1. pc' = "returned" /\ ret' = CacheError /\ call' = call
      BY <1>8, <2>2 DEF CacheCarry, Return
    <3>2. CacheError # ERR_SUCCESS
      <4>1. CacheError \in {ERR_CACHE_WALK_1, ERR_CACHE_WALK_0, ERR_FAIL, ERR_CACHE_STUCK}
        BY Zenon DEF CacheError
      <4> QED BY <4>1 DEF ERR_CACHE_WALK_1, ERR_CACHE_WALK_0, ERR_FAIL, ERR_CACHE_STUCK, ERR_SUCCESS
    <3>3. Banks
      BY <1>4, <3>1
    <3> QED BY <1>6, <3>1, <3>2, <3>3 DEF Returned
  <2>3. CASE verify(Filled1, k, WalkPattern, Pad)
    <3>1. /\ mask' = (mask + 1) % UL_SIZE
          /\ k' = IF mask + 1 < UL_SIZE THEN k ELSE IF k + 1 < cnt_cur THEN k + 1 ELSE 0
          /\ sweep' = IF mask + 1 = UL_SIZE /\ k + 1 = cnt_cur THEN sweep + 1 ELSE sweep
          /\ UNCHANGED <<pc, call, ret>>
      BY <1>8, <2>3 DEF CacheCarry
    <3>2. mask' \in 0 .. (UL_SIZE - 1) /\ mask' = (IF mask + 1 = UL_SIZE THEN 0 ELSE mask + 1)
      BY <1>5, <2>1, <3>1
    <3>3. ~Returned /\ ~Returned'
      BY <2>1, <3>1 DEF Returned
    <3>4. ASSUME NEW bank \in 1 .. CacheBanks, NEW n \in Nat, WordIs(bank, n), PatternPast(bank, n)'
          PROVE  call = 1 /\ fault.v = 1
      <4>1. CASE PatternPast(bank, n)
        BY <1>4, <2>1, <3>4, <4>1
      <4>2. CASE ~PatternPast(bank, n)
        <5>1. cnt_cur \in Nat \ {0} /\ (sweep = bank => n < cnt_cur)
          BY <1>1, <1>5, <2>1, <3>4, BankFacts, LookedAtHere
        <5>2. sweep = bank /\ k = n /\ mask = fault.b
          <6> DEFINE b == fault.b
          <6>1. b \in 0 .. (UL_SIZE - 1)
            BY <1>5 DEF Bits
          <6>2. ~(sweep > bank) /\ ~(sweep = bank /\ k > n) /\ ~(sweep = bank /\ k = n /\ mask > b)
            BY <4>2 DEF PatternPast
          <6>3. sweep' > bank \/ (sweep' = bank /\ k' > n) \/ (sweep' = bank /\ k' = n /\ mask' > b)
            BY <1>2, <3>4 DEF PatternPast
          <6> HIDE DEF b
          <6> DEFINE d == cnt_cur
          <6>4. d \in Nat \ {0} /\ (sweep = bank => n < d) /\ k < d
                /\ k' = (IF mask + 1 < UL_SIZE THEN k ELSE IF k + 1 < d THEN k + 1 ELSE 0)
                /\ sweep' = (IF mask + 1 = UL_SIZE /\ k + 1 = d THEN sweep + 1 ELSE sweep)
            BY <2>1, <3>1, <5>1
          <6> HIDE DEF d
          <6>5. sweep = bank /\ k = n /\ mask = b
            BY <1>5, <2>1, <3>2, <6>1, <6>2, <6>3, <6>4
          <6> QED BY <6>5 DEF b
        <5>3. fault.at = pbank + k /\ LookedAt(sweep, k)
          <6>1. LookedAt(sweep, n) /\ fault.at = BankStart(sweep) + n
            BY <3>4, <5>2
          <6>2. BankStart(sweep) = pbank
            BY DEF BankStart, pbank
          <6> QED BY <5>2, <6>1, <6>2
        <5>4. fault.v = IF call = 1 THEN 1 ELSE 0
          BY <1>1, <1>5, <2>1, <2>3, <5>2, <5>3, StuckSeen
        <5>5. call = 2 => fault.v = 1
          BY <1>4, <3>4
        <5> QED BY <1>5, <5>4, <5>5
      <4> QED BY <4>1, <4>2
    <3>5. Banks
      BY <1>4, <3>1, <3>4
    <3> QED BY <1>4, <1>6, <3>1, <3>2, <3>3, <3>5
  <2> QED BY <2>2, <2>3
<1>9. CASE CachePhaseEnds
  <2>1. pc = "carry" /\ sweep \in Nat /\ sweep > CacheBanks /\ ~Returned
    BY <1>1, <1>9 DEF CachePhaseEnds, CarryPosition, Returned
  <2>2. \A bank \in 1 .. CacheBanks, n \in Nat : PatternPast(bank, n)
    BY <1>5, <2>1 DEF PatternPast
  <2>3. \A bank \in 1 .. CacheBanks, n \in Nat : WordIs(bank, n) => call = 1 /\ fault.v = 1
    BY <1>4, <2>1, <2>2
  <2>4. CASE call = 1
    <3>1. pc' = "memset" /\ ret' = ret
      BY <1>9, <2>4 DEF CachePhaseEnds
    <3>2. Banks
      BY <2>3, <3>1
    <3> QED BY <1>4, <1>6, <2>1, <3>1, <3>2 DEF Returned
  <2>5. CASE call = 2
    <3>1. pc' = "returned" /\ call' = call
      BY <1>9, <2>5 DEF CachePhaseEnds, Return
    <3>2. fault.at \notin WatchedWords
      BY <1>1, <2>3, <2>5, WatchedInBank
    <3>3. Banks
      BY <2>3, <3>1
    <3> QED BY <1>6, <3>1, <3>2, <3>3 DEF Returned
  <2> QED BY <1>5, <2>4, <2>5
<1> QED BY <1>7, <1>8, <1>9

-----------------------------------------------------------------------------
(* A faulty memory: the whole test *)

FaultyGood ==
  /\ FaultIn(fault, Slice)
  /\ StuckGood /\ TransitionGood /\ CouplingGood /\ LineGood /\ WalkLineGood /\ WatchedGood

FaultyIInv == VerdictIInv /\ FaultyGood

\* A pattern test begins before the first word of its first sweep.
LEMMA PatternStarts ==
  ASSUME Init, item \in PatternItems
  PROVE  /\ call = 1 /\ sweep = 1 /\ ~Returned /\ ret = ERR_SUCCESS /\ start_p \in Nat /\ Slice \subseteq Nat
         /\ Current.fn = FunctionOf(item) /\ Sweeps(Current) # 1
         /\ Current.fn # "modtst" => CurrentSweep.check = "none" /\ ~CurrentSweep.down /\ p = start_p
         /\ Current.fn # "modtst" => \A a \in Slice : ~Visited(CurrentSweep, p, a)
<1> DEFINE c == Call(1)
           s == Sweep(Call(1), 1)
<1>1. SliceRight /\ PatternState
  BY MemInit, PatternBegins DEF MemIInv
<1>2. Started /\ pc # "returned" /\ ret = ERR_SUCCESS
  BY DEF Init, Started
<1>3. call = 1 /\ sweep = 1 /\ p = start_p + (IF s.which = "nth" THEN c.off ELSE 0)
  BY <1>2, ItemsApart, Zenon DEF Started
<1>4. ~Returned /\ 1 \in 1 .. Calls /\ 1 \in 1 .. Sweeps(c) /\ Current = c /\ CurrentSweep = s
  BY <1>1, <1>2, <1>3 DEF PatternState, Returned, Current, CurrentSweep
<1>5. CallRight(c) /\ c.fn = FunctionOf(item) /\ Sweeps(c) # 1
  BY <1>1, <1>2, <1>3, <1>4, CallFacts, CurrentFacts
<1>6. start_p \in Nat /\ Slice \subseteq Nat /\ \A a \in Slice : a >= start_p
  BY <1>1 DEF SliceRight, Slice, end
<1>7. ASSUME c.fn # "modtst" PROVE s.check = "none" /\ ~s.down /\ p = start_p
  <2>1. s.which = "all" /\ s.check = "none" /\ ~s.down
    BY <1>4, <1>5, <1>7, SweepsFollow
  <2> HIDE DEF c, s
  <2> QED BY <1>3, <1>6, <2>1
<1> HIDE DEF c, s
<1>8. ASSUME c.fn # "modtst" PROVE \A a \in Slice : ~Visited(s, p, a)
  BY <1>6, <1>7, <1>8 DEF Visited
<1> QED BY <1>2, <1>3, <1>4, <1>5, <1>6, <1>7, <1>8

\* Nothing is to be found in the beginning.
LEMMA FaultyBegins == Init => FaultyGood
<1> SUFFICES ASSUME Init PROVE FaultyGood
  OBVIOUS
<1>1. FaultIn(fault, Slice) /\ fault \in Faults
  BY DEF Init
<1>2. Started /\ ret = ERR_SUCCESS /\ SliceRight
  BY MemInit DEF Init, MemIInv
<1>3. StuckGood
  <2> SUFFICES ASSUME fault.kind = "stuck", item \in StuckItems PROVE StuckGood
    BY DEF StuckGood
  <2>1. item \in PatternItems
    BY StuckFunctions
  <2>2. /\ call = 1 /\ sweep = 1 /\ ~Returned /\ ret = ERR_SUCCESS /\ start_p \in Nat
        /\ Slice \subseteq Nat /\ Sweeps(Current) # 1
    BY <2>1, PatternStarts
  <2>3. StuckModulo(Current)
    <3> DEFINE x == (fault.at - start_p) % MOD_SZ
    <3>1. x \in Nat
      <4>1. fault.at \in Nat
        BY <1>1, <2>2 DEF FaultIn
      <4> QED BY <2>2, <4>1, PatternAssumption
    <3>2. StuckCall = 2 * x + 1
      BY DEF StuckCall
    <3> HIDE DEF x
    <3>3. call <= StuckCall + 1 /\ call # StuckCall + 1
      BY <2>2, <3>1, <3>2
    <3> QED BY <2>2, <3>3 DEF StuckModulo
  <2>4. StuckSweeps(Current, CurrentSweep)
    BY <2>2 DEF StuckSweeps
  <2> QED BY <2>2, <2>3, <2>4 DEF StuckGood
<1>4. ASSUME item = MEM_MARCH_C_TEST
      PROVE  /\ item \in PatternItems /\ Current.fn # "modtst"
             /\ sweep = 1 /\ ~Returned /\ CurrentSweep.check = "none" /\ \A a \in Slice : ~Visited(CurrentSweep, p, a)
  <2>1. item \in PatternItems /\ FunctionOf(item) = "march_c"
    BY <1>4, StuckFunctions DEF StuckItems
  <2> QED BY <2>1, PatternStarts
<1>5. TransitionGood
  BY <1>2, <1>4 DEF TransitionGood
<1>6. CouplingGood
  <2> SUFFICES ASSUME fault.kind = "coupling", item = MEM_MARCH_C_TEST PROVE CouplingState(mem, sweep, CurrentSweep, p, ret)
    BY <1>4 DEF CouplingGood
  <2>1. First \in {2, 3} /\ Harm \in {2, 3, 5, 6} /\ Due \in 2 .. 7
    BY <1>1, FaultKinds, CouplingPlan
  <2>2. fault.at \in Slice /\ fault.from \in Slice
    BY <1>1 DEF FaultIn
  <2>3. ~Visited(CurrentSweep, p, fault.at) /\ ~Visited(CurrentSweep, p, fault.from) /\ CurrentSweep.check = "none"
    BY <1>4, <2>2
  <2>4. ~Harmed(sweep, CurrentSweep, p) /\ ~Settled(sweep, CurrentSweep, p)
    BY <1>4, <2>1, <2>3 DEF Harmed, Settled
  <2>5. NameAt(CurrentSweep, p, fault.from) = "none"
    BY <2>3 DEF NameAt
  <2> QED BY <1>2, <1>4, <2>1, <2>3, <2>4, <2>5 DEF CouplingState
<1>7. LineGood
  <2>1. ASSUME item = MEM_ADD_OWN_ADDRESS
        PROVE  item \in PatternItems /\ Current.fn # "modtst" /\ sweep = 1 /\ ~Returned /\ p = start_p
    <3>1. item \in PatternItems /\ FunctionOf(item) = "addr_walk_own"
      BY <2>1 DEF PatternItems, FunctionOf, MEM_ADD_OWN_ADDRESS, MEM_MOVE_INVER_ONES_ZERO, MEM_MOVE_INVER_8BIT,
         MEM_MOVE_INVER_RANDOM, MEM_MOVE_INVER_32BIT, MEM_RANDOM_NUM_SEQUENCE, MEM_MODULO, MEM_MARCH_C_TEST,
         MEM_BIT_FADE_TEST
    <3> QED BY <3>1, PatternStarts
  <2>2. \A a \in Aliased : a \in Nat /\ a >= start_p /\ start_p \in Nat
    BY <1>2 DEF Aliased, Slice, SliceRight, end
  <2>3. \A a \in Aliased : ~(a < start_p)
    BY <2>2
  <2> QED BY <1>2, <1>4, <2>1, <2>3 DEF LineGood
<1>8. WalkLineGood
  <2>1. item = MEM_ADD_WALK_ONES => pc = "bank" /\ sweep = 0
    BY <1>2, ItemsApart, Zenon DEF Started
  <2> QED BY <2>1 DEF WalkLineGood
<1>9. WatchedGood
  <2>1. item \in {CPU_CACHE_WALKING, CPU_CACHE_STUCK} =>
          item \in CacheItems /\ item # CPU_CACHE_RDWR /\ item # CPU_CACHE_RANDOM_DATA
    BY DEF CacheItems, CPU_CACHE_WALKING, CPU_CACHE_STUCK, CPU_CACHE_RDWR, CPU_CACHE_RANDOM_DATA
  <2>2. item \in CacheItems =>
          /\ call = 1
          /\ pc = (CASE item = CPU_CACHE_RDWR -> "rdwr_fill"
                     [] item = CPU_CACHE_RANDOM_DATA -> "rand_fill"
                     [] OTHER -> "memset")
    BY <1>2, ItemsApart, Zenon DEF Started
  <2>3. item \in {CPU_CACHE_WALKING, CPU_CACHE_STUCK} => call = 1 /\ pc = "memset"
    BY <2>1, <2>2, Zenon
  <2> QED BY <1>2, <2>3 DEF WatchedGood, Returned
<1> QED BY <1>1, <1>3, <1>5, <1>6, <1>7, <1>8, <1>9 DEF FaultyGood

\* A step of a pattern test.
LEMMA PatternFaultyStep ==
  ASSUME FaultyIInv, PatternNext
  PROVE  StuckGood' /\ TransitionGood' /\ CouplingGood' /\ LineGood'
<1>1. /\ SliceRight /\ PatternState /\ fault \in Faults /\ mem \in Memories /\ FaultIn(fault, Slice)
      /\ StuckGood /\ TransitionGood /\ CouplingGood /\ LineGood
  BY LocalsAre DEF FaultyIInv, FaultyGood, VerdictIInv, MemIInv
<1>2. UNCHANGED arguments
  BY <1>1, RunningFacts
<1>3. item' = item /\ fault' = fault /\ Verifies' = Verifies /\ Aliased' = Aliased
  BY <1>2 DEF arguments, Verifies, Compares, Aliased, Slice, end
<1>4. StuckGood'
  <2>1. CASE fault.kind = "stuck" /\ Verifies /\ item \in StuckItems
    BY <1>1, <2>1, SweepStuckStep, ModuloStuckStep
  <2>2. CASE ~(fault.kind = "stuck" /\ Verifies /\ item \in StuckItems)
    BY <1>3, <2>2 DEF StuckGood
  <2> QED BY <2>1, <2>2
<1>5. TransitionGood'
  <2>1. CASE fault.kind = "transition" /\ item = MEM_MARCH_C_TEST
    BY <1>1, <2>1, TransitionStep
  <2>2. CASE ~(fault.kind = "transition" /\ item = MEM_MARCH_C_TEST)
    BY <1>3, <2>2 DEF TransitionGood
  <2> QED BY <2>1, <2>2
<1>6. CouplingGood'
  <2>1. CASE fault.kind = "coupling" /\ item = MEM_MARCH_C_TEST
    BY <1>1, <2>1, CouplingStep
  <2>2. CASE ~(fault.kind = "coupling" /\ item = MEM_MARCH_C_TEST)
    BY <1>3, <2>2 DEF CouplingGood
  <2> QED BY <2>1, <2>2
<1>7. LineGood'
  <2>1. CASE fault.kind = "line" /\ Verifies /\ Aliased # {} /\ item = MEM_ADD_OWN_ADDRESS
    BY <1>1, <2>1, OwnLineStep
  <2>2. CASE fault.kind = "line" /\ Verifies /\ Aliased # {} /\ item = MEM_MARCH_C_TEST
    BY <1>1, <2>2, MarchLineStep
  <2>3. CASE ~(fault.kind = "line" /\ Verifies /\ Aliased # {} /\ item \in {MEM_ADD_OWN_ADDRESS, MEM_MARCH_C_TEST})
    BY <1>3, <2>3 DEF LineGood
  <2> QED BY <2>1, <2>2, <2>3
<1> QED BY <1>4, <1>5, <1>6, <1>7

\* What the tests without patterns know nothing of.
LEMMA OtherItems ==
  ASSUME item' = item, item \notin PatternItems
  PROVE  StuckGood' /\ TransitionGood' /\ CouplingGood' /\ LineGood'
<1>1. item \notin StuckItems /\ item # MEM_MARCH_C_TEST /\ item # MEM_ADD_OWN_ADDRESS
  BY StuckFunctions
  DEF StuckItems, PatternItems, MEM_ADD_OWN_ADDRESS, MEM_MOVE_INVER_ONES_ZERO, MEM_MOVE_INVER_8BIT,
      MEM_MOVE_INVER_RANDOM, MEM_MOVE_INVER_32BIT, MEM_RANDOM_NUM_SEQUENCE, MEM_MODULO, MEM_MARCH_C_TEST,
      MEM_BIT_FADE_TEST
<1> QED BY <1>1 DEF StuckGood, TransitionGood, CouplingGood, LineGood

\* Each test's step brings it nearer to the fault.
LEMMA FaultyStep ==
  ASSUME FaultyIInv, Next
  PROVE  FaultyGood'
<1>1. UNCHANGED arguments
  BY EveryStep DEF FaultyIInv, VerdictIInv
<1>2. item' = item /\ FaultIn(fault, Slice)'
  BY <1>1 DEF arguments, FaultyIInv, FaultyGood, FaultIn, Slice, end
<1>3. /\ SliceRight /\ MemTypes /\ WalkPosition /\ CarryPosition /\ fault \in Faults /\ FaultIn(fault, Slice)
      /\ WalkLineGood /\ WatchedGood
  BY LocalsAre DEF FaultyIInv, FaultyGood, VerdictIInv, MemIInv, Positions
<1>4. ASSUME item # MEM_ADD_WALK_ONES PROVE WalkLineGood'
  BY <1>2, <1>4 DEF WalkLineGood
<1>5. ASSUME item \notin {CPU_CACHE_WALKING, CPU_CACHE_STUCK} PROVE WatchedGood'
  BY <1>2, <1>5 DEF WatchedGood
<1>6. CASE PatternNext
  <2>1. item \in PatternItems
    BY <1>6 DEF PatternNext, NextChunk, VisitWord, EndChunk
  <2>2. WalkLineGood' /\ WatchedGood'
    BY <1>4, <1>5, <2>1, ItemsApart
  <2> QED BY <1>2, <1>6, <2>2, PatternFaultyStep DEF FaultyGood
<1>7. CASE SkipLine \/ WalkLine \/ EndWalk \/ EndBanks
  <2>1. item = MEM_ADD_WALK_ONES
    BY <1>7 DEF SkipLine, WalkLine, EndWalk, EndBanks
  <2>2. WalkLineGood'
    BY <1>3, <1>7, WalkLineStep
  <2>3. WatchedGood'
    BY <1>5, <2>1, ItemsApart
  <2>4. item \notin PatternItems
    BY <2>1, ItemsApart
  <2> QED BY <1>2, <2>2, <2>3, <2>4, OtherItems DEF FaultyGood
<1>8. CASE CacheMemset \/ CacheCarry \/ CachePhaseEnds
  <2>1. item \in {CPU_CACHE_WALKING, CPU_CACHE_STUCK}
    BY <1>8 DEF CacheMemset, CacheCarry, CachePhaseEnds
  <2>2. WatchedGood'
    BY <1>3, <1>8, WatchedStep
  <2>3. WalkLineGood'
    BY <1>4, <2>1, ItemsApart
  <2>4. item \notin PatternItems
    BY <2>1, ItemsApart
  <2> QED BY <1>2, <2>2, <2>3, <2>4, OtherItems DEF FaultyGood
<1>9. CASE \/ randaddr_fillup \/ randaddr_test \/ EndRandBank \/ randaddr_verify \/ BlockMoveNext
           \/ RdwrFillup \/ RdwrTest \/ randdata_fillup \/ comp_long
  <2>1. item \in {MEM_RANDOM_ADDRESS, MEM_BLOCK_MOVE, CPU_CACHE_RDWR, CPU_CACHE_RANDOM_DATA}
    BY <1>9 DEF randaddr_fillup, randaddr_test, EndRandBank, randaddr_verify, BlockMoveNext, FillBlockWord,
       StartMoving, MoveWord, EndMove, CheckBlock, RdwrFillup, RdwrTest, randdata_fillup, comp_long
  <2>2. WalkLineGood' /\ WatchedGood'
    BY <1>4, <1>5, <2>1, ItemsApart
  <2>3. item \notin PatternItems
    BY <2>1, ItemsApart
  <2> QED BY <1>2, <2>2, <2>3, OtherItems DEF FaultyGood
<1> QED BY <1>6, <1>7, <1>8, <1>9 DEF Next, AddressNext, CacheNext

\* Nor does it change in a step that changes no variable.
LEMMA FaultyStays == FaultyGood /\ UNCHANGED vars => FaultyGood'
<1> SUFFICES ASSUME FaultyGood, UNCHANGED vars PROVE FaultyGood'
  OBVIOUS
<1>1. UNCHANGED <<item, start_p, cnt, no_comp, fault, mem, pc, call, sweep, p, pe, done, k, pat, mask, ret>>
  BY DEF vars
<1>2. /\ end' = end /\ Slice' = Slice /\ Calls' = Calls /\ Returned' = Returned /\ Verifies' = Verifies
      /\ Aliased' = Aliased
  BY <1>1 DEF end, Slice, Calls, Iter, Returned, Verifies, Compares, Aliased
<1>3. Current' = Current /\ CurrentSweep' = CurrentSweep
  BY <1>1, CallSame DEF Current, CurrentSweep
<1>4. FaultIn(fault, Slice)'
  BY <1>1, <1>2 DEF FaultyGood, FaultIn
<1>5. StuckGood'
  <2>1. StuckCall' = StuckCall /\ Call(StuckCall)' = Call(StuckCall)
    BY <1>1, CallSame DEF StuckCall
  <2>2. StuckModulo(Current)' <=> StuckModulo(Current)
    BY <1>1, <1>3, <2>1 DEF StuckModulo, BitOf
  <2>3. StuckSweeps(Current, CurrentSweep)' <=> StuckSweeps(Current, CurrentSweep)
    BY <1>1, <1>3 DEF StuckSweeps, BitOf
  <2> QED BY <1>1, <1>2, <1>3, <2>2, <2>3 DEF FaultyGood, StuckGood
<1>6. TransitionGood'
  BY <1>1, <1>2, <1>3 DEF FaultyGood, TransitionGood, BitOf
<1>7. CouplingGood'
  BY <1>1, <1>2, <1>3 DEF FaultyGood, CouplingGood, CouplingState, Due, Upper, Early, First, Before, Harm, WrongBit,
     Harmed, Settled, NameAt
<1>8. LineGood'
  BY <1>1, <1>2 DEF FaultyGood, LineGood
<1>9. WalkLineGood'
  BY <1>1, <1>2 DEF FaultyGood, WalkLineGood
<1>10. WatchedGood'
  <2>1. CacheBanks' = CacheBanks /\ Watched' = Watched /\ WatchedWords' = WatchedWords
    BY <1>1 DEF CacheBanks, Watched, WatchedWords, Walking
  <2>2. \A bank, n : /\ BankStart(bank)' = BankStart(bank) /\ LookedAt(bank, n)' = LookedAt(bank, n)
                     /\ PatternPast(bank, n)' = PatternPast(bank, n)
    BY <1>1, <2>1 DEF BankStart, LookedAt, BankHalf, PatternPast, Walking
  <2> QED BY <1>1, <1>2, <2>1, <2>2 DEF FaultyGood, WatchedGood
<1> QED BY <1>4, <1>5, <1>6, <1>7, <1>8, <1>9, <1>10 DEF FaultyGood

\* The inductive invariant holds of every memory.
LEMMA FaultyInvariant == Spec => []FaultyIInv
<1>1. Init => FaultyIInv
  BY MemInit, TypesBegin, PatternBegins, GoodPatternBegins, LoopsGoodBegin, FaultyBegins DEF VerdictIInv, FaultyIInv
<1>2. FaultyIInv /\ [Next]_vars => FaultyIInv'
  <2>1. FaultyIInv /\ Next => FaultyIInv'
    BY MemStep, TypesStep, GoodStep, FaultyStep DEF VerdictIInv, FaultyIInv
  <2>2. FaultyIInv /\ UNCHANGED vars => FaultyIInv'
    BY MemStep, VerdictStays, FaultyStays DEF VerdictIInv, FaultyIInv
  <2> QED BY <2>1, <2>2
<1> QED BY <1>1, <1>2, PTL DEF Spec

\* What run_test_slice() returns of a test is true of the memory: a good memory passes,
\* and each fault a test is made for is reported, wherever in the slice it is.
THEOREM VerdictSound == Spec => []VerdictRight
<1>1. FaultyIInv => StuckBitReported
  BY DEF FaultyIInv, FaultyGood, StuckBitReported, StuckGood, StuckItems
<1>2. FaultyIInv => MarchCComplete
  BY DEF FaultyIInv, FaultyGood, MarchCComplete, TransitionGood, CouplingGood
<1>3. FaultyIInv => DeadLineReported
  <2> SUFFICES ASSUME FaultyIInv, Returned, fault.kind = "line", Verifies, \E a \in Slice : CellOf(fault, a) # a,
                      \/ item \in {MEM_ADD_OWN_ADDRESS, MEM_MARCH_C_TEST}
                      \/ item = MEM_ADD_WALK_ONES /\ start_p + fault.line < end /\ Line(start_p, fault.line) = 0
               PROVE  ret # ERR_SUCCESS
    BY DEF DeadLineReported
  <2>1. Aliased # {}
    BY DEF Aliased
  <2>2. LineGood /\ WalkLineGood /\ pc = "returned"
    BY DEF FaultyIInv, FaultyGood, Returned
  <2> QED BY <2>1, <2>2 DEF LineGood, WalkLineGood
<1>4. FaultyIInv => WatchedBitReported
  BY DEF FaultyIInv, FaultyGood, WatchedBitReported, WatchedGood
<1>5. TypeOK /\ NoFalseAlarm /\ FaultyIInv => VerdictRight
  BY <1>1, <1>2, <1>3, <1>4 DEF VerdictRight
<1> QED BY GoodMemoryPasses, FaultyInvariant, <1>5, PTL
=============================================================================
