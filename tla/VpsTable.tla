------------------------------ MODULE VpsTable ------------------------------
(***************************************************************************)
(* The table of virtual ports of DZigbee-bridge/vps2addr.c: number v names *)
(* the device with the 8-byte address addrs[v].addr and the 2-byte network *)
(* address addrs[v].nwk while addrs[v].used is set.  Every operator takes  *)
(* the table and returns a table or a number; number 0 names no device.    *)
(***************************************************************************)
EXTENDS Naturals, FiniteSets

CONSTANTS MAXVPS,       \* entries of the table, entry 0 included
          Addr,         \* 8-byte addresses of devices
          Nwk,          \* 2-byte network addresses
          None          \* the zeros of calloc

ASSUME MaxVpsAssumption == MAXVPS \in Nat \ {0}
ASSUME NoneAssumption == None \notin Addr /\ None \notin Nwk

Vps == 1 .. (MAXVPS - 1)

(* Entry 0 is never used; what the code stores in it is never read.        *)
Tables == [Vps -> [used: BOOLEAN, addr: Addr \cup {None},
                   nwk: Nwk \cup {None}]]

genvpstable == [v \in Vps |-> [used |-> FALSE, addr |-> None, nwk |-> None]]

clearvpstable(addrs) == [v \in Vps |-> [addrs[v] EXCEPT !.used = FALSE]]

FreeNumbers(addrs) == {v \in Vps : ~addrs[v].used}

(* vps_add looks at entry after entry without an end: with no free number  *)
(* it reads beyond the table.                                              *)
IsFull(addrs) == FreeNumbers(addrs) = {}

First(S) == CHOOSE v \in S : \A w \in S : v <= w

AddNumber(addrs) == First(FreeNumbers(addrs))

(* Mutant: the first entry is taken whether it is used or not.             *)
vps_addFirst(addrs, a) == [addrs EXCEPT ![1].used = TRUE, ![1].addr = a]

vps_add(addrs, a) ==
    [addrs EXCEPT ![AddNumber(addrs)].used = TRUE,
                  ![AddNumber(addrs)].addr = a]

vps_add_nwk(addrs, v, n) ==
    IF v = 0 THEN addrs ELSE [addrs EXCEPT ![v].nwk = n]

(* Mutant: the addresses are not compared.                                 *)
NumbersOfAny(addrs, a) == {v \in Vps : addrs[v].used}

(* The numbers that name address a, and the one the code answers with.     *)
NumbersOf(addrs, a) == {v \in Vps : addrs[v].used /\ addrs[v].addr = a}

vps_atov(addrs, a) ==
    IF NumbersOf(addrs, a) = {} THEN 0 ELSE First(NumbersOf(addrs, a))

NumbersOfNwk(addrs, n) == {v \in Vps : addrs[v].used /\ addrs[v].nwk = n}

vps_atov_nwk(addrs, n) ==
    IF NumbersOfNwk(addrs, n) = {} THEN 0 ELSE First(NumbersOfNwk(addrs, n))

(* The address of a number, zeros for number 0.                            *)
vps_vtoa(addrs, v) == IF v = 0 THEN None ELSE addrs[v].addr

check_valid_vps(addrs, v) == addrs[v].used
=============================================================================
