---------------------------- MODULE NipAddrconf ----------------------------
(***************************************************************************)
(* The life of a NewIP device (struct ninet_dev, "idev"): nip_addrconf.c,  *)
(* nip_addrconf_core.c and the parts of route.c that keep a pointer to it. *)
(*                                                                         *)
(* Device notifications and the address and route ioctls run one at a time *)
(* under rtnl.  Concurrently with them, RCU callbacks release routes and   *)
(* exchange their idev for the one of the loopback device, lookups copy a  *)
(* route with its idev, and readers use dev->nip_ptr and the address hash  *)
(* table under RCU only.  The reference counts of the dst entries are the  *)
(* subject of NipRoute; here a dst entry has the set of its holders.       *)
(***************************************************************************)
EXTENDS Integers, FiniteSets

CONSTANTS
  Dev,      \* net devices
  Lo,       \* net->loopback_dev
  Managed,  \* the devices that are registered, configured and removed
  Addr,     \* NewIP addresses
  Idev,     \* memory for struct ninet_dev
  Ifa,      \* memory for struct ninet_ifaddr
  Dst,      \* memory for struct nip_rt_info
  Proc,     \* processes and sockets that look routes up
  Soft,     \* readers of dev->nip_ptr and of ninet_addr_lst
  Sat,      \* a saturated refcount_t: it was incremented at zero
  NONE      \* the NULL pointer; for dst->dev, blackhole_netdev

ASSUME AddrconfAssumption ==
  /\ Lo \in Dev /\ Managed \subseteq Dev \ {Lo}
  /\ NONE \notin Dev \cup Idev \cup Ifa \cup Dst
  /\ Sat \notin Int
  /\ Idev # {} /\ IsFiniteSet(Ifa) /\ IsFiniteSet(Dst) /\ IsFiniteSet(Soft)
  /\ Proc \cap Dst = {} /\ {"ifa", "node", "slot"} \cap (Proc \cup Dst) = {}

VARIABLES
  dev,      \* Dev -> reg: its registration; up: netif_running; mtu: at least NIP_MIN_MTU
  nip_ptr,  \* Dev -> dev->nip_ptr
  idev,     \* Idev -> mem, dev, refcnt, dead, gp
  rlock,    \* Idev -> readers that hold idev->lock
  ifa,      \* Ifa -> mem, addr, idev, rt, hashed, listed, gp
  dst,      \* Dst -> kind, table, dst, dev, idev, linked, hold, from, slot, pcpu, cb, gp
  cfg,      \* the nip_addrconf_ifdown in progress: step, d, unreg, i, del
  rd        \* Proc \cup Soft -> pc and the pointers it has read

vars == <<dev, nip_ptr, idev, rlock, ifa, dst, cfg, rd>>

\* mem is "live" until the last reference is put, "rcu" until the grace period
\* ends, then "free"; "lost" is an idev that is put for the last time but not dead.
NoIdev == [mem |-> "free", dev |-> NONE, refcnt |-> 0, dead |-> FALSE, gp |-> {}]
NoIfa  == [mem |-> "free", addr |-> NONE, idev |-> NONE, rt |-> NONE,
           hashed |-> FALSE, listed |-> FALSE, gp |-> {}]
NoDst  == [kind |-> "free", table |-> "main", dst |-> NONE, dev |-> NONE, idev |-> NONE,
           linked |-> FALSE, hold |-> {}, from |-> NONE, slot |-> NONE, pcpu |-> FALSE,
           cb |-> "none", gp |-> {}]
NoCfg  == [step |-> "idle", d |-> NONE, unreg |-> FALSE, i |-> NONE, del |-> {}]
NoRd   == [pc |-> "idle", p |-> NONE, c |-> NONE, i |-> NONE]

\* The loopback device has its idev from the start; its references are
\* dev->nip_ptr and those of the null and the broadcast entry.
Init ==
  LET i == CHOOSE j \in Idev : TRUE IN
    /\ dev     = [d \in Dev |-> [reg |-> IF d = Lo THEN "reg" ELSE "none",
                                 up |-> d = Lo, mtu |-> TRUE]]
    /\ nip_ptr = [d \in Dev |-> IF d = Lo THEN i ELSE NONE]
    /\ idev    = [j \in Idev |-> IF j = i THEN [NoIdev EXCEPT !.mem = "live", !.dev = Lo,
                                                              !.refcnt = 3]
                                 ELSE NoIdev]
    /\ rlock   = [j \in Idev |-> 0]
    /\ ifa     = [f \in Ifa |-> NoIfa]
    /\ dst     = [o \in Dst |-> NoDst]
    /\ cfg     = NoCfg
    /\ rd      = [r \in Proc \cup Soft |-> NoRd]

-----------------------------------------------------------------------------
(* Memory.  All of it is alike, so an allocation takes the first that is free. *)

FreeIdev == {i \in Idev : idev[i] = NoIdev}
FreeIfa  == {f \in Ifa : ifa[f] = NoIfa}
FreeDst  == {o \in Dst : dst[o] = NoDst}

kzalloc(S) == CHOOSE x \in S : TRUE

-----------------------------------------------------------------------------
(* References.                                                             *)

\* Readers that a grace period starting now has to wait for.
InRcu == {r \in Proc \cup Soft : rd[r].pc \in {"saddr", "rcu", "hash"}}

\* nin_dev_hold and the increment of nin_dev_get on the idevs I.
Hold(I, i) ==
  [I EXCEPT ![i].refcnt = IF @ \in {0, Sat} THEN Sat ELSE @ + 1]

\* Mutant: the memory does not wait for readers.
finish_destroy_now(I, i) ==
  [I EXCEPT ![i].mem = IF I[i].dead THEN "free" ELSE "lost"]

\* nin_dev_finish_destroy: dev_put, and the memory goes through RCU.
nin_dev_finish_destroy(I, i) ==
  [I EXCEPT ![i].mem = IF I[i].dead THEN "rcu" ELSE "lost", ![i].gp = InRcu]

\* nin_dev_put of i, or of no idev.
Put(I, i) ==
  IF i = NONE THEN I
  ELSE LET J == [I EXCEPT ![i].refcnt = IF @ = Sat THEN Sat ELSE @ - 1]
       IN  IF J[i].refcnt = 0 THEN nin_dev_finish_destroy(J, i) ELSE J

\* dst_release by holder h: the last one queues dst_destroy_rcu.
Release(D, o, h) ==
  LET left == D[o].hold \ {h}
  IN  [D EXCEPT ![o].hold = left,
                ![o].cb   = IF left = {} THEN "destroy" ELSE @,
                ![o].gp   = IF left = {} THEN InRcu ELSE @]

\* Unlinks the routes of S; nip_fib_del queues their release.
Unlink(D, S) ==
  [o \in Dst |-> IF o \in S THEN [D[o] EXCEPT !.linked = FALSE, !.cb = "node", !.gp = InRcu]
                 ELSE D[o]]

\* Mutant: routes keep their idev.
NotExchanged(o) == FALSE

\* dst_dev_put calls nip_dst_ifdown: the idev is exchanged for the loopback one,
\* which is held, and put.
Exchanged(o) == idev[dst[o].idev].dev # Lo /\ nip_ptr[Lo] # NONE

\* Mutant: the old idev is not put.
nip_dst_ifdown_leak(I, o) == IF Exchanged(o) THEN Hold(I, nip_ptr[Lo]) ELSE I

\* nip_dst_ifdown: the effect on the idevs.
nip_dst_ifdown(I, o) ==
  IF Exchanged(o) THEN Put(Hold(I, nip_ptr[Lo]), dst[o].idev) ELSE I

\* dst_dev_put: the effect on the dst entry.
dst_dev_put(D, o) ==
  [D EXCEPT ![o].dev  = NONE,
            ![o].idev = IF Exchanged(o) THEN nip_ptr[Lo] ELSE @]

-----------------------------------------------------------------------------
(* Configuration, under rtnl.                                              *)

Rtnl == cfg.step = "idle"

\* The idevs after nip_add_dev(d) has got the memory i.
WithIdev(d, i) ==
  [idev EXCEPT ![i] = [NoIdev EXCEPT !.mem = "live", !.dev = d, !.refcnt = 1]]

\* nip_add_dev: d, which has no idev, gets one.
nip_add_dev(d) ==
  /\ nip_ptr[d] = NONE
  /\ dev'[d].mtu
  /\ FreeIdev # {}
  /\ idev' = WithIdev(d, kzalloc(FreeIdev))
  /\ nip_ptr' = [nip_ptr EXCEPT ![d] = kzalloc(FreeIdev)]

\* Up to the point where dev->nip_ptr is cleared: nip_rt_ifdown unlinks the
\* routes of the device, and a device that goes away is marked dead.
nip_addrconf_ifdown(d, unreg) ==
  LET i == nip_ptr[d] IN
  /\ dst' = Unlink(dst, {o \in Dst : dst[o].linked /\ dst[o].dev = d})
  /\ IF i = NONE
       THEN UNCHANGED <<nip_ptr, idev, cfg>>
       ELSE /\ cfg' = [step |-> "hash", d |-> d, unreg |-> unreg, i |-> i, del |-> {}]
            /\ nip_ptr' = IF unreg THEN [nip_ptr EXCEPT ![d] = NONE] ELSE nip_ptr
            /\ idev' = IF unreg THEN [idev EXCEPT ![i].dead = TRUE] ELSE idev

\* Step 2: the hash table.
IfdownHash ==
  /\ cfg.step = "hash"
  /\ ifa' = [f \in Ifa |-> IF ifa[f].idev = cfg.i THEN [ifa[f] EXCEPT !.hashed = FALSE]
                           ELSE ifa[f]]
  /\ cfg' = [cfg EXCEPT !.step = "list"]
  /\ UNCHANGED <<dev, nip_ptr, idev, rlock, dst, rd>>

\* Step 3, under idev->lock: the addresses move to del_list.
IfdownList ==
  /\ cfg.step = "list"
  /\ rlock[cfg.i] = 0
  /\ LET S == {f \in Ifa : ifa[f].listed /\ ifa[f].idev = cfg.i}
     IN  /\ ifa' = [f \in Ifa |-> IF f \in S THEN [ifa[f] EXCEPT !.listed = FALSE] ELSE ifa[f]]
         /\ cfg' = [cfg EXCEPT !.step = "put", !.del = S]
  /\ UNCHANGED <<dev, nip_ptr, idev, rlock, dst, rd>>

\* ninet_ifa_finish_destroy: the address puts its idev and its route.
ninet_ifa_finish_destroy(f) ==
  /\ idev' = Put(idev, ifa[f].idev)
  /\ ifa' = [ifa EXCEPT ![f] = [@ EXCEPT !.mem = "rcu", !.hashed = FALSE, !.listed = FALSE,
                                         !.gp = InRcu]]

\* Step 4, one address of del_list.
IfdownPut(f) ==
  /\ cfg.step = "put"
  /\ f \in cfg.del
  /\ ninet_ifa_finish_destroy(f)
  /\ dst' = Release(dst, ifa[f].rt, "ifa")
  /\ cfg' = [cfg EXCEPT !.del = @ \ {f}]
  /\ UNCHANGED <<dev, nip_ptr, rlock, rd>>

\* Last: the reference of dev->nip_ptr.
IfdownLast ==
  /\ cfg.step = "put"
  /\ cfg.del = {}
  /\ idev' = IF cfg.unreg THEN Put(idev, cfg.i) ELSE idev
  /\ cfg' = NoCfg
  /\ UNCHANGED <<dev, nip_ptr, rlock, ifa, dst, rd>>

Ifdown == IfdownHash \/ IfdownList \/ (\E f \in Ifa : IfdownPut(f)) \/ IfdownLast

\* NETDEV_REGISTER: a failed nip_add_dev makes the registration fail.
Register(d) ==
  /\ Rtnl /\ dev[d].reg = "none"
  /\ dev' = [dev EXCEPT ![d].reg = "reg"]
  /\ nip_add_dev(d)
  /\ UNCHANGED <<rlock, ifa, dst, cfg, rd>>

\* NETDEV_UP when the link is ready: an idev that went away with a small MTU is
\* made again, or stays away for want of memory.
Up(d) ==
  /\ Rtnl /\ dev[d].reg = "reg" /\ ~dev[d].up
  /\ dev' = [dev EXCEPT ![d].up = TRUE]
  /\ \/ nip_add_dev(d)
     \/ UNCHANGED <<nip_ptr, idev>>
  /\ UNCHANGED <<rlock, ifa, dst, cfg, rd>>

\* NETDEV_CHANGEMTU to a value below NIP_MIN_MTU.
MtuTooSmall(d) ==
  /\ Rtnl /\ dev[d].reg = "reg" /\ dev[d].mtu
  /\ dev' = [dev EXCEPT ![d].mtu = FALSE]
  /\ nip_addrconf_ifdown(d, d # Lo)
  /\ UNCHANGED <<rlock, ifa, rd>>

\* NETDEV_CHANGEMTU back to a sufficient value: there is no idev, a new one is
\* made if there is memory.
MtuEnough(d) ==
  /\ Rtnl /\ dev[d].reg = "reg" /\ ~dev[d].mtu
  /\ dev' = [dev EXCEPT ![d].mtu = TRUE]
  /\ \/ nip_add_dev(d)
     \/ UNCHANGED <<nip_ptr, idev>>
  /\ UNCHANGED <<rlock, ifa, dst, cfg, rd>>

\* NETDEV_DOWN.
Down(d) ==
  /\ Rtnl /\ dev[d].up
  /\ dev' = [dev EXCEPT ![d].up = FALSE]
  /\ nip_addrconf_ifdown(d, FALSE)
  /\ UNCHANGED <<rlock, ifa, rd>>

\* NETDEV_UNREGISTER of a device that is down.
Unregister(d) ==
  /\ Rtnl /\ dev[d].reg = "reg" /\ ~dev[d].up
  /\ dev' = [dev EXCEPT ![d].reg = "unreg"]
  /\ nip_addrconf_ifdown(d, TRUE)
  /\ UNCHANGED <<rlock, ifa, rd>>

\* nip_addrconf_dst_alloc and nip_route_info_create: a route through d.
NewRoute(d, i, t, a, hold, linked) ==
  [NoDst EXCEPT !.kind = "route", !.table = t, !.dst = a, !.dev = d, !.idev = i,
                !.linked = linked, !.hold = hold, !.pcpu = TRUE]

\* nip_add_addr on the idev i, which is J[i] by now: the address and its route
\* hold i.  nip_ins_rt may fail for want of memory, and the address stays.
nip_add_addr(J, d, a, i) ==
  /\ dev[d].up
  /\ rlock[i] = 0
  /\ \A g \in Ifa : ifa[g].hashed => ifa[g].addr # a \/ ifa[g].idev # i
  /\ FreeIfa # {} /\ FreeDst # {}
  /\ idev' = Hold(Hold(J, i), i)
  /\ LET f == kzalloc(FreeIfa)
         o == kzalloc(FreeDst)
     IN  /\ ifa' = [ifa EXCEPT ![f] = [NoIfa EXCEPT !.mem = "live", !.addr = a, !.idev = i,
                                                    !.rt = o, !.hashed = TRUE, !.listed = TRUE]]
         /\ \/ dst' = [dst EXCEPT ![o] = NewRoute(d, i, "local", a, {"ifa", "node"}, TRUE)]
            \/ dst' = [dst EXCEPT ![o] = NewRoute(d, i, "local", a, {"ifa"}, FALSE)]

\* ninet_addr_add: nip_addrconf_add_dev makes the idev if there is none, which
\* stays when nip_add_addr then fails.
ninet_addr_add(d, a) ==
  /\ Rtnl /\ dev[d].reg = "reg"
  /\ \/ /\ nip_ptr[d] # NONE
        /\ nip_add_addr(idev, d, a, nip_ptr[d])
        /\ UNCHANGED nip_ptr
     \/ /\ nip_ptr[d] = NONE /\ dev[d].mtu /\ FreeIdev # {}
        /\ LET i == kzalloc(FreeIdev)
           IN  /\ nip_ptr' = [nip_ptr EXCEPT ![d] = i]
               /\ \/ nip_add_addr(WithIdev(d, i), d, a, i)
                  \/ idev' = WithIdev(d, i) /\ UNCHANGED <<ifa, dst>>
  /\ UNCHANGED <<dev, rlock, cfg, rd>>

\* ninet_addr_del -> nip_del_addr: out of both lists, the route unlinked, the
\* address put.
ninet_addr_del(f) ==
  /\ Rtnl
  /\ ifa[f].listed
  /\ rlock[ifa[f].idev] = 0
  /\ ninet_ifa_finish_destroy(f)
  /\ LET o == ifa[f].rt
     IN  dst' = Release(Unlink(dst, {o} \cap {p \in Dst : dst[p].linked}), o, "ifa")
  /\ UNCHANGED <<dev, nip_ptr, rlock, cfg, rd>>

\* nip_route_add.
nip_route_add(d, a) ==
  /\ Rtnl /\ dev[d].reg = "reg" /\ dev[d].up
  /\ nip_ptr[d] # NONE
  /\ \A p \in Dst : dst[p].linked => dst[p].table # "main" \/ dst[p].dst # a
  /\ FreeDst # {}
  /\ idev' = Hold(idev, nip_ptr[d])
  /\ dst' = [dst EXCEPT ![kzalloc(FreeDst)] = NewRoute(d, nip_ptr[d], "main", a, {"node"}, TRUE)]
  /\ UNCHANGED <<dev, nip_ptr, rlock, ifa, cfg, rd>>

\* nip_route_del.
nip_route_del(o) ==
  /\ Rtnl
  /\ dst[o].linked /\ dst[o].table = "main"
  /\ dst' = Unlink(dst, {o})
  /\ UNCHANGED <<dev, nip_ptr, idev, rlock, ifa, cfg, rd>>

-----------------------------------------------------------------------------
(* RCU callbacks.                                                          *)

\* nip_rt_free_pcpu visits the CPU of the copy, if there is one.
FreePcpu(o) ==
  /\ dst[o].cb = "node" /\ dst[o].gp = {}
  /\ LET c == dst[o].slot
         D == [dst EXCEPT ![o].cb = "pcpu", ![o].slot = NONE]
     IN  IF c = NONE THEN dst' = D /\ UNCHANGED idev
         ELSE /\ dst' = Release(dst_dev_put(D, c), c, "slot")
              /\ idev' = nip_dst_ifdown(idev, c)
  /\ UNCHANGED <<dev, nip_ptr, rlock, ifa, cfg, rd>>

\* The rest of nip_rt_release: free_percpu, dst_dev_put and dst_release.
nip_rt_release(o) ==
  /\ dst[o].cb = "pcpu"
  /\ LET D == [dst EXCEPT ![o].cb = "none", ![o].pcpu = FALSE, ![o].slot = NONE]
     IN  dst' = Release(dst_dev_put(D, o), o, "node")
  /\ idev' = nip_dst_ifdown(idev, o)
  /\ UNCHANGED <<dev, nip_ptr, rlock, ifa, cfg, rd>>

\* nip_dst_destroy in D: o is freed, and the route it was copied from is released.
Destroyed(D, o) ==
  LET E == [D EXCEPT ![o] = NoDst]
  IN  IF D[o].from = NONE THEN E ELSE Release(E, D[o].from, o)

\* dst_destroy_rcu.
nip_dst_destroy(o) ==
  /\ dst[o].cb = "destroy" /\ dst[o].gp = {}
  /\ dst' = Destroyed(dst, o)
  /\ idev' = Put(idev, dst[o].idev)
  /\ UNCHANGED <<dev, nip_ptr, rlock, ifa, cfg, rd>>

\* nin_dev_finish_destroy_rcu.  Memory that somebody still uses is not given to
\* another idev in the model.
KfreeIdev(i) ==
  /\ idev[i].mem = "rcu" /\ idev[i].gp = {}
  /\ idev' = [idev EXCEPT ![i] = IF @.refcnt = Sat THEN [NoIdev EXCEPT !.refcnt = Sat]
                                 ELSE NoIdev]
  /\ rlock' = [rlock EXCEPT ![i] = 0]
  /\ UNCHANGED <<dev, nip_ptr, ifa, dst, cfg, rd>>

\* kfree_rcu of an address.
KfreeIfa(f) ==
  /\ ifa[f].mem = "rcu" /\ ifa[f].gp = {}
  /\ ifa' = [ifa EXCEPT ![f] = NoIfa]
  /\ UNCHANGED <<dev, nip_ptr, idev, rlock, dst, cfg, rd>>

RcuCallback ==
  \/ \E o \in Dst : FreePcpu(o) \/ nip_rt_release(o) \/ nip_dst_destroy(o)
  \/ \E i \in Idev : KfreeIdev(i)
  \/ \E f \in Ifa : KfreeIfa(f)

-----------------------------------------------------------------------------
(* Lookups.                                                                *)

Goto(r, v) == rd' = [rd EXCEPT ![r] = v]

\* r leaves its read-side critical section.
Quiesce(F, r) == [x \in DOMAIN F |-> [F[x] EXCEPT !.gp = @ \ {r}]]

\* The lock of i was taken and another one released, or the other way round.
Unbalanced(i) ==
  rlock[i] # Cardinality({r \in Proc : rd[r].pc = "saddr" /\ rd[r].i = i})

\* Bound: no lookup begins after a lock has been left unbalanced.
MoreLookups == \A i \in Idev : ~Unbalanced(i)

\* nip_pol_route: the per-CPU copy is held, or the route to make one from.
nip_pol_route(r, o) ==
  /\ MoreLookups
  /\ rd[r].pc = "idle"
  /\ dst[o].linked
  /\ LET c == dst[o].slot IN
     IF c # NONE
       THEN /\ dst' = [dst EXCEPT ![c].hold = @ \cup {r}]
            /\ Goto(r, [NoRd EXCEPT !.pc = "held", !.p = c])
       ELSE /\ dst' = [dst EXCEPT ![o].hold = @ \cup {r}]
            /\ Goto(r, [NoRd EXCEPT !.pc = "copy", !.p = o])
  /\ UNCHANGED <<dev, nip_ptr, idev, rlock, ifa, cfg>>

\* nip_rt_copy_init reads ort->rt_idev, outside RCU.
CopyRead(r) ==
  /\ rd[r].pc = "copy"
  /\ FreeDst # {}
  /\ LET o == dst[rd[r].p]
         c == kzalloc(FreeDst)
     IN  /\ dst' = [dst EXCEPT ![c] = [NoDst EXCEPT !.kind = "copy", !.table = o.table,
                                                    !.dst = o.dst, !.dev = o.dev, !.hold = {r}]]
         /\ Goto(r, [rd[r] EXCEPT !.pc = "hold", !.c = c, !.i = o.idev])
  /\ UNCHANGED <<dev, nip_ptr, idev, rlock, ifa, cfg>>

\* No memory for the copy: the null entry is returned.
CopyFails(r) ==
  /\ rd[r].pc = "copy"
  /\ dst' = Release(dst, rd[r].p, r)
  /\ Goto(r, NoRd)
  /\ UNCHANGED <<dev, nip_ptr, idev, rlock, ifa, cfg>>

\* The rest of nip_rt_copy_init: the idev is held, then the route.
CopyHold(r) ==
  /\ rd[r].pc = "hold"
  /\ idev' = Hold(idev, rd[r].i)
  /\ dst' = [dst EXCEPT ![rd[r].c].idev = rd[r].i, ![rd[r].c].from = rd[r].p,
                        ![rd[r].p].hold = @ \cup {rd[r].c}]
  /\ Goto(r, [rd[r] EXCEPT !.pc = "install"])
  /\ UNCHANGED <<dev, nip_ptr, rlock, ifa, cfg>>

\* The rest of nip_rt_make_pcpu_route: the copy goes into the empty slot, or is
\* destroyed; the caller gets the content of the slot, or the route itself.
Install(r) ==
  /\ rd[r].pc = "install"
  /\ LET o == rd[r].p
         c == rd[r].c
     IN  IF dst[o].pcpu /\ dst[o].slot = NONE
           THEN /\ dst' = Release([dst EXCEPT ![o].slot = c, ![c].hold = {"slot", r}], o, r)
                /\ Goto(r, [NoRd EXCEPT !.pc = "held", !.p = c])
                /\ UNCHANGED idev
           ELSE LET got == IF dst[o].pcpu THEN dst[o].slot ELSE o
                    D   == [dst EXCEPT ![got].hold = @ \cup {r}]
                    E   == Destroyed(D, c)
                IN  /\ dst' = IF got = o THEN E ELSE Release(E, o, r)
                    /\ Goto(r, [NoRd EXCEPT !.pc = "held", !.p = got])
                    /\ idev' = Put(idev, dst[c].idev)
  /\ UNCHANGED <<dev, nip_ptr, rlock, ifa, cfg>>

\* nip_route_output_flags, a route with RTF_LOCAL: read_lock_bh(&rt->rt_idev->lock).
\* All routes of the local table have the flag, and those of the main table for which
\* the ioctl asked for it.
SaddrLock(r) ==
  /\ rd[r].pc = "held"
  /\ LET i == dst[rd[r].p].idev
     IN  /\ rlock' = [rlock EXCEPT ![i] = @ + 1]
         /\ Goto(r, [rd[r] EXCEPT !.pc = "saddr", !.i = i])
  /\ UNCHANGED <<dev, nip_ptr, idev, ifa, dst, cfg>>

\* read_unlock_bh(&rt->rt_idev->lock) reads rt_idev again; the route is released
\* for the broadcast entry.
SaddrUnlock(r) ==
  /\ rd[r].pc = "saddr"
  /\ rlock' = [rlock EXCEPT ![dst[rd[r].p].idev] = @ - 1]
  /\ dst' = Quiesce(Release(dst, rd[r].p, r), r)
  /\ idev' = Quiesce(idev, r)
  /\ ifa' = Quiesce(ifa, r)
  /\ Goto(r, NoRd)
  /\ UNCHANGED <<dev, nip_ptr, cfg>>

\* A socket or a packet gives its route back: nip_route_output_flags got one
\* without RTF_LOCAL, or nip_route_input, which keeps those too, set it in the skb.
Drop(r) ==
  /\ rd[r].pc = "held"
  /\ dst' = Release(dst, rd[r].p, r)
  /\ Goto(r, NoRd)
  /\ UNCHANGED <<dev, nip_ptr, idev, rlock, ifa, cfg>>

Lookup(r) ==
  CopyRead(r) \/ CopyFails(r) \/ CopyHold(r) \/ Install(r) \/ SaddrUnlock(r)

-----------------------------------------------------------------------------
(* Readers of dev->nip_ptr and of the hash table.                          *)

\* rcu_read_lock and __nin_dev_get: nip_get_firstaddr, nip_addr_local, nip_mtu and
\* the first half of nin_dev_get.
ReadPtr(s, d) ==
  /\ rd[s].pc = "idle"
  /\ nip_ptr[d] # NONE
  /\ Goto(s, [NoRd EXCEPT !.pc = "rcu", !.i = nip_ptr[d]])
  /\ UNCHANGED <<dev, nip_ptr, idev, rlock, ifa, dst, cfg>>

\* nip_addr_proc_show finds f in ninet_addr_lst.
ReadHash(s, f) ==
  /\ rd[s].pc = "idle"
  /\ ifa[f].hashed
  /\ Goto(s, [NoRd EXCEPT !.pc = "hash", !.p = f])
  /\ UNCHANGED <<dev, nip_ptr, idev, rlock, ifa, dst, cfg>>

\* rcu_read_unlock.
ReadDone(s) ==
  /\ rd[s].pc \in {"rcu", "hash"}
  /\ idev' = Quiesce(idev, s) /\ ifa' = Quiesce(ifa, s) /\ dst' = Quiesce(dst, s)
  /\ Goto(s, NoRd)
  /\ UNCHANGED <<dev, nip_ptr, rlock, cfg>>

\* nin_dev_get: refcount_inc and rcu_read_unlock.
nin_dev_get(s) ==
  /\ rd[s].pc = "rcu"
  /\ idev' = Quiesce(Hold(idev, rd[s].i), s)
  /\ ifa' = Quiesce(ifa, s) /\ dst' = Quiesce(dst, s)
  /\ Goto(s, [rd[s] EXCEPT !.pc = "ref"])
  /\ UNCHANGED <<dev, nip_ptr, rlock, cfg>>

\* nndisc_constructor ends with nin_dev_put.
nin_dev_put(s) ==
  /\ rd[s].pc = "ref"
  /\ idev' = Put(idev, rd[s].i)
  /\ Goto(s, NoRd)
  /\ UNCHANGED <<dev, nip_ptr, rlock, ifa, dst, cfg>>

Read(s) == ReadDone(s) \/ nin_dev_get(s) \/ nin_dev_put(s)

-----------------------------------------------------------------------------
Configure ==
  \E d \in Managed :
    \/ Register(d) \/ Up(d) \/ MtuTooSmall(d) \/ MtuEnough(d) \/ Down(d) \/ Unregister(d)
    \/ \E a \in Addr : ninet_addr_add(d, a) \/ nip_route_add(d, a)

Next ==
  \/ Configure
  \/ \E f \in Ifa : ninet_addr_del(f)
  \/ \E o \in Dst : nip_route_del(o)
  \/ Ifdown
  \/ RcuCallback
  \/ \E r \in Proc : Lookup(r) \/ SaddrLock(r) \/ Drop(r) \/ \E o \in Dst : nip_pol_route(r, o)
  \/ \E s \in Soft : Read(s) \/ (\E d \in Dev : ReadPtr(s, d))
                     \/ \E f \in Ifa : ReadHash(s, f)

\* An ifdown that has begun goes on, RCU callbacks run, and code in the kernel
\* does not stop half-way.  A socket or a queued packet may keep its route for ever,
\* one with RTF_LOCAL too.
Fairness ==
  /\ WF_vars(Ifdown)
  /\ WF_vars(RcuCallback)
  /\ \A r \in Proc : WF_vars(Lookup(r))
  /\ \A s \in Soft : WF_vars(Read(s))

Spec     == Init /\ [][Next]_vars
FairSpec == Spec /\ Fairness

-----------------------------------------------------------------------------
(* Properties.                                                             *)

\* The references to i that somebody has and will put.
Refs(i) ==
    (IF \E d \in Dev : nip_ptr[d] = i THEN 1 ELSE 0)
  + (IF i = nip_ptr[Lo] THEN 2 ELSE 0)
  + (IF cfg.step # "idle" /\ cfg.unreg /\ cfg.i = i THEN 1 ELSE 0)
  + Cardinality({f \in Ifa : ifa[f].mem = "live" /\ ifa[f].idev = i})
  + Cardinality({o \in Dst : dst[o].idev = i})
  + Cardinality({s \in Soft : rd[s].pc = "ref" /\ rd[s].i = i})

\* The count of an idev is the number of its references: dev->nip_ptr, addresses,
\* routes, copies and nin_dev_get.  It is put for the last time only when it is
\* dead, and what refers to it finds it allocated.  An idev that was incremented
\* at zero is outside the property: refcount_t has reported it.
IdevCounted ==
  \A i \in Idev : idev[i].refcnt # Sat =>
    /\ idev[i].refcnt = Refs(i)
    /\ (idev[i].mem = "live") = (Refs(i) > 0)
    /\ idev[i].mem # "lost"

\* From rcu_read_lock to rcu_read_unlock, a reader with the pointer it found in
\* dev->nip_ptr, or with an address it found in ninet_addr_lst and the idev of that
\* address, reads allocated memory: no step of nip_addrconf_ifdown, ninet_addr_del or
\* an RCU callback frees it under the reader.  Outside the property are
\* nip_rt_copy_init, which holds an idev it read without RCU, and who goes on after
\* nin_dev_get with a reference it took when the count was zero.
ReadersSafe ==
  \A s \in Soft :
    /\ rd[s].pc = "rcu" => idev[rd[s].i].mem # "free"
    /\ rd[s].pc = "hash" => /\ ifa[rd[s].p].mem # "free"
                            /\ idev[ifa[rd[s].p].idev].mem # "free"

\* A copy that was stored after nip_rt_free_pcpu visited its CPU is never released.
Lost(c) == dst[c].from # NONE /\ "slot" \in dst[c].hold /\ dst[dst[c].from].slot # c

\* Nothing in NewIP refers to the net device d.
Released(d) ==
  /\ \A i \in Idev : idev[i].dev = d => idev[i].mem # "live"
  /\ \A o \in Dst : dst[o].dev # d

\* A device that is unregistered loses every reference NewIP has on it, although
\* sockets may keep routes through it for ever: nip_dst_ifdown takes the device out
\* of them.  The races of nip_rt_make_pcpu_route with nip_rt_free_pcpu and of
\* nip_route_output_flags with nip_dst_ifdown are the exceptions.
DeviceReleased ==
  \A d \in Managed :
    dev[d].reg = "unreg" ~> \/ Released(d)
                            \/ \E c \in Dst : Lost(c)
                            \/ \E i \in Idev : Unbalanced(i)

\* NETDEV_DOWN and NETDEV_UNREGISTER remove all addresses from the interface.
DownRemovesAddresses ==
  \A i \in Idev :
    (cfg.step = "hash" /\ cfg.i = i) ~> \A f \in Ifa : ifa[f].listed => ifa[f].idev # i
=============================================================================
