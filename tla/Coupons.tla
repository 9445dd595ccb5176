------------------------------ MODULE Coupons -------------------------------
(***************************************************************************)
(* Redemption codes: created and revoked by administrators, redeemed by    *)
(* users inside one transaction that holds the code's row (SELECT ... FOR  *)
(* UPDATE) from its checks to its commit.  What a transaction writes is    *)
(* seen by others when it commits.  The texts of codes, expiry dates and   *)
(* arguments are left out: a code lapses at some moment.                   *)
(***************************************************************************)
EXTENDS Naturals, FiniteSets, Requests

CONSTANTS Coupon,
    Account,    \* the users who redeem
    MaxUses     \* bound: the largest max_uses

VARIABLES
    coupon,     \* the rows of coupons, None before a code is created
    redeemed,   \* coupon_redemptions: pairs of a code and a user
    lock,       \* which transaction holds the row of a code
    redeem,     \* the redemption every handler is at
    rewards,    \* how often the effect of a code was committed
    revokedAt   \* history: the uses of a code when it was revoked

couponVars == <<coupon, redeemed, lock, redeem, rewards, revokedAt>>

Action == {"account_unlock", "account_role", "admin_alert", "custom_hook"}
Row == [action : Action, max : 1..MaxUses, used : Nat, revoked : BOOLEAN, expired : BOOLEAN,
        mode : {"creator", "manual"}, holder : Account \cup {None}]

ASSUME CouponsAssumption == MaxUses \in Nat /\ None \notin Row \cup Handler

CouponTypeOK ==
    /\ \A c \in Coupon : coupon[c] = None \/ coupon[c] \in Row
    /\ redeemed \subseteq Coupon \X Account
    /\ lock \in [Coupon -> Handler \cup {None}]
    /\ \A h \in Handler : redeem[h].pc \in {"idle", "locked", "checked", "executed"}

CouponInit ==
    /\ coupon = [c \in Coupon |-> None]
    /\ redeemed = {} /\ lock = [c \in Coupon |-> None]
    /\ redeem = [h \in Handler |-> Idle]
    /\ rewards = [c \in Coupon |-> 0] /\ revokedAt = [c \in Coupon |-> None]

(* A code of mode "creator" is held by its creator; root cannot be one.    *)
create(c, action, max, mode, holder) ==
    /\ coupon[c] = None /\ (mode = "creator" => holder # None)
    /\ coupon' = [coupon EXCEPT ![c] =
         [action |-> action, max |-> max, used |-> 0, revoked |-> FALSE, expired |-> FALSE,
          mode |-> mode, holder |-> holder]]
    /\ UNCHANGED <<redeemed, lock, redeem, rewards, revokedAt>>
(* The UPDATE waits for the row. *)
revoke(c) ==
    /\ coupon[c] # None /\ lock[c] = None /\ ~coupon[c].revoked
    /\ coupon' = [coupon EXCEPT ![c].revoked = TRUE]
    /\ revokedAt' = [revokedAt EXCEPT ![c] = coupon[c].used]
    /\ UNCHANGED <<redeemed, lock, redeem, rewards>>
Lapses(c) ==
    /\ coupon[c] # None /\ ~coupon[c].expired
    /\ coupon' = [coupon EXCEPT ![c].expired = TRUE]
    /\ UNCHANGED <<redeemed, lock, redeem, rewards, revokedAt>>

(* Mutant: the row is read without FOR UPDATE. *)
RedeemLockless(h, c, u) ==
    /\ redeem[h].pc = "idle" /\ coupon[c] # None
    /\ redeem' = [redeem EXCEPT ![h] = [pc |-> "locked", code |-> c, user |-> u, row |-> coupon[c]]]
    /\ UNCHANGED <<coupon, redeemed, lock, rewards, revokedAt>>
(* SELECT ... FOR UPDATE *)
RedeemLock(h, c, u) ==
    /\ redeem[h].pc = "idle" /\ coupon[c] # None /\ lock[c] = None
    /\ redeem' = [redeem EXCEPT ![h] = [pc |-> "locked", code |-> c, user |-> u, row |-> coupon[c]]]
    /\ lock' = [lock EXCEPT ![c] = h]
    /\ UNCHANGED <<coupon, redeemed, rewards, revokedAt>>

Release(h) ==
    /\ lock' = [lock EXCEPT ![redeem[h].code] = IF @ = h THEN None ELSE @]
    /\ redeem' = [redeem EXCEPT ![h] = Idle]
Abort(h) == Release(h) /\ UNCHANGED <<coupon, redeemed, rewards, revokedAt>>
(* The refusals, on the row as it was read; the date is compared now.      *)
Refused(h) ==
    LET r == redeem[h].row u == redeem[h].user
    IN  \/ r.revoked \/ r.used >= r.max \/ coupon[redeem[h].code].expired
        \/ r.holder # None /\ r.holder # u
        \/ r.mode = "creator" /\ r.holder # u
RedeemCheck(h) ==
    /\ redeem[h].pc = "locked"
    /\ \/ (Refused(h) \/ <<redeem[h].code, redeem[h].user>> \in redeemed) /\ Abort(h)
       \/ /\ ~Refused(h) /\ <<redeem[h].code, redeem[h].user>> \notin redeemed
          /\ redeem' = [redeem EXCEPT ![h].pc = "checked"]
          /\ UNCHANGED <<coupon, redeemed, lock, rewards, revokedAt>>
(* The effect; only a role may fail (no such group, an administrator's).   *)
execute_action(h) ==
    /\ redeem[h].pc = "checked"
    /\ \/ redeem[h].row.action = "account_role" /\ Abort(h)
       \/ /\ redeem' = [redeem EXCEPT ![h].pc = "executed"]
          /\ UNCHANGED <<coupon, redeemed, lock, rewards, revokedAt>>
(* used_count + 1, the redemption (unique per code and user), the commit.  *)
RedeemCommit(h) ==
    LET c == redeem[h].code pair == <<c, redeem[h].user>>
    IN  /\ redeem[h].pc = "executed"
        /\ IF pair \in redeemed THEN UNCHANGED <<coupon, redeemed, rewards>>
           ELSE /\ coupon' = [coupon EXCEPT ![c].used = @ + 1]
                /\ redeemed' = redeemed \cup {pair}
                /\ rewards' = [rewards EXCEPT ![c] = @ + 1]
        /\ Release(h) /\ UNCHANGED revokedAt
(* The connection is lost: the transaction is rolled back. *)
Rollback(h) == redeem[h].pc # "idle" /\ Abort(h)

CouponNext ==
    \/ \E c \in Coupon, a \in Action, m \in 1..MaxUses, mode \in {"creator", "manual"}, u \in Account \cup {None} :
         create(c, a, m, mode, u)
    \/ \E c \in Coupon : revoke(c) \/ Lapses(c)
    \/ \E h \in Handler, c \in Coupon, u \in Account : RedeemLock(h, c, u)
    \/ \E h \in Handler : RedeemCheck(h) \/ execute_action(h) \/ RedeemCommit(h) \/ Rollback(h)

CouponSpec == CouponInit /\ [][CouponNext]_couponVars

(* A code is never worth more than it says: its uses are its redemptions,  *)
(* each of another user and each with its one effect; they never exceed    *)
(* max_uses; and once the code is revoked nobody redeems it any more, also *)
(* not a request that had begun before.  admin/coupons.rs:59, 66-79.       *)
CouponsAreHonoured ==
    /\ CouponTypeOK
    /\ \A c \in Coupon : coupon[c] # None =>
        LET n == Cardinality({p \in redeemed : p[1] = c})
        IN  /\ coupon[c].used = n /\ rewards[c] = n /\ n <= coupon[c].max
            /\ coupon[c].revoked => n = revokedAt[c]
            /\ coupon[c].holder # None => \A p \in redeemed : p[1] = c => p[2] = coupon[c].holder
=============================================================================
