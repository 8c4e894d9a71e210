---------------------------- MODULE MCOrderSaga ----------------------------
(* Small instances of OrderSaga for TLC.                                    *)
EXTENDS OrderSagaProperties, TLC

\* Every sku starts with as many units, every order wants as many.
OneEach == [s \in Skus |-> 1]
WantsOne == [o \in Orders |-> OneEach]
WantsTwo == [o \in Orders |-> [s \in Skus |-> 2]]

Everything == {"create", "confirm", "cancel", "ship", "deliver"}
CreateOnly == {"create"}
CreateAndConfirm == {"create", "confirm"}
NoFulfilment == {"create", "confirm", "cancel"}
NoCancel == {"create", "confirm", "ship", "deliver"}
CreateAndCancel == {"create", "cancel"}

AnyFailure == {"request", "unmarked", "dead", "worker", "handler"}

Perms == Permutations(Requests) \cup Permutations(Consumers)
           \cup Permutations(Orders) \cup Permutations(Keys)
=============================================================================
