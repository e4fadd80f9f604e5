------------------------------- MODULE Guards --------------------------------
(***************************************************************************)
(* The guards of a route of Core Concepts, in the order Nest runs them:    *)
(* first those of the application, then those of the controller.  The      *)
(* application has one, JwtAuthGuard; the controllers have AuthGuard('jwt'), *)
(* whose JwtStrategy reads the account of the token and sets request.user, *)
(* and RolesGuard.                                                         *)
(*                                                                         *)
(* JwtAuthGuard asks whether request.user is set, and so asks it of a      *)
(* request that no strategy has seen: the one middleware there is sets a   *)
(* request id.  It lets the public routes through and no other.            *)
(***************************************************************************)
CONSTANT
  AppGuard  \* AppModule provides JwtAuthGuard as APP_GUARD, as it does in the
            \* source; if not, the controllers' guards alone

ASSUME AppGuardAssumption == AppGuard \in BOOLEAN

\* canActivate of JwtAuthGuard.
CanActivate(isPublic, userIsSet) == isPublic \/ userIsSet

\* request.user when the guards of the application run.
UserIsSet == FALSE

\* A route that is not @Public() gets as far as the guards of its controller.
ReachesController == AppGuard => CanActivate(FALSE, UserIsSet)
=============================================================================
