------------------------------- MODULE Accounts -------------------------------
(***************************************************************************)
(* Users, packages and resellers, sessions, second factors and keys        *)
(* (routers/users, packages, reseller, billing, auth, totp, webauthn and   *)
(* api_keys, services/reseller_service, core/security).  The thing "user"  *)
(* is the account of the operating system, "home" its directory and        *)
(* "shell" what it may log in with; "refresh", "challenge" and "failures"  *)
(* are keys in Redis.                                                      *)
(***************************************************************************)
EXTENDS Script

(* Users.  On a host without shadow-utils ("useradd") no account is made   *)
(* or removed.  The system's password is set when the account is made and  *)
(* not looked at again; what chpasswd and userdel answer is logged.        *)
_useradd ==
  When(Has("useradd"), <<Make("user", "there")>> \o Reported(<<Put("login", Asked)>>))
_userdel ==
  When(Has("useradd"), When(Has("user"), Reported(<<Drop("user"), Drop("login"), Drop("home")>>)))
_apply_shell_for_user(shell) == Try(<<Has("user"), Put("shell", shell)>>)
_resolve_and_validate_package == <<Need("package")>>

\* The limits of a reseller are those of the package.
sync_reseller_limit_from_package ==
  IfElse(Need("limits"), <<Update("limits", Asked)>>, <<Insert("limits", Asked)>>)

create_user ==
  <<Fresh("user")>> \o _resolve_and_validate_package
    \o <<Insert("user", "there"), Rekey("login", Asked)>>
    \o Maybe(sync_reseller_limit_from_package)
    \o _useradd \o Try(<<Make("home", "there")>>) \o _apply_shell_for_user(Asked)
update_user    == <<Need("user"), Update("package_of", Asked)>>
delete_user    == <<Need("user")>> \o _userdel \o <<Delete("user")>>
suspend_user   == <<Need("user"), Update("suspended", "on")>>
unsuspend_user == <<Need("user"), Update("suspended", None)>>

(* Packages.  One that is assigned keeps its type and cannot be deleted;   *)
(* a change is carried to the accounts and limits made from it.            *)
create_package == <<Fresh("package"), Insert("package", "there"), Update("shell", Asked)>>
update_package ==
  <<Need("package"), Update("shell", Asked)>>
    \o When(Need("user"), _apply_shell_for_user(Kept) \o Maybe(sync_reseller_limit_from_package))
delete_package == <<Need("package"), Fresh("user"), Delete("package")>>

(* Resellers.  "used" counts the users of a reseller; it is read, compared *)
(* and written, and so it is for every user of the reseller.               *)
check_reseller_limits == Unless(Is("used", None), <<Is("used", "one")>>)
increment_user_count ==
  IfElse(Is("used", None), <<Update("used", "one")>>,
         IfElse(Is("used", "one"), <<Update("used", "two")>>, <<Update("used", "three")>>))
decrement_user_count ==
  IfElse(Is("used", "two"), <<Update("used", "one")>>,
         When(Is("used", "one"), <<Update("used", None)>>))
\* The account of the operating system is not made.
create_reseller_user ==
  <<Need("limits")>> \o check_reseller_limits \o <<Fresh("member"), Insert("member", "there")>>
    \o increment_user_count
update_reseller_user    == <<Need("member"), Update("package_of", Asked)>>
\* Mutant of delete_reseller_user: as users.delete_user, it does not count.
Mutant_delete_reseller_user == <<Need("member"), Need("limits"), Delete("member")>>
delete_reseller_user ==
  <<Need("member"), Need("limits")>> \o decrement_user_count \o <<Delete("member")>>
suspend_reseller_user   == <<Need("member"), Update("suspended", "on")>>
unsuspend_reseller_user == <<Need("member"), Update("suspended", None)>>

apply_branding  == IfElse(Need("branding"), <<Update("branding", Asked)>>, <<Insert("branding", Asked)>>)
update_branding == apply_branding
create_reseller_package == <<Need("limits"), Fresh("package"), Insert("package", "there")>>
update_reseller_package == <<Need("package"), Update("shell", Asked)>>
delete_reseller_package == delete_package
update_rate_limits      == <<Need("limits"), Update("rate", Asked)>>

\* What the middleware asks of every request of a reseller or its users.
_check_bandwidth_from_token == <<Need("member"), Need("limits"), Is("bandwidth", None)>>
_sliding_window_check == <<Count("window")>>
\* Refused requests are counted as well.  Without Redis nothing is counted.
_check_rate_limit ==
  <<Need("limits")>> \o Try(_sliding_window_check \o When(Shows("window", "full"), <<Raise>>))

(* Billing.  The account of the operating system is not made here either,  *)
(* and a terminated one stays.                                             *)
provision_account ==
  <<Fresh("user"), Need("package"), Insert("user", "there")>> \o Maybe(Try(<<Put("vhost", "there")>>))
suspend_account   == suspend_user
terminate_account == <<Need("user"), Update("active", None), Update("suspended", "on")>>
unsuspend_account == unsuspend_user

(* Sessions.  The thing of "password" is a refresh token that was given    *)
(* out under that password.                                                *)
check_brute_force    == When(Shows("failures", "full"), <<Raise>>)
record_login_failure == <<Count("failures")>>
clear_login_failures == <<Drop("failures")>>
_store_refresh_token == <<Put("password", Kept)>>

\* With a second factor the answer is a token that only totp accepts.
login ==
  check_brute_force
    \o <<Need("user")>> \o Unless(Choice, record_login_failure \o <<Raise>>)
    \o <<Is("suspended", None)>> \o clear_login_failures
    \o When(Is("totp", None), _store_refresh_token)
refresh_token ==
  <<Has("password"), Need("user"), Is("suspended", None), Drop("password")>> \o _store_refresh_token
logout          == <<Need("user"), Drop("password")>>
forgot_password == When(Need("user"), <<Rekey("password", Asked)>>)
\* The new hash is sent when the request is over.
change_password == <<Need("user"), Drop("password"), Rekey("password", Asked)>>

(* One-time passwords: "secret" is set up, "totp" says that it is asked    *)
(* for, and "codes" are the backup codes that are left.                    *)
setup_2fa ==
  <<Need("user"), Is("totp", None), Rekey("secret", Asked), Rekey("codes", "unused")>>
verify_2fa ==
  <<Need("user"), Is("totp", None)>> \o When(Is("secret", None), <<Raise>>) \o <<Update("totp", "on")>>
disable_2fa ==
  <<Need("user"), Is("totp", "on"), Update("totp", None), Update("secret", None), Update("codes", None)>>
_resolve_pending_user == <<Need("user"), Is("suspended", None), Is("totp", "on")>>
login_2fa        == _resolve_pending_user \o _store_refresh_token
\* A code is taken out of the list that was loaded.
login_2fa_backup ==
  _resolve_pending_user \o <<Is("codes", "unused")>> \o _store_refresh_token
    \o <<Update("codes", "spent")>>

(* Passkeys: a challenge is read and then deleted. *)
_store_challenge == <<Put("challenge", "there")>>
_pop_challenge   == <<Has("challenge"), Drop("challenge")>>
registration_options   == <<Need("user")>> \o _store_challenge
registration_verify    == <<Need("user")>> \o _pop_challenge \o <<Fresh("credential"), Insert("credential", "there")>>
authentication_options == _store_challenge
authentication_verify ==
  _pop_challenge \o <<Need("credential"), Need("user"), Is("suspended", None)>>
    \o _store_refresh_token \o <<Rekey("signs", Asked)>>
delete_credential == <<Need("user"), Need("credential"), Delete("credential")>>

(* Keys of the API are not deleted but switched off. *)
\* Mutant of create_api_key: as many keys as one likes.
Mutant_create_api_key == <<Need("user"), Mint("key"), Insert("key", "there")>>
create_api_key == <<Need("user"), Room("key"), Mint("key"), Insert("key", "there")>>
revoke_api_key == <<Need("user"), Need("key"), Update("key", "off")>>

(* Stripe: its events are logged and change nothing else. *)
stripe_webhook ==
  <<Need("integration"), Is("integration", "on")>> \o Maybe(<<Raise>>) \o <<Add("log", "there")>>
create_stripe_checkout ==
  <<Need("integration"), Is("integration", "on"), Need("package"), Put("checkout", "there"),
    Add("log", "there")>>

\* When a process starts, the administrator has the password of secrets.env,
\* whatever it was changed to.
_ensure_admin_user ==
  IfElse(Need("user"), Maybe(<<Rekey("password", "env"), Update("suspended", None), Commit>>),
         <<Insert("user", "there"), Rekey("password", "env"), Commit>>)
=============================================================================
