----------------------------- MODULE Applications -----------------------------
(***************************************************************************)
(* Node and Python applications, applications of the catalogue, WordPress  *)
(* and deployments from git (routers/runtime, apps, wordpress and          *)
(* git_deploy, services/git_deploy_service).                               *)
(*                                                                         *)
(* A runtime application has a "unit" of systemd (what it says is the      *)
(* settings of the row), a process that is "running" or not, a "port" and  *)
(* a vhost that forwards to the port.  An application of the catalogue has *)
(* a "tree" of files and a database.                                       *)
(***************************************************************************)
EXTENDS Script

(* Runtime applications.  What fails while they are set up is a warning.   *)
_setup_node_app   == Try(<<Put("tree", "app")>>) \o Try(<<Put("unit", Asked)>>)
_setup_python_app == _setup_node_app
_configure_reverse_proxy == Try(<<Put("proxy", Asked)>>)
_remove_service ==
  Try(<<Drop("running")>>) \o Try(<<Drop("unit")>>)

\* The row has a new id, which names the unit.  Ports are compared before it is
\* made; no index keeps them apart.
create_runtime_app ==
  <<Need("domain"), Room("unit"), Mint("unit"), Insert("unit", Asked)>>
    \o Either(_setup_node_app, _setup_python_app) \o _configure_reverse_proxy
update_runtime_app ==
  <<Need("unit"), Update("unit", Asked)>>
    \o Either(_setup_node_app, _setup_python_app) \o Maybe(_configure_reverse_proxy)
    \o When(Is("running", "on"), Try(<<Put("running", "on")>>))
\* The vhost stays.
delete_runtime_app == <<Need("unit")>> \o _remove_service \o <<Delete("unit")>>

\* Without a unit an application of Node is left to pm2.
start_runtime_app ==
  <<Need("unit")>> \o Maybe(<<Has("unit")>>) \o <<Put("running", "on"), Update("running", "on")>>
stop_runtime_app ==
  <<Need("unit")>> \o Try(<<Drop("running")>>) \o <<Update("running", None)>>
restart_runtime_app ==
  <<Need("unit")>> \o Either(Try(<<Has("unit"), Put("running", "on")>>),
                             <<Has("unit"), Put("running", "on")>>)
    \o <<Update("running", "on")>>
install_runtime_deps == <<Need("unit"), Has("tree"), Put("deps", "there")>>

(* The catalogue.  Nothing is undone when an installation fails. *)
_provision_db   == <<Make("appdb", Asked)>>
_download       == <<Put("archive", "there")>>
_extract        == <<Put("tree", Asked)>>
\* finally: the archive is removed.
fetched         == OrUndo(_download \o _extract, Try(<<Drop("archive")>>)) \o Try(<<Drop("archive")>>)
_install_php_archive == Maybe(_provision_db) \o fetched
_install_wordpress   == _provision_db \o fetched \o <<Put("config", Asked)>>
_install_laravel     == _provision_db \o <<Put("tree", Asked), Put("config", Asked)>>
_install_nodejs      == <<Put("tree", Asked), New("process", "running")>>
_install_django      == <<Put("tree", Asked)>> \o Maybe(Try(_provision_db)) \o <<Put("project", Asked)>>
_install_ghost       == _provision_db \o <<Put("tree", Asked)>>
_install_docker_app  == <<New("process", "running")>>
_install_binary_app  == Maybe(_provision_db) \o fetched

\* No row is made for it.
install_catalog_app ==
  Either(_install_wordpress, Either(_install_laravel, Either(_install_php_archive,
    Either(_install_ghost, Either(_install_docker_app, _install_binary_app)))))
\* The domain is a unique column that is not looked at beforehand.
deploy_app ==
  Either(_install_nodejs, _install_django) \o <<Insert("app", "running")>>

_control_app(state) == <<Change("process", state)>>
stop_app    == _control_app("stopped") \o When(Need("app"), <<Update("app", "stopped")>>)
start_app   == _control_app("running") \o When(Need("app"), <<Update("app", "running")>>)
restart_app == start_app
update_env_vars == <<Put("environment", Asked)>> \o Try(_control_app("running"))

(* WordPress.  There are no rows: wp-config.php says that it is there.     *)
wp_update_core    == <<Has("config"), Change("core", Asked), Put("schema", Asked)>>
wp_update_plugins == <<Has("config"), Put("plugins", Asked)>>
wp_backup ==
  <<Has("config")>> \o Try(<<Copy("dump", "content")>>) \o <<Copy("archive", "core")>>
    \o Try(<<Drop("dump")>>)
\* A clone that fails half-way stays as it is, and works on the database of
\* the original, whose wp-config.php was copied.
wp_clone ==
  <<Has("config"), New("clone", "files"), Copy("dump", "content"), Copy("content", "dump"),
    Put("content", Asked)>> \o Try(<<Drop("dump")>>)
wp_search_replace == <<Has("config"), Put("content", Asked)>>

(* Git.  The row is locked from "deploying" to the end of the request. *)
clone_or_pull        == <<Put("tree", Asked)>>
run_build_command    == <<Put("build", Asked)>>
run_post_deploy_hook == <<Put("hook", Asked)>>
execute_deploy == clone_or_pull \o Maybe(run_build_command) \o Maybe(run_post_deploy_hook)
\* Mutant of deployed: "deploying" is committed for everybody to see.
Mutant_deployed ==
  <<Commit>> \o TryElse(execute_deploy, <<Update("status", "failed")>>, <<Update("status", "success")>>)
deployed ==
  TryElse(execute_deploy, <<Update("status", "failed")>>, <<Update("status", "success")>>)

setup_git_deploy ==
  <<Need("domain"), Fresh("deployment"), Insert("deployment", Asked)>>
update_git_deploy == <<Need("domain"), Need("deployment"), Rekey("deployment", Asked)>>
trigger_deploy ==
  <<Need("domain"), Need("deployment"), Update("status", "deploying")>> \o deployed
    \o <<Add("log", "there")>>
webhook_handler ==
  <<Need("deployment")>> \o Maybe(<<Need("domain"), Update("status", "deploying")>> \o deployed
                                    \o <<Add("log", "there")>>)
remove_git_deploy ==
  <<Need("domain"), Need("deployment"), Clear("log"), Delete("deployment")>>
=============================================================================
