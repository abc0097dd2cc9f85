CONSTANTS
  d = d
  s = s
  NoName = NoName
  Names <- OneName
  Parent <- OneParent
  Webservers = {"nginx"}
  Templates = {"default"}
  Customs = {"none"}
  Features = {"cache", "hotlink", "errors", "redirect", "auth"}
  SwitchWebserver = FALSE
  Uploads = {"custom"}
SPECIFICATION Spec
INVARIANT SettingsStayApplied
