CONSTANTS
  d = d
  s = s
  NoName = NoName
  Names <- OneName
  Parent <- OneParent
  Webservers = {"nginx", "apache"}
  Templates = {"default"}
  Customs = {"none", "bad"}
  Features = {"cache", "hotlink", "errors", "redirect", "auth"}
  SwitchWebserver = FALSE
  Uploads = {"junk"}
SPECIFICATION Spec
PROPERTY NoStaleSetting
