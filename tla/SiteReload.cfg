CONSTANTS
  d = d
  s = s
  NoName = NoName
  Names <- TwoNames
  Parent <- TwoParents
  Webservers = {"nginx"}
  Templates = {"default"}
  Customs = {"none", "bad"}
  Features = {}
  SwitchWebserver = FALSE
  Uploads = {"junk"}
SPECIFICATION Spec
INVARIANTS TypeOK CertsOnDisk ServesTheFiles
PROPERTY OrphansLoseTheirParent
