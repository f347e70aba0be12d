CONSTANTS
  Looks <- MCLooks
  PortLists <- MCPortLists
  MaxServices = 3
SPECIFICATION ListSpec
 
PROPERTY LesserServicesDoNotMatter
